----------------------------- MODULE StreamProofs -----------------------------
(* Proofs about the DTL and its streams, for any number of actors and calls: *)
(* whatever clients do, every call gets the answer to its own request and    *)
(* the engines have the settings of the stream; clients that open in rounds  *)
(* share one engine in each of them.                                         *)
EXTENDS StreamProperties, FiniteSetTheorems, TLAPS

-----------------------------------------------------------------------------
(* The two queues                                                           *)

QueueTypes ==
  /\ inbox \in Seq(Request) /\ serving \in Request \cup {NoCall}
  /\ resumed \in Seq(Actors) /\ getters \in Seq(Actors) /\ answers \in Seq(Calls)
  /\ active \in SUBSET Actors
  /\ calling \in [Actors -> Calls \cup {NoCall}]
  /\ told \in [Actors -> Calls \cup {NoCall}] /\ calls \in [Actors -> Nat]

\* Each request is of another actor, which is in that call.
Requests ==
  /\ \A i \in 1 .. Len(inbox) : calling[inbox[i].from] = inbox[i].call
  /\ \A i, j \in 1 .. Len(inbox) : i # j => inbox[i].from # inbox[j].from
  /\ serving # NoCall => calling[serving.from] = serving.call
  /\ serving # NoCall =>
       \A i \in 1 .. Len(inbox) : inbox[i].from # serving.from

\* The actors whose request was taken are others still, each of them once.
Taken ==
  /\ \A i \in 1 .. Len(inbox), j \in 1 .. Len(resumed) : inbox[i].from # resumed[j]
  /\ \A i, j \in 1 .. Len(resumed) : i # j => resumed[i] # resumed[j]

\* An actor that waits for an answer is the only one, the server works on its
\* request; otherwise the answers are those of the first resumed actors, and
\* the request of the last one is being served.
Ordered ==
  /\ getters # <<>> =>
       /\ serving # NoCall /\ getters = <<serving.from>>
       /\ resumed = <<>> /\ answers = <<>>
  /\ getters = <<>> /\ serving = NoCall => Len(resumed) = Len(answers)
  /\ getters = <<>> /\ serving # NoCall =>
       Len(resumed) = Len(answers) + 1 /\ resumed[Len(resumed)] = serving.from
  /\ \A i \in 1 .. Len(answers) : calling[resumed[i]] = answers[i]

\* An actor counts as connected as its last answer says, or the one that is on
\* its way to it.
Counted ==
  /\ \A a \in Actors : \/ a \in active <=> told[a] = "connect"
                       \/ \E i \in 1 .. Len(answers) : resumed[i] = a
  /\ \A i \in 1 .. Len(answers) : resumed[i] \in active <=> answers[i] = "connect"

QueueInv == QueueTypes /\ Requests /\ Taken /\ Ordered /\ Counted

-----------------------------------------------------------------------------
(* Sequences                                                                *)

\* What Append, Head and Tail do to the elements of a queue.
LEMMA AppendIs ==
  ASSUME NEW S, NEW q \in Seq(S), NEW x \in S
  PROVE  /\ Append(q, x) \in Seq(S)
         /\ Len(q) \in Nat
         /\ Len(Append(q, x)) = Len(q) + 1
         /\ \A i \in 1 .. Len(q) : Append(q, x)[i] = q[i]
         /\ Append(q, x)[Len(q) + 1] = x
  OBVIOUS

LEMMA TailIs ==
  ASSUME NEW S, NEW q \in Seq(S), q # <<>>
  PROVE  /\ Head(q) \in S /\ Head(q) = q[1]
         /\ Tail(q) \in Seq(S)
         /\ Len(q) \in Nat \ {0}
         /\ Len(Tail(q)) = Len(q) - 1
         /\ \A i \in 1 .. Len(q) - 1 : Tail(q)[i] = q[i + 1]
  OBVIOUS

LEMMA ElementIs ==
  ASSUME NEW S, NEW q \in Seq(S)
  PROVE  /\ Len(q) \in Nat /\ (q = <<>> <=> Len(q) = 0)
         /\ \A i \in 1 .. Len(q) : q[i] \in S
  OBVIOUS

-----------------------------------------------------------------------------
(* One lemma per step of the queues                                         *)

LEMMA QueuesStart == ASSUME ConnectionInit PROVE QueueInv
<1> USE DEF ConnectionInit
<1>1. Len(inbox) = 0 /\ Len(resumed) = 0 /\ Len(answers) = 0
  OBVIOUS
<1>2. QueueTypes
  BY DEF QueueTypes
<1>3. Requests /\ Taken
  BY <1>1 DEF Requests, Taken
<1>4. Ordered
  BY <1>1 DEF Ordered
<1>5. Counted
  <2>1. \A a \in Actors : a \notin active /\ told[a] # "connect"
    BY NoCallAssumption DEF Calls
  <2> QED BY <1>1, <2>1 DEF Counted
<1> QED BY <1>2, <1>3, <1>4, <1>5 DEF QueueInv

\* Whoever is somewhere in the queues is in a call.
LEMMA QueuedAreCalling ==
  ASSUME QueueInv
  PROVE  /\ \A i \in 1 .. Len(inbox) :
              inbox[i].from \in Actors /\ calling[inbox[i].from] # NoCall
         /\ \A i \in 1 .. Len(resumed) :
              resumed[i] \in Actors /\ calling[resumed[i]] # NoCall
         /\ serving # NoCall =>
              serving.from \in Actors /\ calling[serving.from] # NoCall
<1> USE DEF QueueInv, QueueTypes
<1>1. \A i \in 1 .. Len(inbox) : inbox[i] \in Request
  BY ElementIs
<1>2. \A i \in 1 .. Len(answers) : answers[i] \in Calls
  BY ElementIs
<1>3. /\ Len(resumed) \in Nat /\ Len(answers) \in Nat
      /\ \A i \in 1 .. Len(resumed) : resumed[i] \in Actors
  BY ElementIs
<1>4. serving # NoCall =>
        serving.from \in Actors /\ calling[serving.from] # NoCall
  BY NoCallAssumption DEF Requests, Request
<1>5. ASSUME NEW i \in 1 .. Len(resumed)
      PROVE  calling[resumed[i]] # NoCall
  <2>1. CASE i \in 1 .. Len(answers)
    BY <1>2, <2>1, NoCallAssumption DEF Ordered
  <2>2. CASE i \notin 1 .. Len(answers)
    <3>1. getters = <<>>
      BY <1>3, <1>5 DEF Ordered
    <3>2. serving # NoCall /\ i = Len(resumed)
      BY <1>3, <2>2, <3>1 DEF Ordered
    <3> QED BY <1>4, <3>1, <3>2 DEF Ordered
  <2> QED BY <2>1, <2>2
<1> QED BY <1>1, <1>3, <1>4, <1>5, NoCallAssumption DEF Requests, Request

LEMMA AskKeepsQueues ==
  ASSUME QueueInv, NEW a \in Actors, NEW c \in Calls, Ask(a, c)
  PROVE  QueueInv'
<1> USE DEF QueueInv
<1> DEFINE r == [from |-> a, call |-> c]
<1>1. r \in Request /\ inbox \in Seq(Request) /\ inbox' = Append(inbox, r)
  BY DEF Ask, QueueTypes, Request
<1>2. /\ Len(inbox) \in Nat /\ Len(inbox') = Len(inbox) + 1
      /\ \A i \in 1 .. Len(inbox) : inbox'[i] = inbox[i]
      /\ inbox'[Len(inbox) + 1] = r
  BY <1>1, AppendIs
<1>3. /\ \A i \in 1 .. Len(inbox) : inbox[i].from \in Actors /\ inbox[i].from # a
      /\ \A i \in 1 .. Len(resumed) : resumed[i] \in Actors /\ resumed[i] # a
      /\ serving # NoCall => serving.from \in Actors /\ serving.from # a
  BY QueuedAreCalling DEF Ask
<1>4. /\ calling' = [calling EXCEPT ![a] = c]
      /\ UNCHANGED <<serving, resumed, getters, answers, active, told>>
      /\ calling \in [Actors -> Calls \cup {NoCall}]
  BY DEF Ask, QueueTypes
<1>5. QueueTypes'
  <2>1. inbox' \in Seq(Request)
    BY <1>1, AppendIs
  <2> QED BY <1>4, <2>1 DEF QueueTypes, Ask
<1>6. \A i \in 1 .. Len(inbox') : i \in 1 .. Len(inbox) \/ i = Len(inbox) + 1
  BY <1>2
<1>7. Requests'
  <2>1. \A i \in 1 .. Len(inbox') : calling'[inbox'[i].from] = inbox'[i].call
    BY <1>2, <1>3, <1>4, <1>6 DEF Requests
  <2>2. \A i, j \in 1 .. Len(inbox') : i # j => inbox'[i].from # inbox'[j].from
    BY <1>2, <1>3, <1>6 DEF Requests
  <2>3. serving # NoCall => calling'[serving.from] = serving.call
    BY <1>3, <1>4 DEF Requests
  <2>4. serving # NoCall =>
          \A i \in 1 .. Len(inbox') : inbox'[i].from # serving.from
    BY <1>2, <1>3, <1>6 DEF Requests
  <2> QED BY <1>4, <2>1, <2>2, <2>3, <2>4 DEF Requests
<1>8. Taken'
  BY <1>2, <1>3, <1>4, <1>6 DEF Taken
<1>9. Ordered'
  <2>1. \A i \in 1 .. Len(answers) : i \in 1 .. Len(resumed)
    BY ElementIs DEF Ordered, QueueTypes
  <2>2. \A i \in 1 .. Len(answers) : calling'[resumed[i]] = answers[i]
    BY <1>3, <1>4, <2>1 DEF Ordered
  <2> QED BY <1>4, <2>2 DEF Ordered
<1>10. Counted'
  BY <1>4 DEF Counted
<1> QED BY <1>5, <1>7, <1>8, <1>9, <1>10

LEMMA TakeKeepsQueues ==
  ASSUME QueueInv, Take
  PROVE  QueueInv'
<1> USE DEF QueueInv
<1> DEFINE h == Head(inbox)
<1>1. /\ serving = NoCall /\ inbox # <<>> /\ serving' = h
      /\ inbox' = Tail(inbox) /\ resumed' = Append(resumed, h.from)
      /\ UNCHANGED <<getters, answers, active, calling, told, calls>>
      /\ inbox \in Seq(Request) /\ resumed \in Seq(Actors)
  BY DEF Take, callers, QueueTypes
<1>2. /\ h \in Request /\ h = inbox[1] /\ inbox' \in Seq(Request)
      /\ Len(inbox) \in Nat \ {0} /\ Len(inbox') = Len(inbox) - 1
      /\ \A i \in 1 .. Len(inbox) - 1 : inbox'[i] = inbox[i + 1]
  BY <1>1, TailIs
<1> HIDE DEF h
<1>3. h.from \in Actors /\ calling[h.from] = h.call /\ serving' # NoCall
  <2>1. h.from \in Actors
    BY <1>2 DEF Request
  <2>2. 1 \in 1 .. Len(inbox)
    BY <1>2
  <2>3. calling[h.from] = h.call
    BY <1>2, <2>2 DEF Requests
  <2>4. serving' # NoCall
    BY <1>1, <1>2, NoCallAssumption
  <2> QED
    BY <2>1, <2>3, <2>4
<1>4. /\ resumed' \in Seq(Actors) /\ Len(resumed) \in Nat
      /\ Len(resumed') = Len(resumed) + 1
      /\ \A i \in 1 .. Len(resumed) : resumed'[i] = resumed[i]
      /\ resumed'[Len(resumed) + 1] = h.from
  BY <1>1, <1>3, AppendIs
<1>5. \A i \in 1 .. Len(inbox') : i + 1 \in 1 .. Len(inbox) /\ i + 1 # 1
  BY <1>2
<1>6. \A i \in 1 .. Len(resumed') : i \in 1 .. Len(resumed) \/ i = Len(resumed) + 1
  BY <1>4
<1>7. getters = <<>> /\ Len(resumed) = Len(answers)
  BY <1>1 DEF Ordered
<1>8. QueueTypes'
  BY <1>1, <1>2, <1>4 DEF QueueTypes
<1>9. Requests'
  <2>1. \A i \in 1 .. Len(inbox') : calling[inbox'[i].from] = inbox'[i].call
    BY <1>2, <1>5 DEF Requests
  <2>2. \A i, j \in 1 .. Len(inbox') : i # j => inbox'[i].from # inbox'[j].from
    BY <1>2, <1>5 DEF Requests
  <2>3. \A i \in 1 .. Len(inbox') : inbox'[i].from # h.from
    BY <1>2, <1>5 DEF Requests
  <2> QED BY <1>1, <1>3, <2>1, <2>2, <2>3 DEF Requests
<1>10. Taken'
  <2>1. \A i \in 1 .. Len(inbox'), j \in 1 .. Len(resumed) :
          inbox'[i].from # resumed'[j]
    BY <1>2, <1>4, <1>5 DEF Taken
  <2>2. \A i \in 1 .. Len(inbox') : inbox'[i].from # h.from
    BY <1>2, <1>5 DEF Requests
  <2>3. \A j \in 1 .. Len(resumed) : resumed'[j] # h.from
    BY <1>2, <1>4 DEF Taken
  <2>4. \A i, j \in 1 .. Len(resumed) : i # j => resumed'[i] # resumed'[j]
    BY <1>4 DEF Taken
  <2> QED BY <1>4, <1>6, <2>1, <2>2, <2>3, <2>4 DEF Taken
<1>11. Ordered'
  <2>1. \A i \in 1 .. Len(answers) : calling[resumed'[i]] = answers[i]
    BY <1>4, <1>7 DEF Ordered
  <2> QED BY <1>1, <1>3, <1>4, <1>7, <2>1 DEF Ordered
<1>12. Counted'
  <2>1. \A i \in 1 .. Len(answers) : resumed'[i] = resumed[i]
    BY <1>4, <1>7
  <2> QED BY <1>1, <2>1 DEF Counted
<1> QED BY <1>8, <1>9, <1>10, <1>11, <1>12

LEMMA GetKeepsQueues ==
  ASSUME QueueInv, NEW a \in Actors, GetAnswer(a)
  PROVE  /\ QueueInv'
         /\ answers # <<>> => calling[a] = Head(answers)
<1> USE DEF QueueInv
<1>1. /\ resumed # <<>> /\ a = Head(resumed) /\ resumed' = Tail(resumed)
      /\ UNCHANGED <<inbox, serving, active, calls>>
      /\ resumed \in Seq(Actors) /\ answers \in Seq(Calls)
      /\ getters \in Seq(Actors)
  BY DEF GetAnswer, QueueTypes
<1>2. /\ a = resumed[1] /\ resumed' \in Seq(Actors)
      /\ Len(resumed) \in Nat \ {0} /\ Len(resumed') = Len(resumed) - 1
      /\ \A i \in 1 .. Len(resumed) - 1 : resumed'[i] = resumed[i + 1]
  BY <1>1, TailIs
<1>3. \A i \in 1 .. Len(resumed') :
        i + 1 \in 1 .. Len(resumed) /\ i + 1 # 1 /\ resumed'[i] = resumed[i + 1]
  BY <1>2
<1>4. getters = <<>>
  BY <1>1 DEF Ordered
<1>5. Taken'
  BY <1>1, <1>3 DEF Taken
<1>6. /\ \A i \in 1 .. Len(inbox) : inbox[i].from \in Actors /\ inbox[i].from # a
      /\ \A i \in 1 .. Len(resumed') : resumed'[i] \in Actors /\ resumed'[i] # a
      /\ serving # NoCall => serving.from \in Actors
  <2>1. \A i \in 1 .. Len(inbox) : inbox[i].from # a
    BY <1>2 DEF Taken
  <2>2. \A i \in 1 .. Len(resumed') : resumed'[i] # a
    BY <1>2, <1>3 DEF Taken
  <2> QED BY <1>3, <2>1, <2>2, QueuedAreCalling
<1>7. CASE answers # <<>>
  <2>1. /\ told' = [told EXCEPT ![a] = Head(answers)]
        /\ calling' = [calling EXCEPT ![a] = NoCall]
        /\ answers' = Tail(answers) /\ UNCHANGED getters
    BY <1>7 DEF GetAnswer, Tell
  <2>2. /\ Head(answers) \in Calls /\ Head(answers) = answers[1]
        /\ answers' \in Seq(Calls)
        /\ Len(answers) \in Nat \ {0} /\ Len(answers') = Len(answers) - 1
        /\ \A i \in 1 .. Len(answers) - 1 : answers'[i] = answers[i + 1]
    BY <1>1, <1>7, <2>1, TailIs
  <2>3. \A i \in 1 .. Len(answers') :
          /\ i + 1 \in 1 .. Len(answers) /\ answers'[i] = answers[i + 1]
          /\ i \in 1 .. Len(resumed') /\ resumed'[i] = resumed[i + 1]
    BY <1>2, <1>3, <1>4, <2>2 DEF Ordered
  <2>4. calling[a] = Head(answers) /\ (a \in active <=> Head(answers) = "connect")
    BY <1>2, <2>2 DEF Ordered, Counted
  <2>5. QueueTypes'
    BY <1>1, <1>2, <2>1, <2>2 DEF QueueTypes
  <2>6. serving # NoCall => serving.from # a
    <3>1. serving # NoCall =>
            Len(resumed) # 1 /\ serving.from = resumed[Len(resumed)]
      BY <1>2, <1>4, <2>2 DEF Ordered
    <3> QED BY <1>2, <3>1 DEF Taken
  <2>7. \A b \in Actors : b # a => calling'[b] = calling[b] /\ told'[b] = told[b]
    BY <2>1 DEF QueueTypes
  <2>8. Requests'
    BY SMTT(30), <1>1, <1>6, <2>6, <2>7 DEF Requests
  <2>9. Ordered'
    <3>1. ASSUME NEW i \in 1 .. Len(answers')
          PROVE  calling'[resumed'[i]] = answers'[i]
      <4>1. calling[resumed[i + 1]] = answers[i + 1]
        BY <2>3 DEF Ordered
      <4>2. calling'[resumed'[i]] = calling[resumed'[i]]
        BY <1>6, <2>3, <2>7
      <4> QED BY <2>3, <4>1, <4>2
    <3>2. serving # NoCall =>
            /\ Len(resumed') = Len(answers') + 1
            /\ resumed'[Len(resumed')] = serving.from
      <4>1. serving # NoCall =>
              Len(resumed) = Len(answers) + 1 /\ serving.from = resumed[Len(resumed)]
        BY <1>4 DEF Ordered
      <4> QED BY <1>2, <1>3, <2>2, <4>1
    <3>3. serving = NoCall => Len(resumed') = Len(answers')
      BY <1>2, <1>4, <2>2 DEF Ordered
    <3> QED BY <1>1, <1>4, <2>1, <3>1, <3>2, <3>3 DEF Ordered
  <2>10. Counted'
    <3>1. a \in active <=> told'[a] = "connect"
      BY <2>1, <2>4 DEF QueueTypes
    <3>2. ASSUME NEW b \in Actors, b # a, NEW i \in 1 .. Len(answers), resumed[i] = b
          PROVE  i - 1 \in 1 .. Len(answers') /\ resumed'[i - 1] = b
      BY <1>2, <1>3, <2>2, <2>3, <3>2
    <3>3. \A b \in Actors : \/ b \in active <=> told'[b] = "connect"
                            \/ \E i \in 1 .. Len(answers') : resumed'[i] = b
      BY <2>7, <3>1, <3>2 DEF Counted
    <3>4. \A i \in 1 .. Len(answers') :
            resumed'[i] \in active <=> answers'[i] = "connect"
      BY <2>3 DEF Counted
    <3> QED BY <1>1, <3>3, <3>4 DEF Counted
  <2> QED BY <1>5, <2>4, <2>5, <2>8, <2>9, <2>10
<1>8. CASE answers = <<>>
  <2>1. /\ getters' = Append(getters, a) /\ UNCHANGED <<answers, calling, told>>
        /\ Len(answers) = 0
    BY <1>8 DEF GetAnswer
  <2>2. serving # NoCall /\ Len(resumed) = 1 /\ a = serving.from
    BY <1>2, <1>4, <2>1 DEF Ordered
  <2>3. getters' = <<a>> /\ getters' \in Seq(Actors) /\ resumed' = <<>>
    BY <1>2, <1>4, <2>1, <2>2, ElementIs
  <2>4. QueueTypes'
    BY <1>1, <1>2, <2>1, <2>3 DEF QueueTypes
  <2>5. Requests' /\ Counted'
    BY <1>1, <2>1 DEF Requests, Counted
  <2>6. Ordered'
    <3>1. serving' = serving /\ getters' = <<serving.from>>
      BY <1>1, <2>2, <2>3
    <3>2. resumed' = <<>> /\ answers' = <<>>
      BY <1>8, <2>1, <2>3
    <3>3. Len(getters') = 1 /\ getters' # <<>>
      BY <3>1
    <3>4. \A i \in 1 .. Len(answers') : calling'[resumed'[i]] = answers'[i]
      BY <2>1
    <3> QED BY <2>2, <3>1, <3>2, <3>3, <3>4 DEF Ordered
  <2> QED BY <1>5, <1>8, <2>4, <2>5, <2>6
<1> QED BY <1>7, <1>8

LEMMA AnswerKeepsQueues ==
  ASSUME QueueInv, Answer
  PROVE  /\ QueueInv'
         /\ getters # <<>> => Head(getters) = serving.from
<1> USE DEF QueueInv
<1> DEFINE f == serving.from
           c == serving.call
<1>1. /\ serving # NoCall /\ serving' = NoCall /\ active' = Connected(f, c)
      /\ UNCHANGED <<inbox, resumed, calls>>
      /\ serving \in Request /\ f \in Actors /\ c \in Calls /\ calling[f] = c
  BY DEF Answer, QueueTypes, Request, Requests
<1>2. /\ active' \in SUBSET Actors
      /\ f \in active' <=> c = "connect"
      /\ \A b \in Actors : b # f => (b \in active' <=> b \in active)
  BY <1>1 DEF Connected, QueueTypes, Calls
<1>3. /\ Len(resumed) \in Nat /\ Len(answers) \in Nat
      /\ \A i \in 1 .. Len(resumed) : resumed[i] \in Actors
      /\ \A i \in 1 .. Len(inbox) : inbox[i].from \in Actors /\ inbox[i].from # f
  BY <1>1, ElementIs, QueuedAreCalling DEF QueueTypes, Requests
<1>4. Taken'
  BY <1>1 DEF Taken
<1>5. CASE getters # <<>>
  <2>1. /\ Head(getters) = f /\ Tail(getters) = <<>>
        /\ resumed = <<>> /\ answers = <<>> /\ Len(answers) = 0
    <3>1. getters = <<f>> /\ resumed = <<>> /\ answers = <<>>
      BY <1>5 DEF Ordered
    <3>2. Head(<<f>>) = f /\ Tail(<<f>>) = <<>> /\ Len(<<>>) = 0
      OBVIOUS
    <3> QED BY <3>1, <3>2, Zenon
  <2>2. /\ told' = [told EXCEPT ![f] = c]
        /\ calling' = [calling EXCEPT ![f] = NoCall]
        /\ getters' = <<>> /\ answers' = answers
    BY <1>1, <1>5, <2>1 DEF Answer, Answered, Tell
  <2>3. QueueTypes'
    BY <1>1, <1>2, <2>2 DEF QueueTypes
  <2>4. Requests'
    BY <1>1, <1>3, <2>2 DEF Requests, QueueTypes
  <2>5. Ordered'
    BY <1>1, <2>1, <2>2 DEF Ordered
  <2>6. Counted'
    <3>1. \A b \in Actors : b \in active' <=> told'[b] = "connect"
      BY <1>1, <1>2, <2>1, <2>2 DEF Counted, QueueTypes
    <3> QED BY <2>1, <2>2, <3>1 DEF Counted
  <2> QED BY <1>4, <2>1, <2>3, <2>4, <2>5, <2>6
<1>6. CASE getters = <<>>
  <2>1. answers' = Append(answers, c) /\ UNCHANGED <<getters, calling, told>>
    BY <1>1, <1>6 DEF Answer, Answered
  <2>2. /\ answers' \in Seq(Calls) /\ Len(answers') = Len(answers) + 1
        /\ \A i \in 1 .. Len(answers) : answers'[i] = answers[i]
        /\ answers'[Len(answers) + 1] = c
    BY <1>1, <2>1, AppendIs DEF QueueTypes
  <2>3. Len(resumed) = Len(answers') /\ resumed[Len(answers')] = f
    BY <1>1, <1>6, <2>2 DEF Ordered
  <2>4. \A i \in 1 .. Len(answers') : i \in 1 .. Len(answers) \/ i = Len(answers')
    BY <1>3, <2>2
  <2>5. \A i \in 1 .. Len(answers) : resumed[i] # f
    BY <1>3, <2>2, <2>3 DEF Taken
  <2>6. QueueTypes'
    BY <1>1, <1>2, <2>1, <2>2 DEF QueueTypes
  <2>7. Requests'
    BY <1>1, <2>1 DEF Requests
  <2>8. Ordered'
    <3>1. \A i \in 1 .. Len(answers') : calling[resumed[i]] = answers'[i]
      BY <1>1, <2>2, <2>3, <2>4 DEF Ordered
    <3> QED BY <1>1, <1>6, <2>1, <2>3, <3>1 DEF Ordered
  <2>9. Counted'
    <3>1. ASSUME NEW i \in 1 .. Len(answers')
          PROVE  resumed[i] \in active' <=> answers'[i] = "connect"
      <4>1. CASE i = Len(answers')
        BY <1>2, <2>2, <2>3, <4>1
      <4>2. CASE i \in 1 .. Len(answers)
        <5>1. resumed[i] \in Actors /\ resumed[i] # f
          BY <1>3, <2>2, <2>3, <2>5, <4>2
        <5> QED BY <1>2, <2>2, <4>2, <5>1 DEF Counted
      <4> QED BY <2>4, <4>1, <4>2
    <3>2. ASSUME NEW b \in Actors
          PROVE  \/ b \in active' <=> told'[b] = "connect"
                 \/ \E i \in 1 .. Len(answers') : resumed[i] = b
      <4>1. CASE b = f
        BY <1>3, <2>2, <2>3, <4>1
      <4>2. CASE b # f /\ \E i \in 1 .. Len(answers) : resumed[i] = b
        BY <1>3, <2>2, <4>2
      <4>3. CASE b # f /\ ~\E i \in 1 .. Len(answers) : resumed[i] = b
        BY <1>2, <2>1, <4>3 DEF Counted
      <4> QED BY <4>1, <4>2, <4>3
    <3> QED BY <1>1, <3>1, <3>2 DEF Counted
  <2> QED BY <1>4, <1>6, <2>6, <2>7, <2>8, <2>9
<1> QED BY <1>5, <1>6

-----------------------------------------------------------------------------
(* The theorem                                                              *)

\* Every step of the system is one of the queues or leaves them alone.
LEMMA QueuesMove ==
  ASSUME [Next]_vars
  PROVE  \/ \E a \in Actors, c \in Calls : Ask(a, c)
         \/ Take \/ Answer
         \/ \E a \in Actors : GetAnswer(a)
         \/ UNCHANGED connectionVars
  BY DEF Next, vars, Call, ConnectionStep

LEMMA QueueStep ==
  ASSUME QueueInv, [Next]_vars
  PROVE  /\ QueueInv'
         /\ \A a \in Actors : calling[a] # NoCall /\ calling'[a] = NoCall
              => told'[a] = calling[a]
<1>1. ASSUME NEW a \in Actors, NEW c \in Calls, Ask(a, c)
      PROVE  QueueInv' /\ \A b \in Actors : calling[b] # NoCall => calling'[b] # NoCall
  <2>1. QueueInv'
    BY <1>1, AskKeepsQueues
  <2>2. calling' = [calling EXCEPT ![a] = c] /\ c # NoCall
    BY <1>1, NoCallAssumption DEF Ask
  <2> QED BY <2>1, <2>2 DEF QueueInv, QueueTypes
<1>2. ASSUME Take
      PROVE  QueueInv' /\ calling' = calling
  BY <1>2, TakeKeepsQueues DEF Take, callers
<1>3. ASSUME Answer
      PROVE  /\ QueueInv'
             /\ \A b \in Actors : calling[b] # NoCall /\ calling'[b] = NoCall
                  => told'[b] = calling[b]
  <2>1. QueueInv' /\ (getters # <<>> => Head(getters) = serving.from)
    BY <1>3, AnswerKeepsQueues
  <2>2. calling[serving.from] = serving.call /\ serving.from \in Actors
    BY <1>3, NoCallAssumption DEF Answer, QueueInv, QueueTypes, Requests, Request
  <2>3. \/ UNCHANGED calling
        \/ /\ told' = [told EXCEPT ![serving.from] = serving.call]
           /\ calling' = [calling EXCEPT ![serving.from] = NoCall]
    BY <1>3, <2>1 DEF Answer, Answered, Tell
  <2> QED BY <2>1, <2>2, <2>3 DEF QueueInv, QueueTypes
<1>4. ASSUME NEW a \in Actors, GetAnswer(a)
      PROVE  /\ QueueInv'
             /\ \A b \in Actors : calling[b] # NoCall /\ calling'[b] = NoCall
                  => told'[b] = calling[b]
  <2>1. QueueInv' /\ (answers # <<>> => calling[a] = Head(answers))
    BY <1>4, GetKeepsQueues
  <2>2. \/ UNCHANGED calling
        \/ /\ told' = [told EXCEPT ![a] = calling[a]]
           /\ calling' = [calling EXCEPT ![a] = NoCall]
    BY <1>4, <2>1 DEF GetAnswer, Tell
  <2> QED BY <2>1, <2>2 DEF QueueInv, QueueTypes
<1>5. ASSUME UNCHANGED connectionVars
      PROVE  QueueInv' /\ calling' = calling
  BY <1>5 DEF connectionVars, server, callers, QueueInv, QueueTypes, Requests,
       Taken, Ordered, Counted
<1> QED BY <1>1, <1>2, <1>3, <1>4, <1>5, QueuesMove

LEMMA QueuesAreKept == Spec => []QueueInv
<1>1. Init => QueueInv
  BY QueuesStart DEF Init
<1>2. QueueInv /\ [Next]_vars => QueueInv'
  BY QueueStep
<1> QED BY <1>1, <1>2, PTL DEF Spec

\* Every call to the DTL gets the answer to its own request, and the active
\* connections are those of the actors that were told so.
THEOREM CallsGetTheirAnswers == Spec => CallsAreAnswered
<1>1. QueueInv => ActiveWereTold
  <2>1. QueueInv => \A i \in 1 .. Len(answers) : calling[resumed[i]] # NoCall
    <3> SUFFICES ASSUME QueueInv, NEW i \in 1 .. Len(answers)
                 PROVE  calling[resumed[i]] # NoCall
      OBVIOUS
    <3>1. \A j \in 1 .. Len(answers) : answers[j] \in Calls
      BY ElementIs DEF QueueInv, QueueTypes
    <3> QED BY <3>1, NoCallAssumption DEF QueueInv, Ordered
  <2> QED BY <2>1 DEF QueueInv, Counted, ActiveWereTold
<1>2. QueueInv /\ [Next]_vars => [AnswerToCaller /\ ActiveWereTold']_vars
  <2> SUFFICES ASSUME QueueInv, [Next]_vars PROVE AnswerToCaller /\ ActiveWereTold'
    OBVIOUS
  <2>1. QueueInv' /\ AnswerToCaller
    BY QueueStep DEF AnswerToCaller
  <2>2. QueueInv' => ActiveWereTold'
    BY <1>1, PTL
  <2> QED BY <2>1, <2>2
<1> QED BY <1>2, QueuesAreKept, PTL DEF Spec, CallsAreAnswered

-----------------------------------------------------------------------------
(* The settings of the stream and of its engines                            *)

\* A stream that nobody has obtained has no settings and no engine; an engine
\* takes over settings that are complete, and complete settings are final.
Complete(s) == s.type # Undefined /\ s.method # Undefined
SettingsInv ==
  /\ settings \in Settings /\ built \in Seq(Settings)
  /\ at \in [Actors -> Places]
  /\ Complete(settings) => Compatible(settings.type, settings.method)
  /\ ~known => settings = NoSettings /\ \A a \in Actors : at[a] = "out"
  /\ \A e \in 1 .. Len(built) : built[e] = settings /\ Complete(settings)

LEMMA SettingsStart == ASSUME Init PROVE SettingsInv
<1> USE DEF Init, StreamInit
<1>1. settings \in Settings /\ (known => Compatible(settings.type, settings.method))
  BY DEF Configured, NoSettings, Settings, Compatible
<1>2. ~known => settings = NoSettings
  OBVIOUS
<1>3. ~known => ~Complete(settings)
  BY <1>2 DEF NoSettings, Complete
<1>4. built \in Seq(Settings) /\ Len(built) = 0
  OBVIOUS
<1>5. at \in [Actors -> Places] /\ \A a \in Actors : at[a] = "out"
  BY DEF Places
<1> QED BY <1>1, <1>2, <1>3, <1>4, <1>5 DEF SettingsInv

LEMMA AddKeepsSettings ==
  ASSUME SettingsInv, NEW a \in Actors, NEW t \in EngineTypes \cup {Undefined},
         NEW m \in Methods \cup {Undefined}, AddStream(a, t, m)
  PROVE  SettingsInv'
<1> DEFINE typed == IF t = Undefined THEN NoSettings ELSE WithType(NoSettings, t)
           both == IF m = Undefined THEN typed ELSE WithMethod(typed, m)
<1>1. NoSettings \in Settings /\ ~Complete(NoSettings)
  BY DEF NoSettings, Settings, Complete
<1>2. typed \in Settings /\ (Complete(typed) => Compatible(typed.type, typed.method))
  <2>1. CASE t = Undefined
    BY <1>1, <2>1
  <2>2. CASE t \in EngineTypes /\ t # Undefined
    BY <1>1, <2>2 DEF WithType, NoSettings, Settings, Complete, Compatible
  <2> QED BY <2>1, <2>2
<1>3. both \in Settings /\ (Complete(both) => Compatible(both.type, both.method))
  <2> HIDE DEF typed
  <2>1. CASE m = Undefined
    BY <1>2, <2>1
  <2>2. CASE m \in Methods /\ m # Undefined
    BY <1>2, <2>2 DEF WithMethod, Settings, Complete, Compatible
  <2> QED BY <2>1, <2>2
<1>4. built' = built /\ at' \in [Actors -> Places]
  BY DEF AddStream, SettingsInv, engineVars, Goto, Places
<1>5. CASE known
  BY <1>4, <1>5 DEF AddStream, SettingsInv
<1>6. CASE ~known
  <2>1. known' = TRUE /\ settings' = both
    BY <1>6 DEF AddStream
  <2>2. Len(built) = 0
    BY <1>1, <1>6, ElementIs DEF SettingsInv
  <2> HIDE DEF typed, both
  <2> QED BY <1>3, <1>4, <2>1, <2>2 DEF SettingsInv
<1> QED BY <1>5, <1>6

LEMMA SetKeepsSettings ==
  ASSUME SettingsInv, NEW a \in Actors, Set(a)
  PROVE  SettingsInv'
<1>1. /\ settings' \in Settings
      /\ Complete(settings') => Compatible(settings'.type, settings'.method)
      /\ Complete(settings) => settings' = settings
  <2>1. ASSUME NEW t \in EngineTypes, settings' = WithType(settings, t)
        PROVE  /\ settings' \in Settings
               /\ Complete(settings') => Compatible(settings'.type, settings'.method)
               /\ Complete(settings) => settings' = settings
    BY <2>1, SettingsAssumption
       DEF SettingsInv, WithType, Settings, Complete, Compatible
  <2>2. ASSUME NEW m \in Methods, settings' = WithMethod(settings, m)
        PROVE  /\ settings' \in Settings
               /\ Complete(settings') => Compatible(settings'.type, settings'.method)
               /\ Complete(settings) => settings' = settings
    BY <2>2, SettingsAssumption
       DEF SettingsInv, WithMethod, Settings, Complete, Compatible
  <2> QED BY <2>1, <2>2 DEF Set
<1>2. known /\ known' = known /\ built' = built /\ at' = at
  BY DEF Set, Client, SettingsInv, engineVars, sessions
<1> QED BY <1>1, <1>2 DEF SettingsInv

LEMMA CreateKeepsSettings ==
  ASSUME SettingsInv, NEW a \in Actors, NEW m \in Modes, Create(a, m)
  PROVE  SettingsInv'
<1>1. /\ known /\ known' = known /\ settings' = settings /\ Complete(settings)
      /\ at' \in [Actors -> Places]
  BY DEF Create, Client, SettingsInv, Complete, Goto, Places
<1>2. CASE UNCHANGED built
  BY <1>1, <1>2 DEF SettingsInv
<1>3. CASE built' = Append(built, settings)
  <2>1. /\ built' \in Seq(Settings) /\ Len(built) \in Nat
        /\ Len(built') = Len(built) + 1
        /\ \A i \in 1 .. Len(built) : built'[i] = built[i]
        /\ built'[Len(built) + 1] = settings
    BY <1>3, AppendIs DEF SettingsInv
  <2>2. \A e \in 1 .. Len(built') : e \in 1 .. Len(built) \/ e = Len(built) + 1
    BY <2>1
  <2>3. \A e \in 1 .. Len(built') : built'[e] = settings
    BY <2>1, <2>2 DEF SettingsInv
  <2> QED BY <1>1, <2>1, <2>3 DEF SettingsInv
<1> QED BY <1>2, <1>3 DEF Create

\* The other steps of a session leave the stream and its engines' settings.
LEMMA OthersKeepSettings ==
  ASSUME SettingsInv, NEW a \in Actors,
         Skip(a) \/ Register(a) \/ Begin(a) \/ Close(a) \/ CloseStream(a)
  PROVE  SettingsInv'
<1>1. UNCHANGED <<known, settings, built>>
  BY DEF Skip, Register, Begin, Close, CloseStream, stream, engineVars
<1>2. at' \in [Actors -> Places]
  <2>1. Skip(a) \/ Begin(a) => at' = at
    BY DEF Skip, Begin, sessions
  <2>2. Register(a) \/ Close(a) \/ CloseStream(a) => at' \in [Actors -> Places]
    BY DEF Register, Close, CloseStream, Finish, Goto, Places, SettingsInv
  <2> QED BY <2>1, <2>2 DEF SettingsInv
<1>3. known \/ \A b \in Actors : at'[b] = "out"
  <2>1. Skip(a) => at' = at
    BY DEF Skip
  <2>2. ~Skip(a) => at[a] # "out"
    BY DEF Register, Begin, Close, CloseStream, Client
  <2> QED BY <2>1, <2>2 DEF SettingsInv
<1> QED BY <1>1, <1>2, <1>3 DEF SettingsInv

\* In any order of adding, setting, failing to set and opening, the engines
\* have the settings of the stream, for good.
THEOREM EnginesKeepSettings == Spec => []EnginesMatchSettings
<1>1. Init => SettingsInv
  BY SettingsStart
<1>2. SettingsInv /\ [Next]_vars => SettingsInv'
  <2> SUFFICES ASSUME SettingsInv, [Next]_vars PROVE SettingsInv'
    OBVIOUS
  <2>1. CASE UNCHANGED streamVars
    BY <2>1 DEF streamVars, stream, engineVars, sessions, SettingsInv
  <2>2. CASE StreamStep
    BY <2>2, AddKeepsSettings, SetKeepsSettings, CreateKeepsSettings,
       OthersKeepSettings DEF StreamStep
  <2> QED BY <2>1, <2>2 DEF Next, vars
<1>3. SettingsInv => EnginesMatchSettings
  BY DEF SettingsInv, EnginesMatchSettings, Compatible
<1> QED BY <1>1, <1>2, <1>3, PTL DEF Spec

-----------------------------------------------------------------------------
(* Types                                                                    *)

Idle == {"out", "ready"}

\* What TypeOK says beyond the queues and the settings; the sides of an engine
\* are finite, an actor in a session holds an engine and has a role, and it
\* has a round left to finish.
SessionTypes ==
  /\ calls \in [Actors -> 0 .. MaxCalls] /\ known \in BOOLEAN
  /\ engine \in 0 .. Len(built) /\ Len(built) <= MaxEngines
  /\ accessMode \in Modes
  /\ registered \in [Engines -> [Modes -> SUBSET Actors]]
  /\ barrier \in [Engines -> [Modes -> Nat]]
  /\ files \in [Engines -> SUBSET (Actors \X Nat)]
  /\ users \in [Engines -> SUBSET Modes]
  /\ mode \in [Actors -> Modes \cup {Undefined}]
  /\ held \in [Actors -> 0 .. Len(built)] /\ round \in [Actors -> 0 .. MaxRounds]
  /\ defined \in BOOLEAN /\ view \in [Actors -> Objects \cup {Undefined}]
  /\ origin \in [Objects -> Modes \cup {Undefined}]
  /\ \A e \in Engines, m \in Modes : IsFiniteSet(registered[e][m])
  /\ \A a \in Actors : at[a] \notin Idle => round[a] < MaxRounds /\ mode[a] \in Modes
  /\ \A a \in Actors : at[a] \in InSession => held[a] > 0

TypeInv == QueueInv /\ SettingsInv /\ SessionTypes

LEMMA TypesStart == ASSUME Init PROVE SessionTypes
<1> USE DEF Init, StreamInit
<1>1. Len(built) = 0 /\ built = <<>>
  OBVIOUS
<1>2. /\ calls \in [Actors -> 0 .. MaxCalls] /\ known \in BOOLEAN
      /\ engine \in 0 .. Len(built) /\ Len(built) <= MaxEngines
  BY <1>1, CallsAssumption, BoundsAssumption DEF ConnectionInit
<1>3. /\ accessMode \in Modes
      /\ registered \in [Engines -> [Modes -> SUBSET Actors]]
      /\ barrier \in [Engines -> [Modes -> Nat]]
      /\ files \in [Engines -> SUBSET (Actors \X Nat)]
      /\ users \in [Engines -> SUBSET Modes]
  BY DEF Modes
<1>4. /\ mode \in [Actors -> Modes \cup {Undefined}]
      /\ held \in [Actors -> 0 .. Len(built)] /\ round \in [Actors -> 0 .. MaxRounds]
  BY <1>1, BoundsAssumption
<1>5. /\ defined \in BOOLEAN /\ view \in [Actors -> Objects \cup {Undefined}]
      /\ origin \in [Objects -> Modes \cup {Undefined}]
  OBVIOUS
<1>6. \A e \in Engines, m \in Modes : IsFiniteSet(registered[e][m])
  BY FS_EmptySet
<1>7. \A a \in Actors : at[a] = "out"
  OBVIOUS
<1> QED BY <1>2, <1>3, <1>4, <1>5, <1>6, <1>7 DEF SessionTypes, Idle, InSession

\* The variables of sessions that a step leaves as they are keep their types.
LEMMA CallKeepsTypes ==
  ASSUME SessionTypes, UNCHANGED <<streamVars, roleVars>>,
         \/ \E a \in Actors, c \in Calls : Ask(a, c)
         \/ UNCHANGED calls
  PROVE  SessionTypes'
<1>1. calls' \in [Actors -> 0 .. MaxCalls]
  <2>1. CASE UNCHANGED calls
    BY <2>1 DEF SessionTypes
  <2>2. ASSUME NEW a \in Actors, NEW c \in Calls, Ask(a, c)
        PROVE  calls' \in [Actors -> 0 .. MaxCalls]
    <3>1. calls[a] + 1 \in 0 .. MaxCalls
      BY <2>2, CallsAssumption DEF SessionTypes, Ask
    <3> QED BY <2>2, <3>1 DEF SessionTypes, Ask
  <2> QED BY <2>1, <2>2
<1> QED
  BY <1>1 DEF SessionTypes, streamVars, roleVars, stream, engineVars, sessions

LEMMA HeldIs ==
  ASSUME SessionTypes, SettingsInv, NEW a \in Actors, at[a] \in InSession
  PROVE  held[a] \in Engines /\ held[a] <= Len(built) /\ mode[a] \in Modes
<1>1. Len(built) \in Nat /\ Len(built) <= MaxEngines /\ MaxEngines \in Nat
  BY ElementIs, BoundsAssumption DEF SessionTypes, SettingsInv
<1>2. held[a] \in 0 .. Len(built) /\ held[a] > 0 /\ mode[a] \in Modes
  BY DEF SessionTypes, Idle, InSession
<1> QED BY <1>1, <1>2 DEF Engines

LEMMA FinishKeepsTypes ==
  ASSUME SessionTypes, SettingsInv, NEW members, NEW to, Finish(members, to),
         \A b \in members : b \in Actors => at[b] \notin Idle,
         \A b \in Actors : to[b] \notin Idle => at[b] \notin Idle,
         \A b \in Actors : to[b] \in InSession => at[b] \in InSession
  PROVE  /\ mode' \in [Actors -> Modes \cup {Undefined}]
         /\ held' \in [Actors -> 0 .. Len(built)]
         /\ round' \in [Actors -> 0 .. MaxRounds]
         /\ \A b \in Actors : at'[b] \notin Idle =>
              round'[b] < MaxRounds /\ mode'[b] \in Modes
         /\ \A b \in Actors : at'[b] \in InSession => held'[b] > 0
<1>1. mode' \in [Actors -> Modes \cup {Undefined}]
  BY DEF Finish, SessionTypes
<1>2. held' \in [Actors -> 0 .. Len(built)]
  <2>1. 0 \in 0 .. Len(built)
    BY ElementIs DEF SettingsInv
  <2> QED BY <2>1 DEF Finish, SessionTypes
<1>3. round' \in [Actors -> 0 .. MaxRounds]
  <2>1. \A b \in Actors : b \in members => round[b] + 1 \in 0 .. MaxRounds
    BY BoundsAssumption DEF SessionTypes
  <2> QED BY <2>1 DEF Finish, SessionTypes
<1>4. \A b \in Actors : at'[b] \notin Idle =>
         b \notin members /\ at[b] \notin Idle /\ round'[b] = round[b] /\ mode'[b] = mode[b]
  BY DEF Finish, Idle
<1>5. \A b \in Actors : at'[b] \in InSession =>
         b \notin members /\ at[b] \in InSession /\ held'[b] = held[b]
  BY DEF Finish, InSession
<1> QED BY <1>1, <1>2, <1>3, <1>4, <1>5 DEF SessionTypes

LEMMA AddKeepsTypes ==
  ASSUME SessionTypes, SettingsInv, NEW a \in Actors,
         NEW t \in EngineTypes \cup {Undefined}, NEW m \in Methods \cup {Undefined},
         AddStream(a, t, m) \/ Set(a) \/ Skip(a), UNCHANGED <<connectionVars, roleVars>>
  PROVE  SessionTypes'
<1>1. /\ UNCHANGED <<engine, accessMode, engineVars, mode, held, calls, roleVars>>
      /\ known' \in BOOLEAN
  BY DEF AddStream, Set, Skip, SessionTypes, sessions, stream, connectionVars, callers
<1>2. round' \in [Actors -> 0 .. MaxRounds]
  <2>1. CASE Skip(a)
    <3>1. round[a] + 1 \in 0 .. MaxRounds
      BY <2>1, BoundsAssumption DEF Skip, MayOpen, SessionTypes
    <3> QED BY <2>1, <3>1 DEF Skip, SessionTypes
  <2> QED BY <2>1 DEF AddStream, Set, SessionTypes, sessions
<1>3. \A b \in Actors : at'[b] \notin Idle => at'[b] = at[b] /\ round'[b] = round[b]
  BY DEF AddStream, Set, Skip, Client, Goto, SettingsInv, sessions, Idle, SessionTypes
<1> QED BY <1>1, <1>2, <1>3 DEF SessionTypes, engineVars, roleVars, Idle, InSession

LEMMA CreateKeepsTypes ==
  ASSUME SessionTypes, SettingsInv, NEW a \in Actors, NEW m \in Modes, Create(a, m),
         UNCHANGED <<connectionVars, roleVars>>
  PROVE  SessionTypes'
<1>1. UNCHANGED <<known, registered, barrier, files, held, round, calls, roleVars>>
  BY DEF Create, connectionVars, callers
<1>2. Len(built) \in Nat /\ settings \in Settings
  BY ElementIs DEF SettingsInv
<1>3. /\ engine' \in 0 .. Len(built') /\ Len(built') <= MaxEngines
      /\ accessMode' \in Modes /\ Len(built) <= Len(built')
  <2>1. CASE UNCHANGED <<built, engine, accessMode>>
    BY <1>2, <2>1 DEF SessionTypes
  <2>2. CASE /\ Len(built) < MaxEngines /\ built' = Append(built, settings)
             /\ engine' = Len(built) + 1 /\ accessMode' = m
    <3>1. Len(built') = Len(built) + 1
      BY <1>2, <2>2, AppendIs DEF SettingsInv
    <3> QED BY <1>2, <2>2, <3>1, BoundsAssumption
  <2> QED BY <2>1, <2>2 DEF Create, RoleOf
<1>4. held' \in [Actors -> 0 .. Len(built')]
  <2>1. Len(built') \in Nat
    BY CreateKeepsSettings, ElementIs DEF SettingsInv
  <2>2. 0 .. Len(built) \subseteq 0 .. Len(built')
    BY <1>2, <1>3, <2>1
  <2> QED BY <1>1, <2>2 DEF SessionTypes
<1>5. users' \in [Engines -> SUBSET Modes]
  BY DEF Create, SessionTypes
<1>6. mode' = [mode EXCEPT ![a] = m] /\ at' = [at EXCEPT ![a] = "created"]
  BY DEF Create, Goto
<1>7. mode' \in [Actors -> Modes \cup {Undefined}]
  BY <1>6 DEF SessionTypes
<1>8. ASSUME NEW b \in Actors, at'[b] \notin Idle
      PROVE  round'[b] < MaxRounds /\ mode'[b] \in Modes
  <2>1. CASE b = a
    BY <1>1, <1>6, <2>1 DEF Create, MayOpen, SessionTypes
  <2>2. CASE b # a
    BY <1>1, <1>6, <1>8, <2>2 DEF SettingsInv, SessionTypes
  <2> QED BY <2>1, <2>2
<1>9. \A b \in Actors : at'[b] \in InSession => held'[b] > 0
  BY <1>1, <1>6 DEF SettingsInv, SessionTypes, InSession
<1> QED BY <1>1, <1>3, <1>4, <1>5, <1>7, <1>8, <1>9 DEF SessionTypes, roleVars

LEMMA RegisterKeepsTypes ==
  ASSUME SessionTypes, SettingsInv, NEW a \in Actors, Register(a),
         UNCHANGED <<connectionVars, roleVars>>
  PROVE  SessionTypes'
<1>1. /\ UNCHANGED <<stream, built, barrier, users, mode, round, calls, roleVars>>
      /\ at[a] = "created" /\ mode[a] \in Modes /\ round[a] < MaxRounds
  BY DEF Register, connectionVars, callers, SessionTypes, Idle
<1>2. CASE engine = 0
  <2>1. UNCHANGED <<registered, files, held>> /\ at' = [at EXCEPT ![a] = "crashed"]
    BY <1>2 DEF Register, Goto
  <2> QED BY <1>1, <2>1 DEF SessionTypes, SettingsInv, stream, roleVars, Idle, InSession
<1>3. CASE engine # 0
  <2>1. engine \in Engines
    BY <1>3, ElementIs, BoundsAssumption DEF SessionTypes, SettingsInv, Engines
  <2>2. /\ registered' = [registered EXCEPT ![engine][mode[a]] = @ \cup {a}]
        /\ held' = [held EXCEPT ![a] = engine]
        /\ at' = [at EXCEPT ![a] = "open"]
    BY <1>3 DEF Register, Goto
  <2>3. registered' \in [Engines -> [Modes -> SUBSET Actors]]
    BY <1>1, <2>1, <2>2 DEF SessionTypes
  <2>4. \A e \in Engines, m \in Modes : IsFiniteSet(registered'[e][m])
    <3>1. IsFiniteSet(registered[engine][mode[a]] \cup {a})
      BY <1>1, <2>1, FS_AddElement DEF SessionTypes
    <3> QED BY <1>1, <2>1, <2>2, <3>1 DEF SessionTypes
  <2>5. files' \in [Engines -> SUBSET (Actors \X Nat)]
    <3>1. FileNumber(engine) \in Nat
      BY <2>1, FS_CardinalityType DEF FileNumber, SessionTypes, Modes
    <3>2. \/ files' = files
          \/ files' = [files EXCEPT ![engine] =
                         {f \in @ : f[1] # a} \cup {<<a, FileNumber(engine)>>}]
      BY <1>3 DEF Register
    <3> HIDE DEF FileNumber
    <3> QED BY <2>1, <3>1, <3>2 DEF SessionTypes
  <2>6. held' \in [Actors -> 0 .. Len(built)] /\ held'[a] > 0
    BY <1>3, <2>2, ElementIs DEF SessionTypes, SettingsInv
  <2>7. \A b \in Actors : at'[b] \notin Idle => at[b] \notin Idle
    BY <1>1, <2>2 DEF SettingsInv, Idle
  <2>8. \A b \in Actors : at'[b] \in InSession => held'[b] > 0
    BY <2>2, <2>6 DEF SettingsInv, SessionTypes
  <2> QED
    BY <1>1, <2>3, <2>4, <2>5, <2>6, <2>7, <2>8 DEF SessionTypes, stream, roleVars
<1> QED BY <1>2, <1>3

LEMMA BeginKeepsTypes ==
  ASSUME SessionTypes, SettingsInv, NEW a \in Actors, Begin(a),
         UNCHANGED <<connectionVars, roleVars>>
  PROVE  SessionTypes'
<1>1. UNCHANGED <<stream, built, registered, files, users, sessions, calls, roleVars>>
  BY DEF Begin, connectionVars, callers
<1>2. held[a] \in Engines /\ mode[a] \in Modes
  BY HeldIs DEF Begin, Client, InSession
<1>3. SizeOf(held[a], mode[a]) \in Nat
  BY <1>2, FS_CardinalityType DEF SizeOf, SessionTypes
<1>4. barrier' \in [Engines -> [Modes -> Nat]]
  <2> HIDE DEF SizeOf
  <2> QED BY <1>2, <1>3 DEF Begin, SessionTypes
<1> QED BY <1>1, <1>4 DEF SessionTypes, stream, sessions, roleVars

LEMMA CloseKeepsTypes ==
  ASSUME SessionTypes, SettingsInv, NEW a \in Actors, Close(a) \/ CloseStream(a),
         UNCHANGED <<connectionVars, roleVars>>
  PROVE  SessionTypes'
<1>1. /\ UNCHANGED <<known, accessMode, built, barrier, files, users, calls, roleVars>>
      /\ at[a] \in {"open", "last"}
  BY DEF Close, CloseStream, Client, stream, engineVars, connectionVars, callers
<1>2. engine' \in 0 .. Len(built)
  BY ElementIs DEF Close, CloseStream, stream, SessionTypes, SettingsInv
<1>3. /\ registered' \in [Engines -> [Modes -> SUBSET Actors]]
      /\ \A e \in Engines, m \in Modes : IsFiniteSet(registered'[e][m])
  <2>1. CASE CloseStream(a)
    BY <2>1 DEF CloseStream, engineVars, SessionTypes
  <2>2. CASE Close(a)
    <3>1. held[a] \in Engines /\ mode[a] \in Modes
      BY <2>2, HeldIs DEF Close, Client, InSession
    <3>2. IsFiniteSet(registered[held[a]][mode[a]] \ {a})
      BY <3>1, FS_RemoveElement DEF SessionTypes
    <3> QED BY <2>2, <3>1, <3>2 DEF Close, SessionTypes
  <2> QED BY <2>1, <2>2
<1>4. /\ mode' \in [Actors -> Modes \cup {Undefined}]
      /\ held' \in [Actors -> 0 .. Len(built)]
      /\ round' \in [Actors -> 0 .. MaxRounds]
      /\ \A b \in Actors : at'[b] \notin Idle =>
           round'[b] < MaxRounds /\ mode'[b] \in Modes
      /\ \A b \in Actors : at'[b] \in InSession => held'[b] > 0
  <2>1. CASE at' = Goto(a, "barrier") /\ UNCHANGED <<held, mode, round>>
    <3>1. \A b \in Actors : /\ at'[b] \notin Idle => at[b] \notin Idle
                            /\ at'[b] \in InSession => at[b] \in InSession
      BY <1>1, <2>1 DEF Goto, SettingsInv, Idle, InSession
    <3> QED BY <2>1, <3>1 DEF SessionTypes
  <2>2. CASE Finish({a}, at)
    BY <1>1, <2>2, FinishKeepsTypes DEF Idle
  <2>3. CASE Finish(Waiting(a), Goto(a, "last")) /\ at[a] = "open"
    <3>1. \A b \in Waiting(a) : at[b] \notin Idle
      BY DEF Waiting, Idle
    <3>2. \A b \in Actors : /\ Goto(a, "last")[b] \notin Idle => at[b] \notin Idle
                            /\ Goto(a, "last")[b] \in InSession => at[b] \in InSession
      BY <2>3 DEF Goto, SettingsInv, Idle, InSession
    <3> HIDE DEF Waiting, Goto
    <3> QED BY <2>3, <3>1, <3>2, FinishKeepsTypes
  <2> QED BY <2>1, <2>2, <2>3 DEF Close, CloseStream, Client
<1> QED BY <1>1, <1>2, <1>3, <1>4 DEF SessionTypes, roleVars

LEMMA RoleKeepsTypes ==
  ASSUME SessionTypes, NEW a \in Actors,
         Define(a) \/ Inquire(a) \/ \E r \in Reductions : Reduce(a, r),
         UNCHANGED <<connectionVars, streamVars>>
  PROVE  SessionTypes'
<1>1. /\ defined' \in BOOLEAN /\ view' \in [Actors -> Objects \cup {Undefined}]
      /\ origin' \in [Objects -> Modes \cup {Undefined}]
  <2>1. CASE Define(a) \/ Inquire(a)
    BY <2>1 DEF SessionTypes, Define, Inquire, Share, Objects
  <2>2. ASSUME NEW r \in Reductions, Reduce(a, r)
        PROVE  /\ UNCHANGED <<defined, view>>
               /\ origin' \in [Objects -> Modes \cup {Undefined}]
    BY <2>2 DEF SessionTypes, Reduce
  <2> QED BY <2>1, <2>2 DEF SessionTypes
<1> QED BY <1>1 DEF SessionTypes, connectionVars, callers, streamVars, stream,
       engineVars, sessions

LEMMA TypeStep ==
  ASSUME TypeInv, [Next]_vars
  PROVE  TypeInv'
<1>1. QueueInv'
  BY QueueStep DEF TypeInv
<1>2. SettingsInv'
  <2>1. CASE UNCHANGED streamVars
    BY <2>1 DEF streamVars, stream, engineVars, sessions, SettingsInv, TypeInv
  <2>2. CASE StreamStep
    BY <2>2, AddKeepsSettings, SetKeepsSettings, CreateKeepsSettings,
       OthersKeepSettings DEF StreamStep, TypeInv
  <2> QED BY <2>1, <2>2 DEF Next, vars
<1>3. SessionTypes'
  <2>1. CASE (Call \/ ConnectionStep) /\ UNCHANGED <<streamVars, roleVars>>
    <3>1. \/ \E a \in Actors, c \in Calls : Ask(a, c)
          \/ UNCHANGED calls
      BY <2>1 DEF Call, ConnectionStep, Take, Answer, GetAnswer, callers
    <3> QED BY <2>1, <3>1, CallKeepsTypes DEF TypeInv
  <2>2. CASE StreamStep /\ UNCHANGED <<connectionVars, roleVars>>
    <3>1. PICK a \in Actors :
            \/ \E t \in EngineTypes \cup {Undefined}, m \in Methods \cup {Undefined} :
                 AddStream(a, t, m)
            \/ Set(a) \/ Skip(a)
            \/ \E m \in Modes : Create(a, m)
            \/ Register(a) \/ Begin(a) \/ Close(a) \/ CloseStream(a)
      BY <2>2 DEF StreamStep
    <3>2. Set(a) \/ Skip(a) => SessionTypes'
      BY <2>2, AddKeepsTypes DEF TypeInv
    <3> QED BY <2>2, <3>1, <3>2, AddKeepsTypes, CreateKeepsTypes, RegisterKeepsTypes,
            BeginKeepsTypes, CloseKeepsTypes DEF TypeInv
  <2>3. CASE RoleStep /\ UNCHANGED <<connectionVars, streamVars>>
    BY <2>3, RoleKeepsTypes DEF RoleStep, TypeInv
  <2>4. CASE UNCHANGED vars
    BY <2>4, CallKeepsTypes DEF vars, connectionVars, callers, TypeInv
  <2> QED BY <2>1, <2>2, <2>3, <2>4 DEF Next
<1> QED BY <1>1, <1>2, <1>3 DEF TypeInv

LEMMA TypesAreKept == Spec => []TypeInv
<1>1. Init => TypeInv
  BY QueuesStart, SettingsStart, TypesStart DEF Init, TypeInv
<1>2. TypeInv /\ [Next]_vars => TypeInv'
  BY TypeStep
<1> QED BY <1>1, <1>2, PTL DEF Spec

\* Whatever clients do, an actor is in at most one call and in one session of an
\* existing engine, and no counter leaves its bounds.
THEOREM StreamTypes == Spec => []TypeOK
<1>1. TypeInv => TypeOK
  BY DEF TypeInv, QueueInv, QueueTypes, SettingsInv, SessionTypes, TypeOK
<1> QED BY <1>1, TypesAreKept, PTL
-----------------------------------------------------------------------------
(* Clients that open in rounds                                              *)

\* An actor of the round that is under way, and the time at which actors may
\* still join it.
Least(b) == \A c \in Actors : round[b] <= round[c]
Opening == \E b \in Actors : at[b] \notin InSession /\ Least(b)

\* Those in a session are in the round under way, and in the engine that was
\* created last, for which each of them counts.  The registries hold those
\* that are open and nobody else; an engine whose barrier has its size still
\* has an actor of that side, so that no later round can find it.
JoinedInv ==
  /\ \A a \in Actors : at[a] \notin Idle => Least(a) /\ at[a] # "crashed"
  /\ engine \in {0, Len(built)}
  /\ \A a \in Actors : at[a] \in InSession =>
       held[a] = Len(built) /\ mode[a] \in users[held[a]]
  /\ \A e \in Engines, m \in Modes :
       registered[e][m] =
         {a \in Actors : at[a] = "open" /\ held[a] = e /\ mode[a] = m}
  /\ engine # 0 => \A m \in Modes : barrier[engine][m] # 0 =>
       \E a \in Actors : at[a] \in InSession /\ mode[a] = m

\* Only a File engine has files, and nothing is there for an engine that is not
\* created yet.  The role of the stream is that of the last engine's creator.
FreshInv ==
  /\ \A e \in Engines : files[e] # {} => e <= Len(built) /\ built[e].type = "File"
  /\ \A e \in Engines, m \in Modes : e > Len(built) => barrier[e][m] = 0
  /\ Len(built) > 0 => accessMode \in users[Len(built)]

\* While actors may join, nobody has closed, the barriers have no size, those
\* who are open are in the engine of the stream, and the numbers of the files
\* are below that of the next publisher.
OpeningInv ==
  Opening =>
    /\ \A a \in Actors : at[a] \notin {"barrier", "last"}
    /\ \A a \in Actors : at[a] = "open" => engine # 0
    /\ \A a \in Actors : at[a] = "created" => engine # 0 /\ mode[a] \in users[engine]
    /\ engine # 0 =>
         /\ \A m \in Modes : barrier[engine][m] = 0
         /\ \A f \in files[engine] :
              f[1] \in registered[engine]["Publish"] => f[2] < FileNumber(engine)

ShareInv == JoinedInv /\ FreshInv /\ OpeningInv /\ OwnFile

LEMMA ShareStart == ASSUME Init, TypeInv PROVE ShareInv
<1> USE DEF Init, StreamInit
<1>1. Len(built) = 0
  OBVIOUS
<1>2. JoinedInv
  BY <1>1 DEF JoinedInv, Idle, InSession
<1>3. FreshInv
  BY <1>1 DEF FreshInv
<1>4. OpeningInv /\ OwnFile
  BY DEF OpeningInv, OwnFile
<1> QED BY <1>2, <1>3, <1>4 DEF ShareInv

\* Rounds are numbers, and so is the number of engines.
LEMMA Numbers ==
  ASSUME TypeInv
  PROVE  /\ \A a \in Actors : round[a] \in Nat /\ at[a] \in Places
         /\ Len(built) \in Nat /\ Len(built) <= MaxEngines /\ MaxEngines \in Nat
         /\ engine # 0 => engine \in Engines
         /\ \A a \in Actors : at[a] \in InSession =>
              held[a] \in Engines /\ held[a] <= Len(built) /\ mode[a] \in Modes
<1>1. Len(built) \in Nat /\ Len(built) <= MaxEngines /\ MaxEngines \in Nat
  BY ElementIs, BoundsAssumption DEF TypeInv, SessionTypes, SettingsInv
<1>2. engine # 0 => engine \in Engines
  BY <1>1 DEF TypeInv, SessionTypes, Engines
<1> QED BY <1>1, <1>2, HeldIs, BoundsAssumption DEF TypeInv, SessionTypes, SettingsInv

\* Steps outside the sessions that leave the rounds and the places of actors
\* in them.
LEMMA ElsewhereKeepsShare ==
  ASSUME ShareInv, UNCHANGED <<engine, accessMode, built, registered, barrier, files,
           users, at, mode, held, round>>
  PROVE  ShareInv'
  BY DEF ShareInv, JoinedInv, FreshInv, OpeningInv, OwnFile, Opening, Least, FileNumber

LEMMA AddKeepsShare ==
  ASSUME Gathered, TypeInv, ShareInv, NEW a \in Actors,
         NEW t \in EngineTypes \cup {Undefined}, NEW m \in Methods \cup {Undefined},
         AddStream(a, t, m) \/ Set(a)
  PROVE  ShareInv'
<1>1. /\ UNCHANGED <<engine, accessMode, built, registered, barrier, files, users,
                    mode, held, round>>
      /\ \A b \in Actors : \/ at'[b] = at[b]
                           \/ at[b] \in Idle /\ at'[b] \in Idle
  BY Numbers DEF AddStream, Set, Goto, Client, engineVars, sessions, Idle, TypeInv,
     SettingsInv
<1>2. Opening' <=> Opening
  BY <1>1 DEF Opening, Least, Idle, InSession
<1> QED BY <1>1, <1>2 DEF ShareInv, JoinedInv, FreshInv, OpeningInv, OwnFile, Least,
        FileNumber, Idle, InSession

LEMMA SkipKeepsShare ==
  ASSUME Gathered, TypeInv, ShareInv, NEW a \in Actors, Skip(a)
  PROVE  ShareInv'
<1>1. /\ UNCHANGED <<engine, accessMode, built, registered, barrier, files, users,
                    at, mode, held>>
      /\ at[a] \in Idle /\ Least(a)
      /\ \A b \in Actors : round'[b] = IF b = a THEN round[b] + 1 ELSE round[b]
  BY DEF Skip, MayOpen, stream, engineVars, Idle, Least, TypeInv, SessionTypes
<1>2. Opening
  BY <1>1 DEF Opening, Idle, InSession
<1>3. \A b \in Actors : at[b] \notin Idle => Least(b)'
  BY <1>1, Numbers DEF ShareInv, JoinedInv, Least
<1> QED
  BY <1>1, <1>2, <1>3 DEF ShareInv, JoinedInv, FreshInv, OpeningInv, OwnFile, FileNumber

LEMMA CreateKeepsShare ==
  ASSUME Gathered, TypeInv, TypeInv', ShareInv, NEW a \in Actors, NEW m \in Modes,
         Create(a, m)
  PROVE  ShareInv'
<1>1. /\ UNCHANGED <<registered, barrier, files, held, round>>
      /\ at[a] = "ready" /\ Least(a)
      /\ \A b \in Actors : at'[b] = IF b = a THEN "created" ELSE at[b]
      /\ \A b \in Actors : mode'[b] = IF b = a THEN m ELSE mode[b]
      /\ users' = [users EXCEPT ![engine'] = @ \cup {m}]
  BY DEF Create, Client, MayOpen, Goto, Least, TypeInv, SessionTypes, SettingsInv
<1>2. Opening
  BY <1>1 DEF Opening, InSession
<1>3. /\ \A b \in Actors : at[b] = "open" => engine # 0
      /\ \A b \in Actors : at[b] \notin {"barrier", "last"}
      /\ \A b \in Actors : at[b] = "created" => engine # 0 /\ mode[b] \in users[engine]
  BY <1>2 DEF ShareInv, OpeningInv
<1>4. engine' # 0 /\ engine' \in Engines /\ engine' = Len(built')
      /\ Len(built) \in Nat /\ Len(built') \in Nat
  <2>1. CASE UNCHANGED <<built, engine, accessMode>> /\ ~Needed
    BY <2>1, Numbers DEF Needed, ShareInv, JoinedInv
  <2>2. CASE built' = Append(built, settings) /\ engine' = Len(built) + 1
    <3>1. Len(built') = Len(built) + 1 /\ Len(built) \in Nat
      BY <2>2, AppendIs DEF TypeInv, SettingsInv
    <3>2. engine' \in 0 .. Len(built') /\ Len(built') <= MaxEngines /\ MaxEngines \in Nat
      BY BoundsAssumption DEF TypeInv, SessionTypes
    <3> QED BY <2>2, <3>1, <3>2 DEF Engines
  <2> QED BY <2>1, <2>2 DEF Create
<1>5. users[engine'] \subseteq users'[engine'] /\ m \in users'[engine']
  BY <1>1, <1>4 DEF TypeInv, SessionTypes
<1>6. CASE engine # 0
  <2>1. UNCHANGED <<built, engine, accessMode>>
    BY <1>6 DEF Create, Needed
  <2>2. \A e \in Engines : users[e] \subseteq users'[e]
    BY <1>1 DEF TypeInv, SessionTypes
  <2>3. JoinedInv'
    <3>1. \A b \in Actors : at'[b] \notin Idle => Least(b)' /\ at'[b] # "crashed"
      BY <1>1 DEF ShareInv, JoinedInv, Least
    <3>2. \A b \in Actors : at'[b] \in InSession =>
            held'[b] = Len(built') /\ mode'[b] \in users'[held'[b]]
      BY <1>1, <2>1, <2>2, Numbers DEF ShareInv, JoinedInv, InSession
    <3>3. \A e \in Engines, n \in Modes :
            registered'[e][n] =
              {b \in Actors : at'[b] = "open" /\ held'[b] = e /\ mode'[b] = n}
      BY <1>1 DEF ShareInv, JoinedInv
    <3>4. engine' # 0 => \A n \in Modes : barrier'[engine'][n] # 0 =>
            \E b \in Actors : at'[b] \in InSession /\ mode'[b] = n
      BY <1>1, <2>1 DEF ShareInv, JoinedInv, InSession
    <3> QED BY <2>1, <3>1, <3>2, <3>3, <3>4 DEF ShareInv, JoinedInv
  <2>4. FreshInv'
    BY <1>1, <1>4, <2>1, <2>2 DEF ShareInv, FreshInv
  <2>5. OpeningInv'
    BY <1>1, <1>2, <1>4, <1>5, <2>1 DEF ShareInv, OpeningInv, FileNumber
  <2> QED BY <1>1, <2>3, <2>4, <2>5 DEF ShareInv, OwnFile
<1>7. CASE engine = 0
  <2>1. /\ built' = Append(built, settings) /\ engine' = Len(built) + 1
        /\ accessMode' = m
    BY <1>7 DEF Create, Needed, RoleOf
  <2>2. Len(built') = Len(built) + 1
    BY <1>4, <2>1
  <2>3. \A b \in Actors : at'[b] \notin InSession
    BY <1>1, <1>3, <1>7 DEF InSession
  <2>4. \A b \in Actors : b # a => at'[b] # "created"
    BY <1>1, <1>3, <1>7
  <2>5. /\ files[engine'] = {}
        /\ \A n \in Modes : barrier[engine'][n] = 0
    BY <1>4, <2>1 DEF ShareInv, FreshInv
  <2>6. JoinedInv'
    <3>1. \A b \in Actors : at'[b] \notin Idle => Least(b)' /\ at'[b] # "crashed"
      BY <1>1 DEF ShareInv, JoinedInv, Least
    <3>2. \A e \in Engines, n \in Modes :
            registered'[e][n] =
              {b \in Actors : at'[b] = "open" /\ held'[b] = e /\ mode'[b] = n}
      BY <1>1 DEF ShareInv, JoinedInv
    <3> QED BY <1>1, <1>4, <2>3, <2>5, <3>1, <3>2 DEF JoinedInv
  <2>7. FreshInv'
    <3>1. \A e \in Engines : e > Len(built') => e > Len(built)
      BY <1>4, <2>2, BoundsAssumption DEF Engines
    <3>2. \A e \in 1 .. Len(built) : built'[e] = built[e]
      BY <2>1, AppendIs DEF TypeInv, SettingsInv
    <3>3. \A e \in Engines : e <= Len(built) => e \in 1 .. Len(built) /\ e <= Len(built')
      BY <1>4, <2>2, BoundsAssumption DEF Engines
    <3> QED BY <1>1, <1>4, <1>5, <2>1, <3>1, <3>2, <3>3 DEF ShareInv, FreshInv
  <2>8. OpeningInv'
    BY <1>1, <1>4, <1>5, <2>3, <2>4, <2>5 DEF OpeningInv, InSession
  <2> QED BY <1>1, <2>6, <2>7, <2>8 DEF ShareInv, OwnFile
<1> QED BY <1>6, <1>7

LEMMA RegisterKeepsShare ==
  ASSUME Gathered, TypeInv, TypeInv', ShareInv, NEW a \in Actors, Register(a)
  PROVE  ShareInv'
<1> DEFINE e == engine
           k == mode[a]
<1>1. /\ at[a] = "created" /\ Least(a)
      /\ UNCHANGED <<engine, accessMode, built, barrier, users, mode, round>>
  BY DEF Register, stream, ShareInv, JoinedInv, Idle
<1>2. Opening
  BY <1>1 DEF Opening, InSession
<1>3. /\ engine # 0 /\ k \in users[engine] /\ k \in Modes
      /\ \A b \in Actors : at[b] \notin {"barrier", "last"}
      /\ \A n \in Modes : barrier[engine][n] = 0
      /\ \A f \in files[engine] :
           f[1] \in registered[engine]["Publish"] => f[2] < FileNumber(engine)
  BY <1>1, <1>2 DEF ShareInv, OpeningInv, TypeInv, SessionTypes, Idle
<1>4. e \in Engines /\ e = Len(built)
  BY <1>3, Numbers DEF ShareInv, JoinedInv
<1>5. /\ registered' = [registered EXCEPT ![e][k] = @ \cup {a}]
      /\ files' = IF k = "Publish" /\ built[e].type = "File"
                    THEN [files EXCEPT ![e] =
                            {f \in @ : f[1] # a} \cup {<<a, FileNumber(e)>>}]
                    ELSE files
      /\ \A b \in Actors : held'[b] = IF b = a THEN e ELSE held[b]
      /\ \A b \in Actors : at'[b] = IF b = a THEN "open" ELSE at[b]
  BY <1>3 DEF Register, Goto, TypeInv, SessionTypes, SettingsInv
<1>6. /\ registered \in [Engines -> [Modes -> SUBSET Actors]]
      /\ files \in [Engines -> SUBSET (Actors \X Nat)]
      /\ \A g \in Engines, n \in Modes : a \notin registered[g][n]
  BY <1>1 DEF TypeInv, SessionTypes, ShareInv, JoinedInv
<1> HIDE DEF e, k
<1>7. \A g \in Engines, n \in Modes :
        registered'[g][n] =
          IF g = e /\ n = k THEN registered[g][n] \cup {a} ELSE registered[g][n]
  BY <1>3, <1>4, <1>5, <1>6
<1>8. JoinedInv'
  <2>1. \A b \in Actors : at'[b] \notin Idle => Least(b)' /\ at'[b] # "crashed"
    BY <1>1, <1>5 DEF ShareInv, JoinedInv, Least, Idle
  <2>2. \A b \in Actors : at'[b] \in InSession =>
          held'[b] = Len(built') /\ mode'[b] \in users'[held'[b]]
    BY <1>1, <1>3, <1>4, <1>5 DEF ShareInv, JoinedInv, e, k
  <2>3. ASSUME NEW g \in Engines, NEW n \in Modes
        PROVE  registered'[g][n] =
                 {b \in Actors : at'[b] = "open" /\ held'[b] = g /\ mode'[b] = n}
    <3>1. registered[g][n] =
            {b \in Actors : at[b] = "open" /\ held[b] = g /\ mode[b] = n}
      BY DEF ShareInv, JoinedInv
    <3>2. mode' = mode /\ mode[a] = k
      BY <1>1 DEF k
    <3>3. CASE g = e /\ n = k
      BY <1>1, <1>5, <1>7, <3>1, <3>2, <3>3
    <3>4. CASE ~(g = e /\ n = k)
      BY <1>1, <1>5, <1>7, <3>1, <3>2, <3>4
    <3> QED BY <3>3, <3>4
  <2>4. engine' # 0 => \A n \in Modes : barrier'[engine'][n] # 0 =>
          \E b \in Actors : at'[b] \in InSession /\ mode'[b] = n
    BY <1>1, <1>3
  <2> QED BY <1>1, <2>1, <2>2, <2>3, <2>4 DEF ShareInv, JoinedInv
<1>9. \A g \in Engines : g # e => files'[g] = files[g]
  BY <1>4, <1>5, <1>6
<1>10. FreshInv'
  <2>1. \A g \in Engines : g > Len(built) => g # e
    BY <1>4, Numbers
  <2>2. files'[e] # {} => e <= Len(built) /\ built[e].type = "File"
    BY <1>4, <1>5, <1>6, Numbers DEF ShareInv, FreshInv
  <2> QED BY <1>1, <1>9, <2>1, <2>2 DEF ShareInv, FreshInv
\* The file of a is the only one of a publisher with that number.
<1>11. /\ FileNumber(e) \in Nat
       /\ k = "Publish" => Cardinality(registered'[e]["Publish"]) = FileNumber(e) + 1
       /\ k # "Publish" => registered'[e]["Publish"] = registered[e]["Publish"]
  <2>1. "Publish" \in Modes
    BY DEF Modes
  <2>2. IsFiniteSet(registered[e]["Publish"]) /\ a \notin registered[e]["Publish"]
    BY <1>4, <1>6, <2>1 DEF TypeInv, SessionTypes
  <2>3. registered'[e]["Publish"] =
          IF k = "Publish" THEN registered[e]["Publish"] \cup {a}
                           ELSE registered[e]["Publish"]
    BY <1>4, <1>7, <2>1
  <2>4. FileNumber(e) = Cardinality(registered[e]["Publish"])
    BY DEF FileNumber
  <2>5. Cardinality(registered[e]["Publish"] \cup {a}) =
          Cardinality(registered[e]["Publish"]) + 1
    BY <2>2, FS_AddElement
  <2>6. FileNumber(e) \in Nat
    BY <2>2, <2>4, FS_CardinalityType
  <2> QED BY <2>3, <2>4, <2>5, <2>6
<1> DEFINE Taking == k = "Publish" /\ built[e].type = "File"
<1>12. \A f \in files'[e] :
         \/ f \in files[e] /\ (f[1] # a \/ ~Taking)
         \/ f = <<a, FileNumber(e)>> /\ Taking
  <2> HIDE DEF FileNumber
  <2> QED BY <1>4, <1>5, <1>6
<1>13. /\ \A f \in files[e] : f[2] \in Nat
       /\ files[e] # {} => built[e].type = "File"
  BY <1>4, <1>6 DEF ShareInv, FreshInv
\* Of the files of publishers, those that were there are below the new one.
<1>14. ASSUME NEW f \in files'[e], f[1] \in registered'[e]["Publish"]
       PROVE  \/ /\ f \in files[e] /\ f[1] \in registered[e]["Publish"]
                 /\ f[1] # a /\ f[2] < FileNumber(e) /\ f[2] \in Nat
              \/ f = <<a, FileNumber(e)>> /\ Taking
  <2>1. CASE f = <<a, FileNumber(e)>> /\ Taking
    BY <2>1
  <2>2. CASE f \in files[e] /\ (f[1] # a \/ ~Taking)
    <3>1. k = "Publish" => Taking
      BY <1>13, <2>2
    <3>2. f[1] \in registered[e]["Publish"]
      BY <1>4, <1>7, <1>14, <2>2, <3>1 DEF Modes
    <3>3. f[1] # a
      BY <1>4, <1>6, <3>2 DEF Modes
    <3>4. f[2] < FileNumber(e) /\ f[2] \in Nat
      BY <1>3, <1>13, <2>2, <3>2 DEF e
    <3> QED BY <2>2, <3>2, <3>3, <3>4
  <2> QED BY <1>12, <2>1, <2>2
<1> HIDE DEF Taking
<1>15. OpeningInv'
  <2>1. \A b \in Actors : at'[b] \notin {"barrier", "last"}
    BY <1>3, <1>5
  <2>2. ASSUME NEW b \in Actors, at'[b] = "created"
        PROVE  mode'[b] \in users'[engine']
    BY <1>1, <1>2, <1>5, <2>2 DEF ShareInv, OpeningInv
  <2>3. ASSUME NEW f \in files'[e], f[1] \in registered'[e]["Publish"]
        PROVE  f[2] < Cardinality(registered'[e]["Publish"])
    <3>1. CASE f = <<a, FileNumber(e)>> /\ Taking
      BY <1>11, <3>1 DEF Taking
    <3>2. CASE f[2] < FileNumber(e) /\ f[2] \in Nat
      BY <1>11, <3>2 DEF FileNumber
    <3> QED BY <1>14, <2>3, <3>1, <3>2
  <2>4. engine' = e
    BY <1>1 DEF e
  <2> QED BY <1>1, <1>3, <2>1, <2>2, <2>3, <2>4 DEF OpeningInv, FileNumber
<1>16. OwnFile'
  <2>1. ASSUME NEW f \in files'[e], NEW g \in files'[e], f[1] # g[1],
               {f[1], g[1]} \subseteq registered'[e]["Publish"]
        PROVE  f[2] # g[2]
    <3>1. \/ /\ f \in files[e] /\ f[1] \in registered[e]["Publish"]
             /\ f[1] # a /\ f[2] < FileNumber(e) /\ f[2] \in Nat
          \/ f = <<a, FileNumber(e)>>
      BY <1>14, <2>1
    <3>2. \/ /\ g \in files[e] /\ g[1] \in registered[e]["Publish"]
             /\ g[1] # a /\ g[2] < FileNumber(e) /\ g[2] \in Nat
          \/ g = <<a, FileNumber(e)>>
      BY <1>14, <2>1
    <3>3. CASE /\ f \in files[e] /\ f[1] \in registered[e]["Publish"]
               /\ g \in files[e] /\ g[1] \in registered[e]["Publish"]
      BY <1>4, <2>1, <3>3 DEF ShareInv, OwnFile
    <3>4. CASE f = <<a, FileNumber(e)>> \/ g = <<a, FileNumber(e)>>
      <4> HIDE DEF FileNumber
      <4> QED BY <1>11, <2>1, <3>1, <3>2, <3>4
    <3> QED BY <3>1, <3>2, <3>3, <3>4
  <2>2. ASSUME NEW g \in Engines, g # e
        PROVE  files'[g] = files[g] /\ registered'[g]["Publish"] = registered[g]["Publish"]
    BY <1>7, <1>9, <2>2 DEF Modes
  <2> QED BY <2>1, <2>2 DEF ShareInv, OwnFile
<1> QED BY <1>8, <1>10, <1>15, <1>16 DEF ShareInv

\* An actor that begins or closes does so when nobody may join any more.
LEMMA NobodyJoins ==
  ASSUME Gathered, TypeInv, ShareInv, NEW a \in Actors, at[a] \in InSession, Together(a)
  PROVE  ~Opening
<1> SUFFICES ASSUME NEW b \in Actors, at[b] \notin InSession, Least(b)
             PROVE  FALSE
  BY DEF Opening
<1>1. round[b] > round[a] \/ (round[b] = round[a] /\ at[b] \in InSession)
  BY DEF Together
<1> QED BY <1>1, Numbers DEF Least

LEMMA BeginKeepsShare ==
  ASSUME Gathered, TypeInv, ShareInv, NEW a \in Actors, Begin(a)
  PROVE  ShareInv'
<1>1. /\ UNCHANGED <<engine, accessMode, built, registered, files, users, at, mode,
                    held, round>>
      /\ at[a] \in InSession /\ Together(a)
      /\ barrier' = [barrier EXCEPT ![held[a]][mode[a]] = SizeOf(held[a], mode[a])]
  BY DEF Begin, Client, stream, sessions, InSession
<1>2. ~Opening /\ ~Opening'
  <2>1. ~Opening
    BY <1>1, NobodyJoins
  <2> QED BY <1>1, <2>1 DEF Opening, Least
<1>3. /\ held[a] \in Engines /\ held[a] = Len(built) /\ mode[a] \in Modes
      /\ Len(built) \in Nat
  BY <1>1, Numbers DEF ShareInv, JoinedInv
<1>4. \A e \in Engines, m \in Modes :
        barrier'[e][m] = barrier[e][m] \/ (e = held[a] /\ m = mode[a])
  BY <1>1, <1>3 DEF TypeInv, SessionTypes
<1>5. JoinedInv'
  <2>1. engine # 0 => \A m \in Modes : barrier'[engine][m] # 0 =>
          \E b \in Actors : at[b] \in InSession /\ mode[b] = m
    <3> SUFFICES ASSUME engine # 0, NEW m \in Modes, barrier'[engine][m] # 0
                 PROVE  \E b \in Actors : at[b] \in InSession /\ mode[b] = m
      OBVIOUS
    <3>1. engine \in Engines
      BY Numbers
    <3>2. CASE m = mode[a]
      BY <1>1, <3>2
    <3>3. CASE m # mode[a]
      BY <1>4, <3>1, <3>3 DEF ShareInv, JoinedInv
    <3> QED BY <3>2, <3>3
  <2> QED BY <1>1, <2>1 DEF ShareInv, JoinedInv, Least
<1>6. FreshInv'
  BY <1>1, <1>3, <1>4 DEF ShareInv, FreshInv
<1> QED BY <1>1, <1>2, <1>5, <1>6 DEF ShareInv, OpeningInv, OwnFile

\* When actors leave their session, nobody may join as long as somebody is left.
LEMMA LeavingOpens ==
  ASSUME TypeInv, ShareInv, ~Opening, NEW a \in Actors, at[a] \in InSession,
         \A b \in Actors : \/ at'[b] \in InSession /\ at[b] \in InSession
                              /\ round'[b] = round[b]
                           \/ at'[b] = "ready" /\ at[b] \in InSession
                              /\ round'[b] = round[b] + 1
                           \/ at'[b] = at[b] /\ at[b] \notin InSession
                              /\ round'[b] = round[b]
  PROVE  /\ \A b \in Actors : at'[b] \notin Idle =>
              at'[b] \in InSession /\ at[b] \in InSession /\ Least(b)'
         /\ Opening' => \A b \in Actors : at'[b] \in Idle
<1>1. \A b \in Actors : round[b] \in Nat /\ at[b] \in Places
  BY Numbers
<1>2. ASSUME NEW b \in Actors, at'[b] \notin Idle
      PROVE  at'[b] \in InSession /\ at[b] \in InSession /\ Least(b) /\ round'[b] = round[b]
  <2>1. CASE at'[b] = at[b] /\ at[b] \notin InSession
    <3>1. Least(b)
      BY <1>2, <2>1 DEF ShareInv, JoinedInv
    <3> QED BY <2>1, <3>1 DEF Opening
  <2>2. CASE at'[b] \in InSession /\ at[b] \in InSession /\ round'[b] = round[b]
    <3>1. Least(b)
      BY <2>2 DEF ShareInv, JoinedInv, Idle, InSession
    <3> QED BY <2>2, <3>1
  <2> QED BY <1>2, <2>1, <2>2 DEF Idle
<1>3. ASSUME NEW b \in Actors, at'[b] \notin Idle
      PROVE  Least(b)'
  <2>1. \A c \in Actors : round[b] <= round[c] /\ round[c] <= round'[c]
    BY <1>1, <1>2, <1>3 DEF Least
  <2> QED BY <1>1, <1>2, <1>3, <2>1 DEF Least
<1>4. ASSUME NEW b \in Actors, at'[b] \notin InSession, Least(b)',
             NEW c \in Actors, at'[c] \notin Idle
      PROVE  FALSE
  <2>1. round'[b] <= round[c] /\ Least(c)
    BY <1>2, <1>4 DEF Least
  <2>2. CASE round'[b] = round[b] /\ at[b] \notin InSession
    <3>1. Least(b)
      BY <1>1, <2>1, <2>2 DEF Least
    <3> QED BY <2>2, <3>1 DEF Opening
  <2>3. CASE round'[b] = round[b] + 1
    BY <1>1, <2>1, <2>3 DEF Least
  <2> QED BY <1>4, <2>2, <2>3
<1> QED BY <1>2, <1>3, <1>4 DEF Opening

\* What leaving does to the invariant: the registries lose those who leave, the
\* engine of the stream stays if its barriers still have actors, or none.
LEMMA LeavingKeepsShare ==
  ASSUME TypeInv, TypeInv', ShareInv, ~Opening, NEW a \in Actors, at[a] \in InSession,
         \A b \in Actors : \/ at'[b] \in InSession /\ at[b] \in InSession
                              /\ round'[b] = round[b]
                           \/ at'[b] = "ready" /\ at[b] \in InSession
                              /\ round'[b] = round[b] + 1
                           \/ at'[b] = at[b] /\ at[b] \notin InSession
                              /\ round'[b] = round[b],
         \A b \in Actors : at'[b] \in InSession =>
                             held'[b] = held[b] /\ mode'[b] = mode[b],
         UNCHANGED <<accessMode, built, barrier, files, users>>,
         \A e \in Engines, m \in Modes :
           registered'[e][m] =
             {b \in Actors : at'[b] = "open" /\ held'[b] = e /\ mode'[b] = m},
         \A e \in Engines, m \in Modes : registered'[e][m] \subseteq registered[e][m],
         \/ engine' = 0
         \/ engine' = engine /\ \A m \in Modes : barrier[engine][m] # 0 =>
              \E b \in Actors : at'[b] \in InSession /\ mode'[b] = m
  PROVE  ShareInv'
<1>1. /\ \A b \in Actors : at'[b] \notin Idle =>
           at'[b] \in InSession /\ at[b] \in InSession /\ Least(b)'
      /\ Opening' => \A b \in Actors : at'[b] \in Idle
  BY LeavingOpens
<1>2. \A b \in Actors : at'[b] \notin Idle => Least(b)' /\ at'[b] # "crashed"
  BY <1>1 DEF InSession
<1>3. \A b \in Actors : at'[b] \in InSession =>
        held'[b] = Len(built') /\ mode'[b] \in users'[held'[b]]
  BY <1>1 DEF ShareInv, JoinedInv, Idle, InSession
<1>4. engine' # 0 => \A m \in Modes : barrier'[engine'][m] # 0 =>
        \E b \in Actors : at'[b] \in InSession /\ mode'[b] = m
  OBVIOUS
<1>5. JoinedInv'
  BY <1>2, <1>3, <1>4 DEF ShareInv, JoinedInv
<1>6. FreshInv'
  BY DEF ShareInv, FreshInv
<1>7. OwnFile'
  BY DEF ShareInv, OwnFile, Modes
<1>8. OpeningInv'
  <2> SUFFICES ASSUME Opening' PROVE OpeningInv'
    BY DEF OpeningInv
  <2>1. \A b \in Actors : at'[b] \in {"out", "ready"}
    BY <1>1 DEF Idle
  <2>2. engine' # 0 => \A m \in Modes : barrier'[engine'][m] = 0
    BY <1>4, <2>1 DEF InSession
  <2>3. engine' # 0 => registered'[engine']["Publish"] = {}
    <3>1. engine' # 0 => engine' \in Engines
      BY Numbers
    <3> QED BY <2>1, <3>1 DEF Modes
  <2> QED BY <2>1, <2>2, <2>3 DEF OpeningInv
<1> QED BY <1>5, <1>6, <1>7, <1>8 DEF ShareInv

LEMMA CloseStreamKeepsShare ==
  ASSUME Gathered, TypeInv, TypeInv', ShareInv, NEW a \in Actors, CloseStream(a)
  PROVE  ShareInv'
<1>1. /\ at[a] = "last" /\ at[a] \in InSession /\ engine' = 0
      /\ UNCHANGED <<accessMode, built, registered, barrier, files, users>>
      /\ Finish({a}, at)
  BY DEF CloseStream, engineVars, InSession
<1>2. ~Opening
  BY <1>1 DEF ShareInv, OpeningInv
<1>3. \A b \in Actors :
        /\ b = a => at'[b] = "ready" /\ round'[b] = round[b] + 1
        /\ b # a => at'[b] = at[b] /\ round'[b] = round[b]
                    /\ held'[b] = held[b] /\ mode'[b] = mode[b]
  BY <1>1 DEF Finish
<1>4. \A e \in Engines, m \in Modes :
        registered'[e][m] =
          {b \in Actors : at'[b] = "open" /\ held'[b] = e /\ mode'[b] = m}
  BY <1>1, <1>3 DEF ShareInv, JoinedInv
<1>5. \A b \in Actors : at'[b] \in InSession => b # a
  BY <1>3 DEF InSession
<1> QED BY <1>1, <1>2, <1>3, <1>4, <1>5, LeavingKeepsShare

LEMMA CloseKeepsShare ==
  ASSUME Gathered, TypeInv, TypeInv', ShareInv, NEW a \in Actors, Close(a)
  PROVE  ShareInv'
<1> DEFINE size == barrier[held[a]][mode[a]]
<1>1. /\ at[a] = "open" /\ at[a] \in InSession /\ Together(a)
      /\ UNCHANGED <<engine, accessMode, built, barrier, files, users>>
      /\ registered' = [registered EXCEPT ![held[a]][mode[a]] = @ \ {a}]
  BY DEF Close, Client, stream, InSession
<1>2. ~Opening
  BY <1>1, NobodyJoins
<1>3. /\ held[a] \in Engines /\ held[a] = Len(built) /\ mode[a] \in Modes
      /\ engine # 0 => engine = held[a]
  BY <1>1, Numbers DEF ShareInv, JoinedInv
<1>4. \A e \in Engines, m \in Modes :
        registered'[e][m] = IF e = held[a] /\ m = mode[a]
                              THEN registered[e][m] \ {a} ELSE registered[e][m]
  BY <1>1, <1>3 DEF TypeInv, SessionTypes
\* The three ways to close: a leaves, waits, or takes those who wait with it.
<1>5. \/ /\ size = 0
         /\ \A b \in Actors :
              IF b = a THEN at'[b] = "ready" /\ round'[b] = round[b] + 1
              ELSE at'[b] = at[b] /\ round'[b] = round[b]
                   /\ held'[b] = held[b] /\ mode'[b] = mode[b]
      \/ /\ UNCHANGED <<held, mode, round>>
         /\ \A b \in Actors : at'[b] = IF b = a THEN "barrier" ELSE at[b]
      \/ /\ size # 0
         /\ \A b \in Actors :
              IF b \in Waiting(a)
              THEN at'[b] = "ready" /\ round'[b] = round[b] + 1
              ELSE at'[b] = (IF b = a THEN "last" ELSE at[b]) /\ round'[b] = round[b]
                   /\ held'[b] = held[b] /\ mode'[b] = mode[b]
  <2>1. CASE size = 0 /\ Finish({a}, at)
    BY <2>1 DEF Finish
  <2>2. CASE at' = Goto(a, "barrier") /\ UNCHANGED <<held, mode, round>>
    BY <2>2 DEF Goto, TypeInv, SettingsInv
  <2>3. CASE size > 0 /\ Finish(Waiting(a), Goto(a, "last"))
    <3> HIDE DEF Waiting
    <3>1. \A b \in Actors : Goto(a, "last")[b] = IF b = a THEN "last" ELSE at[b]
      BY DEF Goto, TypeInv, SettingsInv
    <3> QED BY <2>3, <3>1 DEF Finish
  <2> QED BY <2>1, <2>2, <2>3 DEF Close
<1>6. \A b \in Waiting(a) : b \in Actors /\ at[b] = "barrier" /\ b # a
  BY <1>1 DEF Waiting
<1>7. /\ \A b \in Actors :
           \/ at'[b] \in InSession /\ at[b] \in InSession /\ round'[b] = round[b]
           \/ at'[b] = "ready" /\ at[b] \in InSession /\ round'[b] = round[b] + 1
           \/ at'[b] = at[b] /\ at[b] \notin InSession /\ round'[b] = round[b]
      /\ \A b \in Actors : at'[b] \in InSession =>
           held'[b] = held[b] /\ mode'[b] = mode[b]
      /\ \A b \in Actors : at'[b] = "open" <=> at[b] = "open" /\ b # a
  <2> HIDE DEF Waiting
  <2> QED BY <1>1, <1>5, <1>6 DEF InSession
<1>8. \A e \in Engines, m \in Modes :
        registered'[e][m] =
          {b \in Actors : at'[b] = "open" /\ held'[b] = e /\ mode'[b] = m}
  <2> SUFFICES ASSUME NEW e \in Engines, NEW m \in Modes
               PROVE  registered'[e][m] =
                        {b \in Actors : at'[b] = "open" /\ held'[b] = e /\ mode'[b] = m}
    OBVIOUS
  <2>1. registered[e][m] =
          {b \in Actors : at[b] = "open" /\ held[b] = e /\ mode[b] = m}
    BY DEF ShareInv, JoinedInv
  <2>2. registered'[e][m] = registered[e][m] \ {a}
    <3>1. ~(e = held[a] /\ m = mode[a]) => a \notin registered[e][m]
      BY <2>1
    <3>2. ~(e = held[a] /\ m = mode[a]) => registered'[e][m] = registered[e][m]
      BY <1>4
    <3>3. e = held[a] /\ m = mode[a] => registered'[e][m] = registered[e][m] \ {a}
      BY <1>4
    <3> QED BY <3>1, <3>2, <3>3
  <2>3. \A b \in Actors : at'[b] = "open" => held'[b] = held[b] /\ mode'[b] = mode[b]
    BY <1>7 DEF InSession
  <2> QED BY <1>7, <2>1, <2>2, <2>3
<1>9. \A e \in Engines, m \in Modes : registered'[e][m] \subseteq registered[e][m]
  BY <1>4
\* A side whose barrier has its size keeps an actor in the session.
<1>10. engine # 0 => \A m \in Modes : barrier[engine][m] # 0 =>
         \E b \in Actors : at'[b] \in InSession /\ mode'[b] = m
  <2> SUFFICES ASSUME engine # 0, NEW m \in Modes, barrier[engine][m] # 0
               PROVE  \E b \in Actors : at'[b] \in InSession /\ mode'[b] = m
    OBVIOUS
  <2>1. PICK b \in Actors : at[b] \in InSession /\ mode[b] = m
    BY DEF ShareInv, JoinedInv
  <2>2. m = mode[a] => size # 0
    BY <1>3
  <2>3. \A c \in Waiting(a) : mode[c] = mode[a]
    BY DEF Waiting
  <2> HIDE DEF Waiting, size
  <2>4. CASE m = mode[a]
    <3>1. at'[a] \in InSession
      BY <1>5, <1>6, <2>2, <2>4 DEF InSession
    <3> QED BY <1>7, <2>4, <3>1
  <2>5. CASE m # mode[a]
    <3>1. b # a /\ b \notin Waiting(a)
      BY <2>1, <2>3, <2>5
    <3>2. at'[b] \in InSession
      BY <1>5, <2>1, <3>1
    <3> QED BY <1>7, <2>1, <3>2
  <2> QED BY <2>4, <2>5
<1> QED BY <1>1, <1>2, <1>7, <1>8, <1>9, <1>10, LeavingKeepsShare

LEMMA ShareStep ==
  ASSUME Gathered, TypeInv, TypeInv', ShareInv, [Next]_vars
  PROVE  ShareInv'
<1>1. CASE UNCHANGED streamVars
  BY <1>1, ElsewhereKeepsShare DEF streamVars, stream, engineVars, sessions
<1>2. CASE StreamStep
  <2>1. PICK a \in Actors :
          \/ \E t \in EngineTypes \cup {Undefined}, m \in Methods \cup {Undefined} :
               AddStream(a, t, m)
          \/ Set(a) \/ Skip(a)
          \/ \E m \in Modes : Create(a, m)
          \/ Register(a) \/ Begin(a) \/ Close(a) \/ CloseStream(a)
    BY <1>2 DEF StreamStep
  <2>2. Set(a) => ShareInv'
    BY AddKeepsShare
  <2> QED BY <2>1, <2>2, AddKeepsShare, SkipKeepsShare, CreateKeepsShare,
          RegisterKeepsShare, BeginKeepsShare, CloseKeepsShare, CloseStreamKeepsShare
<1> QED BY <1>1, <1>2 DEF Next, vars

LEMMA ShareIsKept ==
  ASSUME Gathered
  PROVE  Spec => [](TypeInv /\ ShareInv)
<1>1. Init /\ TypeInv => ShareInv
  BY ShareStart
<1>2. TypeInv /\ TypeInv' /\ ShareInv /\ [Next]_vars => ShareInv'
  BY ShareStep
<1> QED BY <1>1, <1>2, TypesAreKept, PTL DEF Spec

LEMMA JoiningIsOpening ==
  ASSUME ShareInv, NEW a \in Actors, at[a] = "created"
  PROVE  Opening /\ engine # 0
  BY DEF ShareInv, JoinedInv, OpeningInv, Opening, Idle, InSession

\* Any number of actors that open the stream in rounds share one engine, in each
\* round again: who joins finds the engine that the others hold, before its
\* barriers are sized, and no two publishers write the same file.
THEOREM StreamSessionsAreShared ==
  ASSUME Gathered
  PROVE  Spec => []SessionsAreShared
<1>1. TypeInv /\ ShareInv => OneEngine
  <2> SUFFICES ASSUME TypeInv, ShareInv PROVE OneEngine
    OBVIOUS
  <2>1. \A a, b \in Actors : InEngine(a) /\ InEngine(b) => held[a] = held[b]
    BY DEF ShareInv, JoinedInv, InEngine
  <2>2. \A a \in Actors : at[a] = "open" => a \in registered[held[a]][mode[a]]
    BY Numbers DEF ShareInv, JoinedInv, InSession
  <2>3. \A a, b \in Actors : at[a] = "open" /\ at[b] = "created" => engine = held[a]
    BY JoiningIsOpening DEF ShareInv, JoinedInv, InSession
  <2> QED BY <2>1, <2>2, <2>3 DEF OneEngine
<1>2. ShareInv => JoinsInTime
  BY JoiningIsOpening DEF ShareInv, OpeningInv, JoinsInTime
<1>3. TypeInv /\ ShareInv => SessionsAreShared
  BY <1>1, <1>2 DEF ShareInv, SessionsAreShared
<1> QED BY <1>3, ShareIsKept, PTL

LEMMA ModesAreFinite == IsFiniteSet(Modes)
<1>1. IsFiniteSet({} \cup {"Publish"} \cup {"Subscribe"})
  BY FS_EmptySet, FS_AddElement
<1>2. Modes = {} \cup {"Publish"} \cup {"Subscribe"}
  BY DEF Modes
<1> QED BY <1>1, <1>2

\* While an engine has subscribers only, the role of the stream is theirs, and
\* so is what it lets them do to a variable, whichever object they work on.
THEOREM StreamSubscribersKeepToTheirRole ==
  ASSUME Gathered
  PROVE  Spec => SubscribersKeepToTheirRole
<1> DEFINE Kept == \A a \in Actors, r \in Reductions :
             Reduce(a, r) /\ Cardinality(users[held[a]]) = 1 => Respects(a, r)
<1>1. TypeInv /\ ShareInv => Kept
  <2> SUFFICES ASSUME TypeInv, ShareInv, NEW a \in Actors, NEW r \in Reductions,
                      Reduce(a, r), Cardinality(users[held[a]]) = 1,
                      mode[a] = "Subscribe"
               PROVE  r = "decimation" /\ origin[view[a]] # "Publish"
    BY DEF Respects
  <2>1. at[a] \in InSession /\ Allowed(view[a], r)
    BY DEF Reduce, Client, InSession
  <2>2. /\ held[a] = Len(built) /\ held[a] \in Engines
        /\ "Subscribe" \in users[held[a]] /\ accessMode \in users[held[a]]
        /\ users[held[a]] \subseteq Modes
    <3>1. held[a] = Len(built) /\ held[a] \in Engines /\ mode[a] \in users[held[a]]
      BY <2>1, Numbers DEF ShareInv, JoinedInv
    <3>2. Len(built) > 0
      BY <3>1, BoundsAssumption DEF Engines
    <3> QED BY <3>1, <3>2 DEF ShareInv, FreshInv, TypeInv, SessionTypes
  <2>3. IsFiniteSet(users[held[a]])
    BY <2>2, FS_Subset, ModesAreFinite
  <2>4. accessMode = "Subscribe"
    BY <2>2, <2>3, FS_Singleton
  <2> QED BY <2>1, <2>4 DEF Allowed, Reductions
<1>2. TypeInv /\ ShareInv /\ [Next]_vars => [Kept]_vars
  BY <1>1
<1> HIDE DEF Kept
<1>3. Spec => [][Kept]_vars
  BY <1>2, ShareIsKept, PTL DEF Spec
<1> QED BY <1>3 DEF SubscribersKeepToTheirRole, Kept
=============================================================================
