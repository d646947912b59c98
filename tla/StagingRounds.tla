---------------------------- MODULE StagingRounds ----------------------------
(***************************************************************************)
(* Publishers and subscribers of a Staging engine move in rounds: for      *)
(* clients that are Gathered and Prompt, when nobody cancels, and any      *)
(* number of actors, each transaction is published by everybody, received  *)
(* by everybody and over before the next one is published, and the engine  *)
(* implements TransactionStream.                                           *)
(***************************************************************************)
EXTENDS StagingRefinement, StagingSafety

\* The clients this module is about.
Regular == /\ Gathered /\ Prompt /\ ~MayCancel
           /\ MinTx > 0 /\ Pubs # {} /\ Subs # {}

\* Everybody on a side plans the same, and nothing is canceled.
Quotas ==
  /\ canceledTx = 0
  /\ \A p, q \in Pubs : plan[p] = plan[q]
  /\ \A r, s \in Subs : plan[r] = plan[s]
  /\ \A p \in Pubs : plan[p] > 0 /\ begun[p] <= plan[p]
  /\ \A p \in Pubs, s \in Subs :
       plan[s] \in {plan[p], plan[p] + 1} /\ begun[s] <= plan[s]

-----------------------------------------------------------------------------
(* The rounds of the publishers                                             *)

InRound == {"lock", "flush", "cvStarted", "recheck", "tx", "put", "endBarrier"}
Serving == {"commit", "serve", "overBarrier"}
Departing == {"closeFlush", "closeBarrier", "closeLast", "closed"}
Gone == {"closeBarrier", "closeLast", "closed"}

\* The last publisher at the barrier is about to complete the transaction,
\* and how many rounds are complete, that one included.
Committing == \E p \in Pubs : pc[p] = "commit"
Round == IF Committing THEN completedPub + 1 ELSE completedPub

\* The transaction in progress is complete, and its flag still set.
Finishing == \E p \in Pubs : pc[p] \in Serving \cup {"clearFlag"}

\* A publisher is in the open round or has left the last one.
InStep(p) ==
  /\ pc[p] \notin {"canceled", "crashed"}
  /\ pc[p] \in InRound => begun[p] = completedPub + 1 /\ ~Committing
  /\ pc[p] \in {"new", "idle", "clearFlag"} \cup Serving \cup Departing =>
       begun[p] = Round
  /\ pc[p] \in Departing => begun[p] = plan[p]
  /\ pc[p] = "new" => begun[p] = 0
  /\ pc[p] \notin {"new", "idle"} => begun[p] > 0
PubRounds == \A p \in Pubs : InStep(p)

\* They pass the barriers together, and nobody gets far into a round before all
\* have begun it.
PubTogether ==
  \A p, q \in Pubs :
    /\ pc[p] \in Serving => pc[q] \in Serving
    /\ pc[p] \in InRound \ {"lock"} /\ pc[q] \in Returning => begun[q] = 0
    /\ p # q /\ pc[p] = "commit" => pc[q] = "serve"
    /\ p # q /\ pc[p] = "clearFlag" => pc[q] # "clearFlag"

\* Who begins before the flag is cleared joins the transaction that is over,
\* but waits for one that begins later and starts the next one.
PubFlag ==
  /\ Finishing => pubInProgress
  /\ (\E p \in Pubs : pc[p] \in InRound) /\ ~pubInProgress =>
       \E q \in Pubs : pc[q] = "idle" /\ begun[q] > 0
  /\ (\A p \in Pubs : pc[p] \notin Departing) =>
       currentPub = IF pubInProgress /\ ~Finishing THEN completedPub + 1 ELSE Round

PubRegistered ==
  /\ publishers = {p \in Pubs : pc[p] \notin {"new"} \cup Gone}
  /\ pubBarrier \in {0, Cardinality(Pubs)}
  /\ \/ completedPub > 0
     \/ \E p \in Pubs : pc[p] \in {"endBarrier"} \cup Serving
     => pubBarrier # 0

\* What the metadata has: nothing of later transactions, and a block of every
\* publisher that put one in this one.
Published == {"put", "endBarrier", "commit", "serve"}
Recorded ==
  /\ \A b \in blocks : b[1] <= currentPub
  /\ \A p \in Pubs : pc[p] \in Published => <<currentPub, p>> \in blocks

-----------------------------------------------------------------------------
(* The rounds of the subscribers                                            *)

First == {"first", "cvFirst", "start"}
Awaiting == {"await", "cvCompleted"}
Got == {"get", "endBarrier"} \cup Mid
Within == {"tx"} \cup Got

\* How many rounds are over for the subscribers: the one that they are about to
\* leave, or that nobody has followed by the next one, included.
Clearing == \E s \in Subs : pc[s] = "clearFlag"
Received == IF currentSub <= completedPub /\ (Clearing \/ ~subInProgress)
            THEN currentSub ELSE currentSub - 1

\* A subscriber is in the open round or has left the last one; after that it
\* closes, told the end of the stream or not.
KeepsPace(s) ==
  /\ pc[s] \notin {"canceled", "crashed"}
  /\ pc[s] \in Returning \cup {"new"} => begun[s] = Received
  /\ pc[s] \in First \cup Awaiting \cup Within \cup {"eos"} =>
       begun[s] = Received + 1
  /\ pc[s] = "new" => begun[s] = 0
  /\ pc[s] \in First => Received = 0
  /\ pc[s] \in Within => completedPub = currentSub
  /\ pc[s] \in {"cvCompleted", "eos"} \cup Within => currentSub = Received + 1
  /\ pc[s] = "eos" => pubStreamEnded
  /\ pc[s] \in {"eos"} \cup Leaving => completedPub = Received
  /\ pc[s] \in Leaving =>
       /\ begun[s] = plan[s]
       /\ begun[s] = Received \/ (begun[s] = Received + 1 /\ pubStreamEnded)
       /\ \A p \in Pubs : plan[p] = completedPub
SubRounds == \A s \in Subs : KeepsPace(s)

SubTogether ==
  \A r, s \in Subs :
    /\ pc[s] \in {"cvCompleted", "eos"} \cup Within =>
         pc[r] \notin Returning \cup {"new"}
    /\ pc[s] \in Mid => pc[r] \in Mid
    /\ r # s /\ pc[s] = "clearFlag" => pc[r] # "clearFlag"

SubFlag ==
  /\ Clearing => subInProgress /\ currentSub <= completedPub
  /\ subInProgress => currentSub > 0
  /\ (\E s \in Subs : pc[s] = "await") /\ ~subInProgress
       /\ currentSub <= completedPub =>
       \E r \in Subs : pc[r] = "idle" /\ begun[r] > 0
  /\ currentSub > completedPub /\ ~subInProgress =>
       /\ pubStreamEnded
       /\ \A r \in Subs : pc[r] \notin First \cup Returning \cup {"new"}

SubRegistered ==
  /\ subscribers = {s \in Subs : pc[s] \notin {"new"} \cup Gone}
  /\ subBarrier \in {0, Cardinality(Subs)}
  /\ (\E s \in Subs : pc[s] \in {"endBarrier"} \cup Mid) => subBarrier # 0

\* A subscriber has its rendez-vous points once its first transaction has
\* started, and requests come from those that have.
RendezVous ==
  /\ \A s \in Subs : pc[s] \notin {"first", "cvFirst"} /\ begun[s] > 0 =>
       \A p \in Pubs : <<p, s>> \in rdv
  /\ \A p \in Pubs : \A i \in 1..Len(requests[p]) :
       <<p, requests[p][i].from>> \in rdv

-----------------------------------------------------------------------------
(* Where both sides meet                                                    *)

Opened ==
  /\ currentPub > 0 => \A a \in Actors : /\ pc[a] # "new"
                                         /\ a \in Subs => begun[a] > 0
  /\ currentPub = 0 =>
       /\ currentSub = 0
       /\ \A p \in Pubs : pc[p] \in {"new", "idle"}
       /\ \A s \in Subs : pc[s] \in {"new", "idle", "first", "cvFirst"}

\* Subscribers are in the round that publishers have completed, or one behind;
\* that one only while publishers wait for their requests.
Meeting ==
  /\ completedPub \in {Received, Received + 1}
  /\ (\E p \in Pubs : pc[p] # "serve") =>
       completedPub = Received \/ \A s \in Subs : pc[s] \in Got
  /\ \A p \in Pubs : pc[p] \in {"tx", "put", "endBarrier", "commit"} =>
       completedPub = Received
  /\ pubStreamEnded => \A p \in Pubs : plan[p] = completedPub

\* The subscribers whose request of this transaction is still to come.
Owing == IF completedPub = Received THEN {} ELSE {s \in Subs : pc[s] \notin Got}

\* A publisher expects as many requests as there are, or will be.
Balance ==
  \A p \in Pubs :
    /\ pc[p] \in {"put", "endBarrier", "commit"} \/ (Committing /\ pc[p] = "serve") =>
         pending[p] = Cardinality(Subs) /\ requests[p] = <<>>
    /\ pc[p] = "serve" /\ ~Committing =>
         pending[p] = Len(requests[p]) + Cardinality(Owing)
    /\ pc[p] \notin Published => pending[p] = 0 /\ requests[p] = <<>>

\* What was published before has arrived.
Arrived ==
  /\ completedPub = 0 => AllOver(puts)
  /\ \A p \in Pubs :
       pc[p] \in {"cvStarted", "recheck", "tx", "put", "endBarrier"} => AllOver(puts)

PubInv == PubRounds /\ PubTogether /\ PubFlag /\ PubRegistered
SubInv == SubRounds /\ SubTogether /\ SubFlag /\ SubRegistered /\ RendezVous
MeetInv == Quotas /\ Opened /\ Meeting /\ Balance /\ Arrived /\ Recorded
RoundInv == PubInv /\ SubInv /\ MeetInv

-----------------------------------------------------------------------------
(* Actors that do not move, and actors that move on their own               *)

LEMMA PubsAndSubs ==
  /\ Pubs \subseteq Actors /\ Subs \subseteq Actors
  /\ \A p \in Pubs : p \notin Subs
  /\ \A s \in Subs : s \notin Pubs
BY ActorsAssumption DEF Actors

LEMMA ReceivedType ==
  ASSUME TypeOK, SubFlag
  PROVE  Received \in Nat /\ (Received = currentSub \/ Received = currentSub - 1)
BY DEF TypeOK, SubFlag, Received

\* Other steps at most wake a subscriber from cvFirst or cvCompleted, which
\* leaves it where it is in its round.  A transaction is completed when all
\* have received the one before.
LEMMA SubsUndisturbed ==
  ASSUME TypeOK, RoundInv,
         \A s \in Subs : Waits(s) /\ begun'[s] = begun[s],
         plan' = plan, UNCHANGED <<subSide, subscribers, subBarrier, rdv>>,
         pubStreamEnded => pubStreamEnded',
         \/ completedPub' = completedPub
         \/ /\ completedPub' = completedPub + 1 /\ completedPub = Received
            /\ \E p \in Pubs : plan[p] # completedPub,
         \A p \in Pubs : \A i \in 1..Len(requests'[p]) :
           \E j \in 1..Len(requests[p]) : requests'[p][i] = requests[p][j]
  PROVE  /\ SubInv' /\ Received' = Received
         /\ \A s \in Subs : pc'[s] \in Got <=> pc[s] \in Got
<1> DEFINE Kin(x, y) == \/ y = x
                        \/ x = "cvFirst" /\ y = "first"
                        \/ x = "cvCompleted" /\ y = "await"
<1>1. \A s \in Subs : Kin(pc[s], pc'[s])
  BY DEF Waits, Wakes, TypeOK, PlacesOK, SubPlaces
<1>2. \A s \in Subs :
        /\ \A place \in {"new", "idle", "first", "clearFlag", "eos", "canceled",
                         "crashed", "endBarrier"} :
             place # "first" => (pc'[s] = place <=> pc[s] = place)
        /\ pc'[s] \in First <=> pc[s] \in First
        /\ pc'[s] \in {"first", "cvFirst"} <=> pc[s] \in {"first", "cvFirst"}
        /\ pc'[s] \in Awaiting <=> pc[s] \in Awaiting
        /\ pc'[s] = "cvCompleted" => pc[s] = "cvCompleted"
        /\ pc'[s] = "await" => pc[s] \in {"await", "cvCompleted"}
        /\ pc'[s] \in Got <=> pc[s] \in Got
        /\ pc'[s] \in Within <=> pc[s] \in Within
        /\ pc'[s] \in Mid <=> pc[s] \in Mid
        /\ pc'[s] \in Leaving <=> pc[s] \in Leaving
        /\ pc'[s] \in Gone <=> pc[s] \in Gone
        /\ pc'[s] \in Returning <=> pc[s] \in Returning
  BY <1>1 DEF First, Awaiting, Got, Within, Mid, Leaving, Gone, Returning
<1> HIDE DEF Kin
<1>3. Clearing' <=> Clearing
  BY <1>2 DEF Clearing
<1>4. /\ currentSub' = currentSub /\ subInProgress' = subInProgress
      /\ currentSub \in Nat /\ completedPub \in Nat
  BY DEF subSide, TypeOK
<1>5. completedPub' # completedPub =>
        /\ completedPub' = completedPub + 1
        /\ ~pubStreamEnded /\ (currentSub > completedPub => subInProgress)
        /\ \A s \in Subs : pc[s] \notin Leaving \cup Within \cup {"eos"}
        /\ Clearing => currentSub <= completedPub
  <2> SUFFICES ASSUME completedPub' # completedPub
               PROVE  /\ completedPub' = completedPub + 1
                      /\ ~pubStreamEnded /\ (currentSub > completedPub => subInProgress)
                      /\ \A s \in Subs : pc[s] \notin Leaving \cup Within \cup {"eos"}
                      /\ Clearing => currentSub <= completedPub
    OBVIOUS
  <2>1. /\ completedPub' = completedPub + 1 /\ completedPub = Received
        /\ \E p \in Pubs : plan[p] # completedPub
    OBVIOUS
  <2>2. ~pubStreamEnded
    BY <2>1 DEF RoundInv, MeetInv, Meeting
  <2>3. currentSub > completedPub => subInProgress
    BY <2>2 DEF RoundInv, SubInv, SubFlag
  <2>4. ASSUME NEW s \in Subs
        PROVE  pc[s] \notin Leaving \cup Within \cup {"eos"}
    BY <1>4, <2>1, <2>2 DEF RoundInv, SubInv, SubRounds, KeepsPace
  <2> QED
    BY <2>1, <2>2, <2>3, <2>4 DEF RoundInv, SubInv, SubFlag
<1>6. Received' = Received
  <2>1. CASE completedPub' = completedPub
    BY <1>3, <1>4, <2>1 DEF Received
  <2>2. CASE completedPub' # completedPub
    <3>1. CASE currentSub <= completedPub
      BY <1>3, <1>4, <1>5, <2>2, <3>1 DEF Received
    <3>2. CASE currentSub > completedPub
      BY <1>3, <1>4, <1>5, <2>2, <3>2 DEF Received
    <3> QED
      BY <1>4, <3>1, <3>2
  <2> QED
    BY <2>1, <2>2
<1>7. SubRounds'
  <2>1. ASSUME NEW s \in Subs
        PROVE  KeepsPace(s)'
    <3>1. KeepsPace(s)
      BY DEF RoundInv, SubInv, SubRounds
    <3>2. completedPub' = completedPub \/ pc[s] \notin Leaving \cup Within \cup {"eos"}
      BY <1>5
    <3> QED
      BY <1>2, <1>4, <1>6, <3>1, <3>2 DEF KeepsPace, Awaiting
  <2> QED
    BY <2>1 DEF SubRounds
<1>8. SubTogether'
  BY <1>2 DEF RoundInv, SubInv, SubTogether
<1>9. SubFlag'
  <2>1. (Clearing => subInProgress /\ currentSub <= completedPub)'
    BY <1>3, <1>4, <1>5 DEF RoundInv, SubInv, SubFlag
  <2>2. ASSUME NEW s \in Subs, pc'[s] = "await", ~subInProgress, currentSub <= completedPub'
        PROVE  \E r \in Subs : pc'[r] = "idle" /\ begun'[r] > 0
    <3>1. currentSub <= completedPub
      BY <1>4, <1>5, <2>2
    <3>2. pc[s] # "cvCompleted"
      BY <1>4, <2>2, <3>1 DEF RoundInv, SubInv, SubRounds, KeepsPace, Received
    <3> QED
      BY <1>2, <2>2, <3>1, <3>2 DEF RoundInv, SubInv, SubFlag
  <2>3. ASSUME currentSub > completedPub', ~subInProgress
        PROVE  /\ pubStreamEnded'
               /\ \A r \in Subs : pc'[r] \notin First \cup Returning \cup {"new"}
    <3>1. currentSub > completedPub
      BY <1>4, <1>5, <2>3
    <3> QED
      BY <1>2, <2>3, <3>1 DEF RoundInv, SubInv, SubFlag
  <2>4. (subInProgress => currentSub > 0)'
    BY <1>4 DEF RoundInv, SubInv, SubFlag
  <2> QED
    BY <1>4, <2>1, <2>2, <2>3, <2>4 DEF SubFlag
<1>10. SubRegistered'
  <2>1. subscribers' = {s \in Subs : pc'[s] \notin {"new"} \cup Gone}
    BY <1>2 DEF RoundInv, SubInv, SubRegistered
  <2> QED
    BY <1>2, <2>1 DEF RoundInv, SubInv, SubRegistered
<1>11. RendezVous'
  BY <1>2 DEF RoundInv, SubInv, RendezVous
<1> QED
  BY <1>2, <1>6, <1>7, <1>8, <1>9, <1>10, <1>11 DEF SubInv

\* Nor does a subscriber do more to a publisher than to wake it from cvStarted.
LEMMA PubsUndisturbed ==
  ASSUME TypeOK, RoundInv,
         \A p \in Pubs : Waits(p) /\ begun'[p] = begun[p],
         plan' = plan, UNCHANGED <<pubSide, publishers, pubBarrier, blocks>>
  PROVE  /\ PubInv' /\ Recorded'
         /\ (Committing' <=> Committing) /\ Round' = Round
         /\ \A p \in Pubs : \/ pc'[p] = pc[p]
                            \/ pc[p] = "cvStarted" /\ pc'[p] = "recheck"
<1>1. \A p \in Pubs : \/ pc'[p] = pc[p]
                      \/ pc[p] = "cvStarted" /\ pc'[p] = "recheck"
  BY DEF Waits, Wakes, TypeOK, PlacesOK, PubPlaces
<1>2. \A p \in Pubs :
        /\ \A place \in {"new", "idle", "lock", "clearFlag", "commit", "serve",
                         "canceled", "crashed"} :
             pc'[p] = place <=> pc[p] = place
        /\ pc'[p] \in InRound <=> pc[p] \in InRound
        /\ pc'[p] \in Serving <=> pc[p] \in Serving
        /\ pc'[p] \in Departing <=> pc[p] \in Departing
        /\ pc'[p] \in Gone <=> pc[p] \in Gone
        /\ pc'[p] \in Published <=> pc[p] \in Published
        /\ pc'[p] \in {"endBarrier"} \cup Serving <=> pc[p] \in {"endBarrier"} \cup Serving
        /\ pc'[p] \in Returning <=> pc[p] \in Returning
  BY <1>1 DEF InRound, Serving, Departing, Gone, Published, Returning
<1>3. (Committing' <=> Committing) /\ (Finishing' <=> Finishing)
  BY <1>2 DEF Committing, Finishing
<1>4. UNCHANGED <<currentPub, completedPub, pubInProgress, publishers, pubBarrier>>
  BY DEF pubSide
<1>5. Round' = Round
  BY <1>3, <1>4 DEF Round
<1>6. PubRounds'
  BY <1>2, <1>3, <1>4, <1>5 DEF RoundInv, PubInv, PubRounds, InStep
<1>7. PubTogether'
  BY <1>2 DEF RoundInv, PubInv, PubTogether
<1>8. PubFlag'
  BY <1>2, <1>3, <1>4, <1>5 DEF RoundInv, PubInv, PubFlag
<1>9. PubRegistered'
  BY <1>2, <1>4 DEF RoundInv, PubInv, PubRegistered
<1>10. Recorded'
  BY <1>2, <1>4 DEF RoundInv, MeetInv, Recorded
<1> QED
  BY <1>1, <1>3, <1>5, <1>6, <1>7, <1>8, <1>9, <1>10 DEF PubInv

\* A publisher goes to `to`; the other actors stay where they are.
LEMMA GotoPub ==
  ASSUME TypeOK, NEW p \in Pubs, NEW to, pc' = Goto(p, to)
  PROVE  /\ pc'[p] = to
         /\ \A q \in Pubs : q # p => pc'[q] = pc[q]
         /\ \A s \in Subs : pc'[s] = pc[s]
BY PubsAndSubs DEF Goto, TypeOK, PlacesOK

\* A notification of subscribers moves no other publisher.
LEMMA NotifyPub ==
  ASSUME TypeOK, NEW p \in Pubs, NEW to \in PubPlaces \ {"cvFirst", "cvCompleted"},
         NEW cvs \in SUBSET {"cvFirst", "cvCompleted"}, pc' = Notify(Goto(p, to), cvs)
  PROVE  pc'[p] = to /\ \A q \in Pubs : q # p => pc'[q] = pc[q]
<1>1. \A a \in Actors : Goto(p, to)[a] = IF a = p THEN to ELSE pc[a]
  BY DEF Goto, TypeOK, PlacesOK
<1>2. \A q \in Pubs : pc[q] \notin {"cvFirst", "cvCompleted"}
  BY DEF TypeOK, PlacesOK, PubPlaces
<1>3. \A q \in Pubs : Goto(p, to)[q] \notin cvs
  BY <1>1, <1>2, PubsAndSubs
<1>4. \A q \in Pubs : pc'[q] = Goto(p, to)[q]
  BY <1>3, PubsAndSubs DEF Notify
<1> QED
  BY <1>1, <1>4, PubsAndSubs

\* With Prompt clients an actor goes on when its side has left the transaction.
LEMMA PubTurn ==
  ASSUME Regular, NEW p \in Pubs, Turn(p), pc[p] \notin Returning \cup {"new"}
  PROVE  \A q \in Pubs : pc[q] \in Returning => begun[q] = 0
BY DEF Turn, Side, Regular

LEMMA SubTurn ==
  ASSUME Regular, NEW s \in Subs, Turn(s), pc[s] \notin Returning \cup {"new"}
  PROVE  \A r \in Subs : pc[r] \in Returning => begun[r] = 0
BY PubsAndSubs DEF Turn, Side, Regular

\* The quotas of everybody are kept by whoever does not begin.
LEMMA QuotasKept ==
  ASSUME Quotas, UNCHANGED <<begun, plan, canceledTx>>
  PROVE  Quotas'
BY DEF Quotas

-----------------------------------------------------------------------------
(* The rounds of the publishers                                             *)

\* What a move of publisher p alone between these places leaves unchanged.
Calm == {"new", "idle", "closeFlush"} \cup InRound

LEMMA CalmMove ==
  ASSUME RoundInv, NEW p \in Pubs, pc[p] \in Calm, pc'[p] \in Calm,
         \A q \in Pubs : q # p => pc'[q] = pc[q],
         completedPub' = completedPub
  PROVE  /\ (Committing' <=> Committing) /\ (Finishing' <=> Finishing)
         /\ Round' = Round
<1>1. \A q \in Pubs : \A place \in {"commit", "clearFlag"} \cup Serving :
        pc'[q] = place <=> pc[q] = place
  BY DEF Calm, InRound, Serving
<1>2. (Committing' <=> Committing) /\ (Finishing' <=> Finishing)
  BY <1>1 DEF Committing, Finishing, Serving
<1> QED
  BY <1>2 DEF Round

\* A publisher moves on within its round.
LEMMA AdvanceRound ==
  ASSUME TypeOK, RoundInv, NEW p \in Pubs,
         pc[p] \in InRound \ {"endBarrier"},
         pc'[p] \in InRound \ {"lock", "endBarrier"},
         \A q \in Pubs : q # p => pc'[q] = pc[q],
         pc[p] = "lock" => \A q \in Pubs : pc[q] \in Returning => begun[q] = 0,
         UNCHANGED <<begun, plan, completedPub, currentPub, pubInProgress,
                     publishers, pubBarrier>>
  PROVE  /\ PubInv' /\ ~Committing /\ ~Committing'
         /\ (Finishing' <=> Finishing)
<1>1. /\ (Committing' <=> Committing) /\ (Finishing' <=> Finishing)
      /\ Round' = Round
  BY CalmMove DEF Calm
<1>2. ~Committing
  BY DEF RoundInv, PubInv, PubRounds, InStep
<1>3. PubRounds'
  <2>1. InStep(p)'
    BY <1>1 DEF RoundInv, PubInv, PubRounds, InStep, InRound, Serving, Departing
  <2>2. ASSUME NEW q \in Pubs, q # p
        PROVE  InStep(q)'
    BY <1>1, <2>2 DEF RoundInv, PubInv, PubRounds, InStep
  <2> QED
    BY <2>1, <2>2 DEF PubRounds
<1>4. PubTogether'
  <2>1. \A q \in Pubs : pc[q] \in Returning => begun[q] = 0
    BY DEF RoundInv, PubInv, PubTogether
  <2>2. \A q \in Pubs : pc[q] \notin Serving
    BY DEF RoundInv, PubInv, PubTogether, InRound, Serving
  <2>3. pc'[p] \notin Serving \cup Returning
    BY DEF InRound, Serving, Returning
  <2> QED
    BY <2>1, <2>2, <2>3 DEF RoundInv, PubInv, PubTogether, Serving, Returning
<1>5. PubFlag'
  <2>1. \A q \in Pubs : /\ pc'[q] \in InRound <=> pc[q] \in InRound
                        /\ pc'[q] = "idle" <=> pc[q] = "idle"
                        /\ pc'[q] \in Departing <=> pc[q] \in Departing
    BY DEF InRound, Departing
  <2> QED
    BY <1>1, <2>1 DEF RoundInv, PubInv, PubFlag
<1>6. PubRegistered'
  <2>1. \A q \in Pubs :
          /\ pc'[q] \in {"new"} \cup Gone <=> pc[q] \in {"new"} \cup Gone
          /\ pc'[q] \in {"endBarrier"} \cup Serving <=>
               pc[q] \in {"endBarrier"} \cup Serving
    BY DEF InRound, Gone, Serving
  <2> QED
    BY <2>1 DEF RoundInv, PubInv, PubRegistered
<1> QED
  BY <1>1, <1>2, <1>3, <1>4, <1>5, <1>6 DEF PubInv

\* A publisher opens the stream, before anybody has begun.
LEMMA OpenRound ==
  ASSUME TypeOK, RoundInv, NEW p \in Pubs, Open(p)
  PROVE  /\ PubInv' /\ ~Committing /\ ~Committing' /\ currentPub = 0
         /\ \A q \in Pubs : pc[q] \in {"new", "idle"} /\ pc'[q] \in {"new", "idle"}
         /\ \A s \in Subs : pc'[s] = pc[s]
<1>1. /\ pc[p] = "new" /\ pc' = Goto(p, "idle")
      /\ publishers' = publishers \cup {p}
      /\ UNCHANGED <<begun, plan, currentPub, completedPub, pubInProgress,
                     pubBarrier>>
  BY DEF Open, At, client, pubSide
<1>2. /\ pc'[p] = "idle" /\ \A q \in Pubs : q # p => pc'[q] = pc[q]
      /\ \A s \in Subs : pc'[s] = pc[s]
  BY <1>1, GotoPub
<1>3. currentPub = 0
  BY <1>1, PubsAndSubs DEF RoundInv, MeetInv, Opened, TypeOK
<1>4. \A q \in Pubs : pc[q] \in {"new", "idle"}
  BY <1>3 DEF RoundInv, MeetInv, Opened
<1>5. \A q \in Pubs : pc'[q] \in {"new", "idle"}
  BY <1>2, <1>4
<1>6. ~Committing /\ ~Committing' /\ ~Finishing /\ ~Finishing'
  BY <1>4, <1>5 DEF Committing, Finishing, Serving
<1>7. Round' = Round
  BY <1>1, <1>6 DEF Round
<1>8. PubRounds'
  BY <1>1, <1>2, <1>4, <1>5, <1>6, <1>7
  DEF RoundInv, PubInv, PubRounds, InStep, InRound, Serving, Departing
<1>9. PubTogether'
  BY <1>5 DEF PubTogether, Serving, InRound
<1>10. PubFlag'
  BY <1>1, <1>4, <1>5, <1>6, <1>7
  DEF RoundInv, PubInv, PubFlag, InRound, Departing
<1>11. PubRegistered'
  <2>1. publishers' = {q \in Pubs : pc'[q] \notin {"new"} \cup Gone}
    BY <1>1, <1>2 DEF RoundInv, PubInv, PubRegistered, Gone
  <2> QED
    BY <1>1, <1>5, <2>1 DEF RoundInv, PubInv, PubRegistered, Serving
<1> QED
  BY <1>2, <1>3, <1>4, <1>5, <1>6, <1>8, <1>9, <1>10, <1>11 DEF PubInv

\* A publisher begins: it joins the round that is open, starts the next one, or
\* joins the one that is over when its flag is still set.
LEMMA BeginRound ==
  ASSUME TypeOK, RoundInv, NEW p \in Pubs, BeginPub(p)
  PROVE  /\ PubInv' /\ ~Committing /\ ~Committing'
         /\ pc[p] = "idle" /\ pc'[p] = "lock"
         /\ \A q \in Pubs : q # p => pc'[q] = pc[q]
         /\ \A q \in Pubs : q # p => begun'[q] = begun[q]
         /\ \A s \in Subs : begun'[s] = begun[s]
         /\ begun'[p] <= plan[p]
         /\ currentPub' >= currentPub /\ currentPub' > 0
         /\ (\E q \in Pubs : pc[q] \in Published) => currentPub' = currentPub
<1>0. /\ begun \in [Actors -> Nat] /\ completedPub \in Nat /\ currentPub \in Nat
      /\ plan \in [Actors -> Nat] /\ canceledTx = 0 /\ p \in Actors
      /\ pubInProgress \in BOOLEAN
  BY PubsAndSubs DEF TypeOK, RoundInv, MeetInv, Quotas
<1>1. pc[p] = "idle" /\ begun[p] < plan[p] /\ begun' = [begun EXCEPT ![p] = @ + 1]
  BY DEF BeginPub, Begins, At, RoundInv, PubInv, PubRounds, InStep
<1>2. /\ \A q \in Pubs : pc[q] \notin Serving
      /\ ~Committing
  BY <1>1 DEF RoundInv, PubInv, PubTogether, Serving, Committing
<1>3. begun[p] = completedPub /\ Round = completedPub
  BY <1>1, <1>2 DEF RoundInv, PubInv, PubRounds, InStep, Round
<1>4. \A q \in Pubs : pc[q] \notin Departing
  <2> SUFFICES ASSUME NEW q \in Pubs, pc[q] \in Departing
               PROVE  FALSE
    OBVIOUS
  <2>1. begun[q] = completedPub /\ begun[q] = plan[q]
    BY <1>3 DEF RoundInv, PubInv, PubRounds, InStep
  <2>2. plan[q] = plan[p]
    BY DEF RoundInv, MeetInv, Quotas
  <2> QED
    BY <1>0, <1>1, <1>3, <2>1, <2>2, PubsAndSubs
<1>5. currentPub = IF pubInProgress /\ ~Finishing THEN completedPub + 1
                                                  ELSE completedPub
  BY <1>3, <1>4 DEF RoundInv, PubInv, PubFlag
<1>6. ~Canceled(currentPub + 1)
  BY <1>0 DEF Canceled
<1>7. /\ pubInProgress' = TRUE /\ currentPub' = PubTx
      /\ \/ pc' = Goto(p, "lock")
         \/ pc' = Notify(Goto(p, "lock"), {"cvFirst"})
      /\ UNCHANGED <<plan, completedPub, publishers, pubBarrier>>
  BY <1>6 DEF BeginPub, registry
<1>8. pc'[p] = "lock" /\ \A q \in Pubs : q # p => pc'[q] = pc[q]
  BY <1>7, GotoPub, NotifyPub DEF PubPlaces
<1>9. /\ (Committing' <=> Committing) /\ (Finishing' <=> Finishing)
      /\ Round' = Round
  BY <1>1, <1>7, <1>8, CalmMove DEF Calm, InRound
<1>10. currentPub' = IF Finishing THEN completedPub ELSE completedPub + 1
  <2>1. Finishing => pubInProgress
    BY DEF RoundInv, PubInv, PubFlag
  <2> QED
    BY <1>5, <1>7, <2>1 DEF PubTx
<1>11. /\ begun'[p] = completedPub + 1
       /\ \A a \in Actors : a # p => begun'[a] = begun[a]
  BY <1>0, <1>1, <1>3
<1>12. PubRounds'
  <2>1. InStep(p)'
    BY <1>0, <1>2, <1>7, <1>8, <1>9, <1>11 DEF InStep, InRound, Serving, Departing
  <2>2. ASSUME NEW q \in Pubs, q # p
        PROVE  InStep(q)'
    BY <1>7, <1>8, <1>9, <1>11, <2>2, PubsAndSubs
    DEF RoundInv, PubInv, PubRounds, InStep
  <2> QED
    BY <2>1, <2>2 DEF PubRounds
<1>13. PubTogether'
  <2>1. \A q \in Pubs : pc'[q] \notin Serving
    BY <1>2, <1>8 DEF Serving
  <2>2. pc'[p] \notin Returning /\ pc'[p] \notin InRound \ {"lock"}
        /\ pc'[p] # "commit" /\ pc'[p] # "clearFlag"
    BY <1>8 DEF Returning
  <2>3. \A q \in Pubs : q # p => pc'[q] = pc[q] /\ begun'[q] = begun[q]
    BY <1>8, <1>11, PubsAndSubs
  <2>4. \A q \in Pubs : pc'[q] # "commit"
    BY <2>1 DEF Serving
  <2> QED
    BY <2>1, <2>2, <2>3, <2>4 DEF RoundInv, PubInv, PubTogether
<1>14. PubFlag'
  <2>1. \A q \in Pubs : pc'[q] \notin Departing
    BY <1>4, <1>8 DEF Departing
  <2> QED
    BY <1>3, <1>7, <1>9, <1>10, <2>1 DEF PubFlag
<1>15. PubRegistered'
  <2>1. \A q \in Pubs :
          /\ pc'[q] \in {"new"} \cup Gone <=> pc[q] \in {"new"} \cup Gone
          /\ pc'[q] \in {"endBarrier"} \cup Serving <=>
               pc[q] \in {"endBarrier"} \cup Serving
    BY <1>1, <1>8 DEF Gone, Serving
  <2> QED
    BY <1>7, <2>1 DEF RoundInv, PubInv, PubRegistered
<1>16. ASSUME NEW q \in Pubs, pc[q] \in Published
       PROVE  currentPub' = currentPub
  <2>1. pc[q] \in InRound \ {"lock"} /\ begun[p] = 0
    BY <1>1, <1>2, <1>16
    DEF Published, Serving, InRound, Returning, RoundInv, PubInv, PubTogether
  <2>2. \A r \in Pubs : pc[r] \in Returning => begun[r] = 0
    BY <2>1 DEF RoundInv, PubInv, PubTogether
  <2>3. pubInProgress
    BY <1>0, <2>1, <2>2 DEF RoundInv, PubInv, PubFlag, Returning
  <2> QED
    BY <1>7, <2>3 DEF PubTx
<1>17. currentPub' > 0
  <2>1. Finishing => completedPub > 0
    <3> SUFFICES ASSUME NEW q \in Pubs, pc[q] \in Serving \cup {"clearFlag"}
                 PROVE  completedPub > 0
      BY DEF Finishing
    <3>1. begun[q] = Round /\ begun[q] > 0
      BY DEF RoundInv, PubInv, PubRounds, InStep, Serving
    <3> QED
      BY <1>3, <3>1
  <2> QED
    BY <1>0, <1>10, <2>1
<1>18. begun'[p] <= plan[p]
  BY <1>0, <1>1, <1>3, <1>11
<1>19. currentPub' >= currentPub
  BY <1>0, <1>5, <1>10
<1> QED
  BY <1>1, <1>2, <1>8, <1>9, <1>11, <1>12, <1>13, <1>14, <1>15, <1>16, <1>17,
     <1>18, <1>19, PubsAndSubs DEF PubInv

\* An actor at the barrier of its side is one of the first there, and waits, or
\* the last one and goes on with all the others.
LEMMA ArriveAllOf ==
  ASSUME TypeOK, NEW side \in {Pubs, Subs}, NEW a \in side, pc[a] \notin AtBarrier,
         NEW at, NEW last, Arrive(a, side, Cardinality(side), at, last)
  PROVE  /\ \A b \in Actors \ side : pc'[b] = pc[b]
         /\ \/ pc'[a] = at /\ \A b \in side : b # a => pc'[b] = pc[b]
            \/ /\ pc'[a] = last
               /\ \A b \in side : b # a => pc[b] \in AtBarrier /\ pc'[b] = Resumed(b)
<1> DEFINE W == {b \in side : pc[b] \in AtBarrier}
<1>1. IsFiniteSet(side) /\ W \in SUBSET (side \ {a}) /\ side \subseteq Actors
  BY ActorsAssumption, PubsAndSubs
<1>2. /\ IsFiniteSet(side \ {a})
      /\ Cardinality(side \ {a}) = Cardinality(side) - 1
  BY <1>1, FS_RemoveElement
<1>3. /\ Cardinality(W) <= Cardinality(side \ {a})
      /\ Cardinality(W) = Cardinality(side \ {a}) => W = side \ {a}
      /\ IsFiniteSet(W)
  BY <1>1, <1>2, FS_Subset
<1>4. Cardinality(W) \in Nat /\ Cardinality(side) \in Nat
  BY <1>1, <1>3, FS_CardinalityType
<1>5. CASE Cardinality(W) + 1 < Cardinality(side)
  <2>1. pc' = Goto(a, at)
    BY <1>5 DEF Arrive
  <2> QED
    BY <1>1, <2>1 DEF Goto, TypeOK, PlacesOK
<1>6. CASE ~(Cardinality(W) + 1 < Cardinality(side))
  <2>1. W = side \ {a}
    BY <1>2, <1>3, <1>4, <1>6
  <2>2. pc' = [b \in Actors |-> IF b = a THEN last
                                ELSE IF b \in W THEN Resumed(b) ELSE pc[b]]
    BY <1>6 DEF Arrive
  <2>3. \A b \in Actors \ side : pc'[b] = pc[b]
    BY <2>2
  <2>4. pc'[a] = last /\ \A b \in side : b # a => b \in W /\ pc'[b] = Resumed(b)
    BY <1>1, <2>1, <2>2
  <2> QED
    BY <2>3, <2>4
<1> QED
  BY <1>5, <1>6

\* Nobody has left, or is past the end, while a publisher is inside the round.
LEMMA InsideRound ==
  ASSUME TypeOK, RoundInv, NEW p \in Pubs, pc[p] \in InRound,
         pc[p] = "lock" => \A q \in Pubs : pc[q] \in Returning => begun[q] = 0
  PROVE  /\ \A q \in Pubs : pc[q] \notin {"new"} \cup Serving \cup Departing
         /\ publishers = Pubs
         /\ begun[p] = completedPub + 1 /\ begun[p] <= plan[p]
         /\ pubInProgress /\ ~Finishing /\ currentPub = completedPub + 1
<1>1. /\ begun[p] = completedPub + 1 /\ ~Committing /\ begun[p] <= plan[p]
      /\ completedPub \in Nat /\ pubInProgress \in BOOLEAN
  BY DEF RoundInv, PubInv, PubRounds, InStep, MeetInv, Quotas, TypeOK
<1>2. ASSUME NEW q \in Pubs
      PROVE  pc[q] \notin {"new"} \cup Serving \cup Departing
  <2>1. pc[q] # "new"
    <3>1. currentPub # 0
      BY DEF RoundInv, MeetInv, Opened, InRound
    <3> QED
      BY <3>1, PubsAndSubs DEF RoundInv, MeetInv, Opened, TypeOK
  <2>2. pc[q] \notin Serving
    BY DEF RoundInv, PubInv, PubTogether, InRound, Serving
  <2>3. ASSUME pc[q] \in Departing
        PROVE  FALSE
    <3>1. begun[q] = completedPub /\ begun[q] = plan[q]
      BY <1>1, <2>3 DEF RoundInv, PubInv, PubRounds, InStep, Round
    <3>2. plan[q] = plan[p]
      BY DEF RoundInv, MeetInv, Quotas
    <3> QED
      BY <1>1, <3>1, <3>2
  <2> QED
    BY <2>1, <2>2, <2>3
<1>3. publishers = Pubs
  <2>1. \A q \in Pubs : pc[q] \notin {"new"} \cup Gone
    BY <1>2 DEF Gone, Departing
  <2> QED
    BY <2>1 DEF RoundInv, PubInv, PubRegistered
<1>4. \A q \in Pubs : pc[q] \in Returning => begun[q] = 0
  BY DEF RoundInv, PubInv, PubTogether
<1>5. pubInProgress
  BY <1>1, <1>4 DEF RoundInv, PubInv, PubFlag, Returning
<1>6. ~Finishing
  <2> SUFFICES ASSUME NEW q \in Pubs, pc[q] = "clearFlag"
               PROVE  FALSE
    BY <1>2 DEF Finishing
  <2>1. begun[q] > 0
    BY DEF RoundInv, PubInv, PubRounds, InStep
  <2> QED
    BY <1>4, <2>1 DEF Returning
<1> QED
  BY <1>1, <1>2, <1>3, <1>5, <1>6 DEF RoundInv, PubInv, PubFlag

\* A publisher ends its transaction: it waits for the others at the barrier,
\* or is the last one to come, completes it and serves it with the others.
LEMMA EndRound ==
  ASSUME Regular, TypeOK, RoundInv, NEW p \in Pubs, EndPub(p)
  PROVE  /\ PubInv' /\ ~Committing
         /\ \A s \in Subs : pc'[s] = pc[s]
         /\ \/ /\ pc[p] = "put" /\ pc'[p] = "endBarrier"
               /\ \A q \in Pubs : q # p => pc'[q] = pc[q]
            \/ /\ \A q \in Pubs : pc[q] \in {"put", "endBarrier"}
               /\ pc'[p] = "commit" /\ \A q \in Pubs : q # p => pc'[q] = "serve"
<1>1. /\ pc[p] = "put" /\ pc[p] \in InRound \ {"lock"}
      /\ pubBarrier' = BarrierFor(pubBarrier, publishers)
      /\ Arrive(p, Pubs, pubBarrier', "endBarrier", "commit")
      /\ UNCHANGED <<begun, plan, currentPub, completedPub, pubInProgress,
                     publishers>>
  BY DEF EndPub, At, InRound, client, pubSide
<1>2. /\ \A q \in Pubs : pc[q] \notin {"new"} \cup Serving \cup Departing
      /\ publishers = Pubs
      /\ pubInProgress /\ ~Finishing /\ currentPub = completedPub + 1
      /\ completedPub \in Nat
  BY <1>1, InsideRound DEF TypeOK
<1>3. pubBarrier' = Cardinality(Pubs) /\ Cardinality(Pubs) # 0
  <2>1. Cardinality(Pubs) # 0
    BY ActorsAssumption, FS_EmptySet DEF Regular
  <2> QED
    BY <1>1, <1>2, <2>1 DEF BarrierFor, RoundInv, PubInv, PubRegistered
<1>4. ~Committing
  BY <1>2 DEF Committing, Serving
<1>5. /\ \A s \in Subs : pc'[s] = pc[s]
      /\ \/ /\ pc'[p] = "endBarrier"
            /\ \A q \in Pubs : q # p => pc'[q] = pc[q]
         \/ /\ pc'[p] = "commit"
            /\ \A q \in Pubs : q # p => pc[q] \in AtBarrier /\ pc'[q] = Resumed(q)
  BY <1>1, <1>3, ArriveAllOf, PubsAndSubs DEF AtBarrier
<1>6. CASE pc'[p] = "endBarrier" /\ \A q \in Pubs : q # p => pc'[q] = pc[q]
  <2>1. ~Committing' /\ ~Finishing'
    BY <1>2, <1>6 DEF Committing, Finishing, Serving
  <2>2. Round' = Round
    BY <1>1, <1>4, <2>1 DEF Round
  <2>3. PubRounds'
    <3>1. InStep(p)'
      BY <1>1, <1>6, <2>1, <2>2
      DEF RoundInv, PubInv, PubRounds, InStep, InRound, Serving, Departing
    <3>2. ASSUME NEW q \in Pubs, q # p
          PROVE  InStep(q)'
      BY <1>1, <1>4, <1>6, <2>1, <2>2, <3>2 DEF RoundInv, PubInv, PubRounds, InStep
    <3> QED
      BY <3>1, <3>2 DEF PubRounds
  <2>4. PubTogether'
    <3>1. \A q \in Pubs : pc'[q] \notin Serving
      BY <1>2, <1>6 DEF Serving
    <3>2. \A q \in Pubs : pc[q] \in Returning => begun[q] = 0
      BY <1>1 DEF RoundInv, PubInv, PubTogether
    <3>3. pc'[p] \notin Returning
      BY <1>6 DEF Returning
    <3>4. \A q \in Pubs : pc'[q] # "commit"
      BY <3>1 DEF Serving
    <3>5. \A q \in Pubs : pc'[q] \in Returning => begun'[q] = 0
      BY <1>1, <1>6, <3>2, <3>3
    <3> QED
      BY <1>6, <3>1, <3>3, <3>4, <3>5
      DEF RoundInv, PubInv, PubTogether, Returning
  <2>5. PubFlag'
    BY <1>1, <1>2, <2>1 DEF PubFlag
  <2>6. PubRegistered'
    <3>1. \A q \in Pubs : pc'[q] \notin {"new"} \cup Gone
      BY <1>2, <1>6 DEF Gone, Departing
    <3> QED
      BY <1>1, <1>2, <1>3, <3>1 DEF PubRegistered
  <2> QED
    BY <1>1, <1>4, <1>5, <1>6, <2>3, <2>4, <2>5, <2>6 DEF PubInv
<1>7. CASE /\ pc'[p] = "commit"
           /\ \A q \in Pubs : q # p => pc[q] \in AtBarrier /\ pc'[q] = Resumed(q)
  <2>1. \A q \in Pubs : q # p => pc[q] = "endBarrier" /\ pc'[q] = "serve"
    BY <1>2, <1>7 DEF AtBarrier, Serving, Departing, Resumed
  <2>2. Committing' /\ Finishing' /\ Round' = completedPub + 1
    BY <1>1, <1>7 DEF Committing, Finishing, Round, Serving
  <2>3. PubRounds'
    <3>1. ASSUME NEW q \in Pubs
          PROVE  begun[q] = completedPub + 1 /\ begun[q] > 0
      <4>1. pc[q] \in {"put", "endBarrier"}
        BY <1>1, <2>1
      <4> QED
        BY <4>1 DEF RoundInv, PubInv, PubRounds, InStep, InRound
    <3>2. ASSUME NEW q \in Pubs
          PROVE  InStep(q)'
      BY <1>1, <1>7, <2>1, <2>2, <3>1 DEF InStep, InRound, Serving, Departing
    <3> QED
      BY <3>2 DEF PubRounds
  <2>4. PubTogether'
    BY <1>7, <2>1 DEF PubTogether, Serving, InRound
  <2>5. PubFlag'
    BY <1>1, <1>2, <1>7, <2>1, <2>2 DEF PubFlag, InRound
  <2>6. PubRegistered'
    <3>1. \A q \in Pubs : pc'[q] \notin {"new"} \cup Gone
      BY <1>7, <2>1 DEF Gone
    <3> QED
      BY <1>1, <1>2, <1>3, <3>1 DEF PubRegistered
  <2> QED
    BY <1>1, <1>4, <1>5, <1>7, <2>1, <2>3, <2>4, <2>5, <2>6 DEF PubInv
<1> QED
  BY <1>5, <1>6, <1>7


\* The last publisher at the barrier completes the transaction.
LEMMA CommitRound ==
  ASSUME TypeOK, RoundInv, NEW p \in Pubs, Commit(p)
  PROVE  /\ PubInv' /\ Committing /\ ~Committing' /\ pc[p] = "commit"
         /\ completedPub' = completedPub + 1 /\ completedPub = Received
         /\ currentPub = completedPub + 1 /\ plan[p] # completedPub
         /\ \A q \in Pubs : pc[q] \in {"commit", "serve"} /\ pc'[q] = "serve"
<1>1. /\ pc[p] = "commit"
      /\ UNCHANGED <<begun, plan, currentPub, pubInProgress, publishers, pubBarrier>>
      /\ completedPub \in Nat /\ begun[p] \in Nat /\ plan[p] \in Nat
  BY PubsAndSubs DEF Commit, At, client, registry, TypeOK
<1>2. /\ \A q \in Pubs : q # p => pc[q] = "serve"
      /\ Committing /\ Finishing /\ Round = completedPub + 1
  BY <1>1 DEF RoundInv, PubInv, PubTogether, Committing, Finishing, Serving, Round
<1>3. currentPub = completedPub + 1
  BY <1>1, <1>2 DEF RoundInv, PubInv, PubFlag, Departing
<1>4. /\ completedPub' = completedPub + 1
      /\ pc' = Notify(Goto(p, "serve"), {"cvCompleted"})
  BY <1>1, <1>3 DEF Commit, MustComplete
<1>5. \A q \in Pubs : pc'[q] = "serve"
  BY <1>2, <1>4, NotifyPub DEF PubPlaces
<1>6. completedPub = Received
  BY <1>1 DEF RoundInv, MeetInv, Meeting
<1>7. \A q \in Pubs : begun[q] = completedPub + 1 /\ begun[q] > 0
  BY <1>1, <1>2 DEF RoundInv, PubInv, PubRounds, InStep, Serving
<1>8. plan[p] # completedPub
  BY <1>1, <1>7 DEF RoundInv, MeetInv, Quotas
<1>9. ~Committing' /\ Finishing' /\ Round' = completedPub + 1
  BY <1>4, <1>5 DEF Committing, Finishing, Serving, Round
<1>10. PubRounds'
  BY <1>1, <1>4, <1>5, <1>7, <1>9
  DEF PubRounds, InStep, InRound, Serving, Departing
<1>11. PubTogether'
  BY <1>5 DEF PubTogether, Serving, InRound
<1>12. PubFlag'
  BY <1>1, <1>2, <1>3, <1>5, <1>9 DEF RoundInv, PubInv, PubFlag, InRound
<1>13. PubRegistered'
  BY <1>1, <1>2, <1>5 DEF RoundInv, PubInv, PubRegistered, Serving, Gone
<1> QED
  BY <1>1, <1>2, <1>3, <1>4, <1>5, <1>6, <1>8, <1>9, <1>10, <1>11, <1>12, <1>13
  DEF PubInv

\* A publisher has served everybody: it waits for the others, or is the last
\* one and leaves with them.
LEMMA EndServeRound ==
  ASSUME Regular, TypeOK, RoundInv, NEW p \in Pubs, EndServe(p)
  PROVE  /\ PubInv' /\ ~Committing /\ ~Committing' /\ completedPub > 0
         /\ pc[p] = "serve" /\ requests[p] = <<>> /\ Owing = {}
         /\ \A s \in Subs : pc'[s] = pc[s]
         /\ \A q \in Pubs : pc[q] \in {"serve", "overBarrier"}
         /\ \/ /\ pc'[p] = "overBarrier"
               /\ \A q \in Pubs : q # p => pc'[q] = pc[q]
            \/ /\ pc'[p] = "clearFlag"
               /\ \A q \in Pubs : q # p => pc[q] = "overBarrier" /\ pc'[q] = "idle"
<1>1. /\ pc[p] = "serve" /\ pending[p] = 0
      /\ Arrive(p, Pubs, pubBarrier, "overBarrier", "clearFlag")
      /\ UNCHANGED <<begun, plan, currentPub, completedPub, pubInProgress,
                     publishers, pubBarrier>>
      /\ requests[p] \in Seq(Request)
  BY DEF EndServe, At, client, registry, pubSide, TypeOK
<1>2. IsFiniteSet(Owing) /\ Cardinality(Owing) \in Nat /\ Cardinality(Subs) > 0
  <2>1. IsFiniteSet(Owing)
    BY ActorsAssumption, FS_Subset, FS_EmptySet DEF Owing
  <2>2. Cardinality(Subs) \in Nat /\ Cardinality(Subs) # 0
    BY ActorsAssumption, FS_CardinalityType, FS_EmptySet DEF Regular
  <2> QED
    BY <2>1, <2>2, FS_CardinalityType
<1>3. ~Committing
  BY <1>1, <1>2 DEF RoundInv, MeetInv, Balance
<1>4. requests[p] = <<>> /\ Owing = {}
  <2>1. 0 = Len(requests[p]) + Cardinality(Owing)
    BY <1>1, <1>3 DEF RoundInv, MeetInv, Balance
  <2>2. Len(requests[p]) = 0 /\ Cardinality(Owing) = 0
    BY <1>1, <1>2, <2>1
  <2> QED
    BY <1>1, <1>2, <2>2, FS_EmptySet
<1>5. \A q \in Pubs : pc[q] \in {"serve", "overBarrier"}
  <2>1. \A q \in Pubs : pc[q] \in Serving
    BY <1>1 DEF RoundInv, PubInv, PubTogether, Serving
  <2> QED
    BY <1>3, <2>1 DEF Serving, Committing
<1>6. pubBarrier = Cardinality(Pubs)
  BY <1>1 DEF RoundInv, PubInv, PubRegistered, Serving
<1>7. /\ \A s \in Subs : pc'[s] = pc[s]
      /\ \/ /\ pc'[p] = "overBarrier"
            /\ \A q \in Pubs : q # p => pc'[q] = pc[q]
         \/ /\ pc'[p] = "clearFlag"
            /\ \A q \in Pubs : q # p => pc[q] \in AtBarrier /\ pc'[q] = Resumed(q)
  BY <1>1, <1>6, ArriveAllOf, PubsAndSubs DEF AtBarrier
<1>8. \/ /\ pc'[p] = "overBarrier"
         /\ \A q \in Pubs : q # p => pc'[q] = pc[q]
      \/ /\ pc'[p] = "clearFlag"
         /\ \A q \in Pubs : q # p => pc[q] = "overBarrier" /\ pc'[q] = "idle"
  BY <1>5, <1>7 DEF AtBarrier, Resumed
<1>9. /\ \A q \in Pubs : pc'[q] \in {"serve", "overBarrier", "clearFlag", "idle"}
      /\ ~Committing' /\ Finishing /\ Finishing' /\ Round' = Round
      /\ Round = completedPub
  <2>1. \A q \in Pubs : pc'[q] \in {"serve", "overBarrier", "clearFlag", "idle"}
    BY <1>5, <1>8
  <2>2. ~Committing'
    BY <2>1 DEF Committing
  <2>3. Finishing /\ Finishing'
    BY <1>1, <1>8 DEF Finishing, Serving
  <2> QED
    BY <1>1, <1>3, <2>1, <2>2, <2>3 DEF Round
<1>10. \A q \in Pubs : begun[q] = completedPub /\ begun[q] > 0
  BY <1>5, <1>9 DEF RoundInv, PubInv, PubRounds, InStep, Serving
<1>11. PubRounds'
  BY <1>1, <1>9, <1>10 DEF PubRounds, InStep, InRound, Serving, Departing
<1>12. PubTogether'
  BY <1>5, <1>8 DEF PubTogether, Serving, InRound
<1>13. PubFlag'
  <2>1. \A q \in Pubs : pc[q] \notin Departing /\ pc'[q] \notin InRound
    BY <1>5, <1>9 DEF Departing, InRound
  <2> QED
    BY <1>1, <1>9, <2>1 DEF RoundInv, PubInv, PubFlag
<1>14. PubRegistered'
  <2>1. \A q \in Pubs : pc[q] \notin {"new"} \cup Gone /\ pc'[q] \notin {"new"} \cup Gone
    BY <1>5, <1>9 DEF Gone
  <2>2. Cardinality(Pubs) # 0
    BY ActorsAssumption, FS_EmptySet DEF Regular
  <2> QED
    BY <1>1, <1>6, <2>1, <2>2 DEF RoundInv, PubInv, PubRegistered
<1> QED
  BY <1>1, <1>3, <1>4, <1>5, <1>7, <1>8, <1>9, <1>10, <1>11, <1>12, <1>13, <1>14
  DEF PubInv

\* The last one to have left clears the flag: who begins from now on starts the
\* next transaction.
LEMMA ClearRound ==
  ASSUME TypeOK, RoundInv, NEW p \in Pubs, ClearPub(p)
  PROVE  /\ PubInv' /\ ~Committing /\ ~Committing'
         /\ pc[p] = "clearFlag" /\ pc'[p] = "idle"
         /\ \A q \in Pubs : q # p => pc'[q] = pc[q]
         /\ \A q \in Pubs : pc[q] \notin Serving
         /\ \A s \in Subs : pc'[s] = pc[s]
<1>1. /\ pc[p] = "clearFlag" /\ pc' = Goto(p, "idle") /\ pubInProgress' = FALSE
      /\ UNCHANGED <<begun, plan, currentPub, completedPub, publishers, pubBarrier>>
  BY DEF ClearPub, At, client, registry
<1>2. /\ pc'[p] = "idle" /\ \A q \in Pubs : q # p => pc'[q] = pc[q]
      /\ \A s \in Subs : pc'[s] = pc[s]
  BY <1>1, GotoPub
<1>3. \A q \in Pubs : pc[q] \notin Serving /\ pc'[q] \notin Serving
  BY <1>1, <1>2 DEF RoundInv, PubInv, PubTogether, Serving
<1>4. \A q \in Pubs : pc'[q] # "clearFlag"
  BY <1>1, <1>2 DEF RoundInv, PubInv, PubTogether
<1>5. ~Committing /\ ~Committing' /\ Finishing /\ ~Finishing'
  BY <1>1, <1>3, <1>4 DEF Committing, Finishing, Serving
<1>6. Round' = Round
  BY <1>1, <1>5 DEF Round
<1>7. PubRounds'
  <2>1. InStep(p)'
    BY <1>1, <1>2, <1>6
    DEF RoundInv, PubInv, PubRounds, InStep, InRound, Serving, Departing
  <2>2. ASSUME NEW q \in Pubs, q # p
        PROVE  InStep(q)'
    BY <1>1, <1>2, <1>5, <1>6, <2>2 DEF RoundInv, PubInv, PubRounds, InStep
  <2> QED
    BY <2>1, <2>2 DEF PubRounds
<1>8. PubTogether'
  <2>1. \A q \in Pubs : pc'[q] \in Returning <=> pc[q] \in Returning
    BY <1>1, <1>2 DEF Returning
  <2>2. \A q \in Pubs : pc'[q] \in InRound => pc[q] = pc'[q]
    BY <1>2 DEF InRound
  <2>3. \A q \in Pubs : pc'[q] # "commit"
    BY <1>3 DEF Serving
  <2> QED
    BY <1>1, <1>3, <1>4, <2>1, <2>2, <2>3 DEF RoundInv, PubInv, PubTogether
<1>9. PubFlag'
  <2>1. \A q \in Pubs : pc'[q] \in Departing <=> pc[q] \in Departing
    BY <1>1, <1>2 DEF Departing
  <2>2. begun[p] > 0
    BY <1>1 DEF RoundInv, PubInv, PubRounds, InStep
  <2> QED
    BY <1>1, <1>2, <1>5, <1>6, <2>1, <2>2 DEF RoundInv, PubInv, PubFlag
<1>10. PubRegistered'
  <2>1. \A q \in Pubs :
          /\ pc'[q] \in {"new"} \cup Gone <=> pc[q] \in {"new"} \cup Gone
          /\ pc'[q] \in {"endBarrier"} \cup Serving <=>
               pc[q] \in {"endBarrier"} \cup Serving
    BY <1>1, <1>2 DEF Gone, Serving
  <2> QED
    BY <1>1, <2>1 DEF RoundInv, PubInv, PubRegistered
<1> QED
  BY <1>1, <1>2, <1>3, <1>5, <1>7, <1>8, <1>9, <1>10 DEF PubInv

\* A publisher that has published all it planned leaves; nobody is inside a
\* round any more.
LEMMA DepartRound ==
  ASSUME Regular, TypeOK, RoundInv, NEW p \in Pubs,
         pc[p] \in {"idle", "closeFlush", "closeLast"}, begun[p] = plan[p],
         UNCHANGED <<begun, plan, completedPub, pubInProgress, pubBarrier>>,
         \/ pc[p] = "idle" /\ pc' = Goto(p, "closeFlush") /\ publishers' = publishers
         \/ /\ pc[p] \in {"idle", "closeFlush"} /\ publishers' = publishers \ {p}
            /\ ArriveToClose(p, Pubs, pubBarrier)
         \/ /\ pc[p] = "closeLast" /\ publishers' = publishers
            /\ pc'[p] = "closed" /\ \A q \in Pubs : q # p => pc'[q] = pc[q]
  PROVE  /\ PubInv' /\ ~Committing /\ ~Committing'
         /\ completedPub > 0 /\ currentPub > 0
         /\ \A q \in Pubs : plan[q] = completedPub
         /\ \A q \in Pubs : /\ pc[q] \in {"idle", "clearFlag"} \cup Departing
                            /\ pc'[q] \in {"idle", "clearFlag"} \cup Departing
<1>0. /\ completedPub \in Nat /\ currentPub \in Nat /\ pc[p] \notin AtBarrier
      /\ \A q \in Pubs : begun[q] \in Nat /\ plan[q] \in Nat
  BY PubsAndSubs DEF TypeOK, AtBarrier
<1>1. \A q \in Pubs : pc[q] \notin Serving
  BY DEF RoundInv, PubInv, PubTogether, Serving
<1>2. ~Committing /\ Round = completedPub
  BY <1>1 DEF Committing, Serving, Round
<1>3. begun[p] = completedPub /\ completedPub > 0 /\ \A q \in Pubs : plan[q] = completedPub
  <2>1. begun[p] = completedPub
    BY <1>2 DEF RoundInv, PubInv, PubRounds, InStep, Departing
  <2>2. plan[p] > 0 /\ \A q \in Pubs : plan[q] = plan[p]
    BY DEF RoundInv, MeetInv, Quotas
  <2> QED
    BY <2>1, <2>2
<1>4. \A q \in Pubs : pc[q] \notin InRound
  <2> SUFFICES ASSUME NEW q \in Pubs, pc[q] \in InRound
               PROVE  FALSE
    OBVIOUS
  <2>1. begun[q] = completedPub + 1
    BY DEF RoundInv, PubInv, PubRounds, InStep
  <2>2. begun[q] <= plan[q]
    BY DEF RoundInv, MeetInv, Quotas
  <2> QED
    BY <1>0, <1>3, <2>1, <2>2
<1>5. currentPub > 0
  <2>1. CASE \A q \in Pubs : pc[q] \notin Departing
    BY <1>0, <1>2, <1>3, <2>1 DEF RoundInv, PubInv, PubFlag
  <2>2. CASE ~(\A q \in Pubs : pc[q] \notin Departing)
    BY <1>0, <2>2 DEF RoundInv, MeetInv, Opened, Departing
  <2> QED
    BY <2>1, <2>2
<1>6. \A q \in Pubs : pc[q] \in {"idle", "clearFlag"} \cup Departing
  <2> SUFFICES ASSUME NEW q \in Pubs
               PROVE  pc[q] \in {"idle", "clearFlag"} \cup Departing
    OBVIOUS
  <2>1. pc[q] # "new" /\ pc[q] \notin {"canceled", "crashed"} /\ pc[q] \in PubPlaces
    BY <1>5, PubsAndSubs
    DEF RoundInv, MeetInv, Opened, PubInv, PubRounds, InStep, TypeOK, PlacesOK
  <2> QED
    BY <1>1, <1>4, <2>1 DEF PubPlaces, InRound, Serving, Departing
<1>7. pubBarrier = Cardinality(Pubs) /\ pubBarrier # 0
  BY <1>3 DEF RoundInv, PubInv, PubRegistered
<1>8. /\ pc'[p] \in Departing
      /\ \A q \in Pubs : q # p =>
           \/ pc'[q] = pc[q]
           \/ pc[q] = "closeBarrier" /\ pc'[q] = "closed"
      /\ publishers' = IF pc'[p] \in Gone THEN publishers \ {p} ELSE publishers
  <2>1. CASE pc[p] = "idle" /\ pc' = Goto(p, "closeFlush") /\ publishers' = publishers
    <3>1. pc'[p] = "closeFlush" /\ \A q \in Pubs : q # p => pc'[q] = pc[q]
      BY <2>1, GotoPub
    <3> QED
      BY <2>1, <3>1 DEF Departing, Gone
  <2>2. CASE publishers' = publishers \ {p} /\ ArriveToClose(p, Pubs, pubBarrier)
    <3>1. Arrive(p, Pubs, Cardinality(Pubs), "closeBarrier", "closeLast")
      BY <1>7, <2>2 DEF ArriveToClose
    <3>2. \/ pc'[p] = "closeBarrier" /\ \A q \in Pubs : q # p => pc'[q] = pc[q]
          \/ /\ pc'[p] = "closeLast"
             /\ \A q \in Pubs : q # p => pc[q] \in AtBarrier /\ pc'[q] = Resumed(q)
      BY <1>0, <3>1, ArriveAllOf
    <3>3. \A q \in Pubs : pc[q] \in AtBarrier => pc[q] = "closeBarrier" /\ Resumed(q) = "closed"
      BY <1>6 DEF AtBarrier, Departing, Resumed
    <3> QED
      BY <2>2, <3>2, <3>3 DEF Departing, Gone
  <2>3. CASE /\ pc[p] = "closeLast" /\ publishers' = publishers
             /\ pc'[p] = "closed" /\ \A q \in Pubs : q # p => pc'[q] = pc[q]
    <3>1. p \notin publishers
      BY <2>3 DEF RoundInv, PubInv, PubRegistered, Gone
    <3> QED
      BY <2>3, <3>1 DEF Departing, Gone
  <2> QED
    BY <2>1, <2>2, <2>3
<1>9. \A q \in Pubs : pc'[q] \in {"idle", "clearFlag"} \cup Departing
  BY <1>6, <1>8 DEF Departing
<1>10. ~Committing' /\ (Finishing' => Finishing) /\ Round' = Round
  <2>1. ~Committing'
    BY <1>9 DEF Committing, Departing
  <2>2. \A q \in Pubs : pc'[q] \in Serving \cup {"clearFlag"} => pc[q] = "clearFlag"
    BY <1>8, <1>9 DEF Serving, Departing
  <2> QED
    BY <1>2, <2>1, <2>2 DEF Finishing, Round
<1>11. PubRounds'
  <2>1. \A q \in Pubs : /\ pc[q] \in Departing => begun[q] = plan[q]
                        /\ begun[q] = completedPub
    BY <1>2, <1>6 DEF RoundInv, PubInv, PubRounds, InStep
  <2>2. \A q \in Pubs : pc'[q] \in Departing => q = p \/ pc[q] \in Departing
    BY <1>8 DEF Departing
  <2> QED
    BY <1>2, <1>3, <1>9, <1>10, <2>1, <2>2
    DEF PubRounds, InStep, InRound, Serving, Departing
<1>12. PubTogether'
  <2>1. \A q \in Pubs : pc'[q] \notin Serving \cup InRound
    BY <1>9 DEF Serving, InRound, Departing
  <2>2. \A q \in Pubs : pc'[q] = "clearFlag" => pc[q] = "clearFlag"
    BY <1>8 DEF Departing
  <2>3. \A q \in Pubs : pc'[q] # "commit"
    BY <2>1 DEF Serving
  <2> QED
    BY <2>1, <2>2, <2>3 DEF RoundInv, PubInv, PubTogether
<1>13. PubFlag'
  <2>1. \A q \in Pubs : pc'[q] \notin InRound
    BY <1>9 DEF InRound, Departing
  <2> QED
    BY <1>8, <1>10, <2>1 DEF RoundInv, PubInv, PubFlag
<1>14. PubRegistered'
  <2>1. ASSUME NEW q \in Pubs
        PROVE  q \in publishers' <=> pc'[q] \notin {"new"} \cup Gone
    <3>1. q \in publishers <=> pc[q] \notin {"new"} \cup Gone
      BY DEF RoundInv, PubInv, PubRegistered
    <3>2. CASE q = p
      BY <1>8, <3>1, <3>2 DEF Gone, Departing
    <3>3. CASE q # p
      BY <1>8, <3>1, <3>3 DEF Gone
    <3> QED
      BY <3>2, <3>3
  <2>2. publishers' \subseteq Pubs
    BY <1>8 DEF TypeOK
  <2> QED
    BY <1>7, <2>1, <2>2 DEF PubRegistered
<1> QED
  BY <1>2, <1>3, <1>5, <1>6, <1>9, <1>10, <1>11, <1>12, <1>13, <1>14 DEF PubInv

-----------------------------------------------------------------------------
(* The steps of the publishers                                              *)

\* What no step of a publisher touches.
LEMMA PubFrame ==
  ASSUME TypeOK, NEW p \in Pubs, PubStep(p)
  PROVE  /\ UNCHANGED <<plan, subSide, subscribers, subBarrier, rdv, canceledTx>>
         /\ ~BeginPub(p) => begun' = begun
         /\ ~CloseLastPub(p) => pubStreamEnded' = pubStreamEnded
         /\ CloseLastPub(p) => pubStreamEnded'
         /\ \A s \in Subs : Waits(s)
         /\ \A s \in Subs : begun'[s] = begun[s]
<1>1. UNCHANGED <<plan, subSide, subscribers, subBarrier, rdv, canceledTx>>
  BY PubsAndSubs
  DEF PubStep, Open, BeginPub, LockPub, Recheck, Flush, Put, EndPub, Commit, Serve,
      EndServe, ClearPub, ClosePub, CloseFlushPub, CloseLastPub, LeavePub, client,
      registry, status, transport, messages
<1>2. /\ ~BeginPub(p) => begun' = begun
      /\ ~CloseLastPub(p) => pubStreamEnded' = pubStreamEnded
      /\ CloseLastPub(p) => pubStreamEnded'
  BY DEF PubStep, Open, LockPub, Recheck, Flush, Put, EndPub, Commit, Serve,
         EndServe, ClearPub, ClosePub, CloseFlushPub, CloseLastPub, client, status,
         BeginPub
<1>3. BeginPub(p) => \A s \in Subs : begun'[s] = begun[s]
  BY PubsAndSubs DEF BeginPub, Begins, TypeOK
<1> QED
  BY <1>1, <1>2, <1>3, PubMoves DEF TypeOK

\* When a publisher moves outside the part of the round in which it publishes.
LEMMA PubKeepsMeeting ==
  ASSUME TypeOK, RoundInv, Received' = Received,
         \A s \in Subs : pc'[s] \in Got <=> pc[s] \in Got,
         ~Committing, ~Committing',
         UNCHANGED <<plan, completedPub, pending, requests>>,
         pubStreamEnded' => pubStreamEnded \/ \A p \in Pubs : plan[p] = completedPub,
         AllOver(puts) => AllOver(puts'),
         \A p \in Pubs :
           \/ pc'[p] = pc[p]
           \/ /\ pc[p] \notin Published /\ pc'[p] \notin Published
              /\ pc'[p] = "tx" => completedPub = Received
              /\ pc'[p] \in {"cvStarted", "recheck", "tx"} => AllOver(puts')
  PROVE  Meeting' /\ Balance' /\ Arrived'
<1>1. Meeting'
  <2>1. (\E p \in Pubs : pc'[p] # "serve") =>
          completedPub = Received \/ \A s \in Subs : pc'[s] \in Got
    BY DEF RoundInv, MeetInv, Meeting, Published
  <2>2. \A p \in Pubs : pc'[p] \in {"tx", "put", "endBarrier", "commit"} =>
          completedPub = Received
    BY DEF RoundInv, MeetInv, Meeting, Published
  <2> QED
    BY <2>1, <2>2 DEF RoundInv, MeetInv, Meeting
<1>2. Owing' = Owing
  BY DEF Owing
<1>3. Balance'
  BY <1>2 DEF RoundInv, MeetInv, Balance, Published
<1>4. Arrived'
  BY DEF RoundInv, MeetInv, Arrived, Published
<1> QED
  BY <1>1, <1>3, <1>4

LEMMA OpenPubKeeps ==
  ASSUME Regular, TypeOK, RoundInv, NEW p \in Pubs, Open(p)
  PROVE  RoundInv'
<1>1. /\ PubInv' /\ ~Committing /\ ~Committing' /\ currentPub = 0
      /\ \A q \in Pubs : pc[q] \in {"new", "idle"} /\ pc'[q] \in {"new", "idle"}
      /\ \A s \in Subs : pc'[s] = pc[s]
  BY OpenRound
<1>2. PubStep(p) /\ ~BeginPub(p)
  BY <1>1 DEF PubStep, BeginPub, Begins, Open, At, RoundInv, PubInv, PubRounds, InStep
<1>3. UNCHANGED <<begun, plan, canceledTx, currentPub, completedPub, currentSub,
                  pubStreamEnded, pending, requests, blocks, puts>>
  BY DEF Open, client, pubSide, subSide, status, transport, messages, activities
<1>4. /\ SubInv' /\ Received' = Received
      /\ \A s \in Subs : pc'[s] \in Got <=> pc[s] \in Got
  BY <1>2, <1>3, PubFrame, SubsUndisturbed
<1>5. Quotas'
  BY <1>3, QuotasKept DEF RoundInv, MeetInv
<1>6. Opened'
  BY <1>1, <1>3 DEF RoundInv, MeetInv, Opened
<1>7. Recorded'
  BY <1>1, <1>3 DEF RoundInv, MeetInv, Recorded, Published
<1>8. Meeting' /\ Balance' /\ Arrived'
  BY <1>1, <1>3, <1>4, PubKeepsMeeting DEF Published
<1> QED
  BY <1>1, <1>4, <1>5, <1>6, <1>7, <1>8 DEF RoundInv, MeetInv

LEMMA BeginPubKeeps ==
  ASSUME Regular, TypeOK, RoundInv, NEW p \in Pubs, BeginPub(p)
  PROVE  RoundInv'
<1>1. /\ PubInv' /\ ~Committing /\ ~Committing'
      /\ pc[p] = "idle" /\ pc'[p] = "lock"
      /\ \A q \in Pubs : q # p => pc'[q] = pc[q] /\ begun'[q] = begun[q]
      /\ begun'[p] <= plan[p]
      /\ currentPub' >= currentPub /\ currentPub' > 0
      /\ (\E q \in Pubs : pc[q] \in Published) => currentPub' = currentPub
  BY BeginRound
<1>2. /\ UNCHANGED <<plan, canceledTx, completedPub, currentSub, pubStreamEnded,
                     pending, requests, blocks, puts>>
      /\ Gathered /\ currentPub = 0 =>
           (publishers = Pubs /\ \A s \in Subs : pc[s] = "cvFirst")
      /\ PubStep(p)
  BY <1>1, Zenon
  DEF PubStep, BeginPub, subSide, status, transport, messages, activities, Canceled,
      pubSide, Goto
<1>3. /\ \A s \in Subs : Waits(s) /\ begun'[s] = begun[s]
      /\ SubInv' /\ Received' = Received
      /\ \A s \in Subs : pc'[s] \in Got <=> pc[s] \in Got
  BY <1>2, PubFrame, SubsUndisturbed
<1>4. Quotas'
  <2>1. \A q \in Pubs : begun'[q] <= plan[q]
    BY <1>1 DEF RoundInv, MeetInv, Quotas
  <2> QED
    BY <1>2, <1>3, <2>1 DEF RoundInv, MeetInv, Quotas
<1>5. Opened'
  <2>1. currentPub \in Nat
    BY DEF TypeOK
  <2>2. \A s \in Subs : pc'[s] # "new" /\ begun[s] > 0
    <3>1. CASE currentPub > 0
      BY <1>3, <3>1, PubsAndSubs DEF RoundInv, MeetInv, Opened, Waits, Wakes
    <3>2. CASE currentPub = 0
      <4>1. \A s \in Subs : pc[s] = "cvFirst"
        BY <1>2, <3>2 DEF Regular
      <4>2. \A s \in Subs : begun[s] = Received + 1 /\ Received = 0
        BY <4>1 DEF RoundInv, SubInv, SubRounds, KeepsPace, First
      <4> QED
        BY <1>3, <4>1, <4>2 DEF Waits, Wakes
    <3> QED
      BY <2>1, <3>1, <3>2
  <2>3. \A q \in Pubs : pc'[q] # "new"
    <3>1. CASE currentPub > 0
      BY <1>1, <3>1, PubsAndSubs DEF RoundInv, MeetInv, Opened
    <3>2. CASE currentPub = 0
      <4>1. publishers = Pubs
        BY <1>2, <3>2 DEF Regular
      <4> QED
        BY <1>1, <4>1 DEF RoundInv, PubInv, PubRegistered
    <3> QED
      BY <2>1, <3>1, <3>2
  <2>4. \A a \in Actors : pc'[a] # "new" /\ (a \in Subs => begun'[a] > 0)
    BY <1>3, <2>2, <2>3 DEF Actors
  <2> QED
    BY <1>1, <2>4 DEF Opened
<1>6. Recorded'
  <2>1. currentPub \in Nat /\ currentPub' \in Nat /\ \A b \in blocks : b[1] \in Nat
    <3>1. currentPub' \in Nat
      BY <1>2 DEF BeginPub, PubTx, TypeOK, pubSide
    <3> QED
      BY <3>1 DEF TypeOK
  <2>2. \A b \in blocks' : b[1] <= currentPub'
    BY <1>1, <1>2, <2>1 DEF RoundInv, MeetInv, Recorded
  <2>3. \A q \in Pubs : pc'[q] \in Published => q # p /\ pc[q] \in Published
    BY <1>1 DEF Published
  <2> QED
    BY <1>1, <1>2, <2>2, <2>3 DEF RoundInv, MeetInv, Recorded
<1>7. Meeting' /\ Balance' /\ Arrived'
  BY <1>1, <1>2, <1>3, PubKeepsMeeting DEF Published
<1> QED
  BY <1>1, <1>3, <1>4, <1>5, <1>6, <1>7 DEF RoundInv, MeetInv

\* A publisher waits for the previous transaction, then for the subscribers.
LEMMA AwaitSubsKeeps ==
  ASSUME Regular, TypeOK, AbortedOnlyByCancel, RoundInv, NEW p \in Pubs,
         LockPub(p) \/ Recheck(p) \/ Flush(p)
  PROVE  RoundInv'
<1>1. /\ pc[p] \in {"lock", "recheck", "flush"} /\ Turn(p)
      /\ UNCHANGED <<begun, plan, canceledTx, currentPub, completedPub, currentSub,
                     pubInProgress, publishers, pubBarrier, pubStreamEnded,
                     pending, requests, blocks>>
      /\ ~BeginPub(p) /\ PubStep(p)
  BY DEF LockPub, Recheck, Flush, At, client, registry, subSide, status, transport,
         messages, BeginPub, Begins, PubStep, RoundInv, PubInv, PubRounds, InStep
<1>2. \A q \in Pubs : pc[q] \in Returning => begun[q] = 0
  BY <1>1, PubTurn DEF Returning
<1>3. /\ \A q \in Pubs : pc[q] \notin {"new"} \cup Serving \cup Departing
      /\ currentPub = completedPub + 1 /\ begun[p] = completedPub + 1
  BY <1>1, <1>2, InsideRound DEF InRound
<1>4. /\ canceledTx = 0 /\ ~pubAborted /\ completedPub \in Nat /\ currentSub \in Nat
      /\ pubAborted \in BOOLEAN
  BY DEF TypeOK, RoundInv, MeetInv, Quotas, AbortedOnlyByCancel
<1>5. PubWaitOutcome \in {"cvStarted", "tx"}
      /\ (PubWaitOutcome = "tx" => completedPub = Received)
  <2>1. ~Canceled(currentPub)
    BY <1>3, <1>4 DEF Canceled
  <2>2. PubWaitOutcome = "tx" => currentPub <= currentSub
    BY <1>3, <1>4, <2>1 DEF PubWaitOutcome, MustAwaitSubs
  <2>3. completedPub \in {Received, Received + 1}
    BY DEF RoundInv, MeetInv, Meeting
  <2>4. Received \in Nat /\ (Received = currentSub \/ Received = currentSub - 1)
    BY ReceivedType DEF RoundInv, SubInv
  <2> QED
    BY <1>3, <1>4, <2>1, <2>2, <2>3, <2>4 DEF PubWaitOutcome, MustAwaitSubs
<1>6. /\ puts' = puts /\ (AllOver(puts) => AllOver(puts'))
      /\ \/ pc' = Goto(p, "flush") /\ pc[p] = "lock"
         \/ pc' = Goto(p, PubWaitOutcome) /\ AllOver(puts)
  <2>1. CASE LockPub(p)
    <3>1. currentPub <= 1 => completedPub = 0
      BY <1>3, <1>4
    <3>2. completedPub = 0 => AllOver(puts)
      BY DEF RoundInv, MeetInv, Arrived
    <3> QED
      BY <1>3, <1>4, <2>1, <3>1, <3>2
      DEF LockPub, At, AwaitSubs, transport, activities
  <2>2. CASE Recheck(p)
    BY <2>2 DEF Recheck, At, AwaitSubs, transport, activities, RoundInv, MeetInv, Arrived
  <2>3. CASE Flush(p)
    BY <1>4, <2>3 DEF Flush, At, AwaitSubs, activities, PreviousOver
  <2> QED
    BY <1>1, <2>1, <2>2, <2>3
<1>7. /\ pc'[p] \in {"flush", "cvStarted", "tx"}
      /\ pc'[p] = "tx" => completedPub = Received
      /\ pc'[p] # "flush" => AllOver(puts')
      /\ \A q \in Pubs : q # p => pc'[q] = pc[q]
      /\ \A s \in Subs : pc'[s] = pc[s]
  BY <1>5, <1>6, GotoPub
<1>8. PubInv' /\ ~Committing /\ ~Committing'
  BY <1>1, <1>2, <1>7, AdvanceRound DEF InRound
<1>9. /\ SubInv' /\ Received' = Received
      /\ \A s \in Subs : pc'[s] \in Got <=> pc[s] \in Got
  BY <1>1, PubFrame, SubsUndisturbed
<1>10. Quotas'
  BY <1>1, QuotasKept DEF RoundInv, MeetInv
<1>11. Opened'
  <2>1. currentPub > 0
    BY <1>3, <1>4
  <2>2. \A a \in Actors : pc'[a] # "new"
    BY <1>7, <2>1 DEF RoundInv, MeetInv, Opened, Actors
  <2> QED
    BY <1>1, <2>1, <2>2 DEF RoundInv, MeetInv, Opened
<1>12. Recorded'
  BY <1>1, <1>7 DEF RoundInv, MeetInv, Recorded, Published
<1>13. Meeting' /\ Balance' /\ Arrived'
  BY <1>1, <1>6, <1>7, <1>8, <1>9, PubKeepsMeeting DEF Published
<1> QED
  BY <1>8, <1>9, <1>10, <1>11, <1>12, <1>13 DEF RoundInv, MeetInv

LEMMA PutKeeps ==
  ASSUME Regular, TypeOK, RoundInv, NEW p \in Pubs, Put(p)
  PROVE  RoundInv'
<1>1. /\ pc[p] = "tx" /\ pc' = Goto(p, "put")
      /\ blocks' = blocks \cup {<<currentPub, p>>}
      /\ pending' = [pending EXCEPT ![p] = @ + Cardinality(subscribers)]
      /\ UNCHANGED <<begun, plan, canceledTx, currentPub, completedPub, currentSub,
                     pubInProgress, publishers, pubBarrier, pubStreamEnded,
                     requests, puts>>
      /\ ~BeginPub(p) /\ PubStep(p)
  BY DEF Put, At, client, registry, pubSide, subSide, status, activities,
         ExpectedRequests, BeginPub, Begins, PubStep
<1>2. /\ pc'[p] = "put"
      /\ \A q \in Pubs : q # p => pc'[q] = pc[q]
      /\ \A s \in Subs : pc'[s] = pc[s]
  BY <1>1, GotoPub
<1>3. /\ begun[p] = completedPub + 1 /\ begun[p] <= plan[p] /\ completedPub \in Nat
      /\ currentPub = completedPub + 1
  BY <1>1, InsideRound DEF InRound, TypeOK
<1>4. PubInv' /\ ~Committing /\ ~Committing'
  BY <1>1, <1>2, AdvanceRound DEF InRound
<1>5. /\ SubInv' /\ Received' = Received
      /\ \A s \in Subs : pc'[s] \in Got <=> pc[s] \in Got
  BY <1>1, PubFrame, SubsUndisturbed
<1>6. completedPub = Received
  BY <1>1 DEF RoundInv, MeetInv, Meeting
<1>7. subscribers = Subs
  <2>1. ASSUME NEW s \in Subs, pc[s] \in {"new"} \cup Gone
        PROVE  FALSE
    <3>1. pc[s] # "new"
      BY <1>3, PubsAndSubs DEF RoundInv, MeetInv, Opened
    <3>2. plan[p] = completedPub
      BY <2>1, <3>1 DEF RoundInv, SubInv, SubRounds, KeepsPace, Gone, Leaving
    <3> QED
      BY <1>3, <3>2
  <2> QED
    BY <2>1 DEF RoundInv, SubInv, SubRegistered
<1>8. Quotas'
  BY <1>1, QuotasKept DEF RoundInv, MeetInv
<1>9. Opened'
  <2>1. \A a \in Actors : pc'[a] # "new"
    BY <1>2, <1>3 DEF RoundInv, MeetInv, Opened, Actors
  <2> QED
    BY <1>1, <1>3, <2>1 DEF RoundInv, MeetInv, Opened
<1>10. Recorded'
  <2>1. \A b \in blocks' : b[1] <= currentPub
    BY <1>1, <1>3 DEF RoundInv, MeetInv, Recorded
  <2> QED
    BY <1>1, <1>2, <2>1 DEF RoundInv, MeetInv, Recorded
<1>11. Meeting'
  BY <1>1, <1>2, <1>5, <1>6 DEF RoundInv, MeetInv, Meeting
<1>12. Balance'
  <2>1. Owing' = Owing
    BY <1>1, <1>5 DEF Owing
  <2>2. /\ pending[p] = 0 /\ requests[p] = <<>> /\ pending \in [Pubs -> Nat]
        /\ Cardinality(Subs) \in Nat
    BY <1>1, ActorsAssumption, FS_CardinalityType
    DEF RoundInv, MeetInv, Balance, Published, TypeOK
  <2>3. /\ pending'[p] = Cardinality(Subs) /\ requests'[p] = <<>>
        /\ \A q \in Pubs : q # p => pending'[q] = pending[q]
    BY <1>1, <1>7, <2>2
  <2> QED
    BY <1>1, <1>2, <1>4, <2>1, <2>3 DEF RoundInv, MeetInv, Balance, Published
<1>13. Arrived'
  BY <1>1, <1>2 DEF RoundInv, MeetInv, Arrived
<1> QED
  BY <1>4, <1>5, <1>8, <1>9, <1>10, <1>11, <1>12, <1>13 DEF RoundInv, MeetInv

LEMMA EndPubKeeps ==
  ASSUME Regular, TypeOK, RoundInv, NEW p \in Pubs, EndPub(p)
  PROVE  RoundInv'
<1>1. /\ pc[p] = "put"
      /\ UNCHANGED <<begun, plan, canceledTx, currentPub, completedPub, currentSub,
                     pubStreamEnded, blocks, pending, requests, puts>>
      /\ ~BeginPub(p) /\ PubStep(p)
  BY DEF EndPub, At, client, pubSide, subSide, status, transport, messages,
         activities, BeginPub, Begins, PubStep
<1>2. /\ PubInv' /\ ~Committing
      /\ \A s \in Subs : pc'[s] = pc[s]
      /\ \/ /\ pc[p] = "put" /\ pc'[p] = "endBarrier"
            /\ \A q \in Pubs : q # p => pc'[q] = pc[q]
         \/ /\ \A q \in Pubs : pc[q] \in {"put", "endBarrier"}
            /\ pc'[p] = "commit" /\ \A q \in Pubs : q # p => pc'[q] = "serve"
  BY EndRound
<1>3. /\ SubInv' /\ Received' = Received
      /\ \A s \in Subs : pc'[s] \in Got <=> pc[s] \in Got
  BY <1>1, PubFrame, SubsUndisturbed
<1>4. Quotas'
  BY <1>1, QuotasKept DEF RoundInv, MeetInv
<1>5. currentPub > 0 /\ Opened'
  <2>1. currentPub > 0
    <3>1. currentPub # 0 /\ currentPub \in Nat
      BY <1>1 DEF RoundInv, MeetInv, Opened, TypeOK
    <3> QED
      BY <3>1
  <2>2. \A a \in Actors : pc'[a] # "new"
    BY <1>2, <2>1 DEF RoundInv, MeetInv, Opened, Actors
  <2> QED
    BY <1>1, <2>1, <2>2 DEF RoundInv, MeetInv, Opened
<1>6. Recorded'
  BY <1>1, <1>2 DEF RoundInv, MeetInv, Recorded, Published
<1>7. completedPub = Received
  BY <1>1 DEF RoundInv, MeetInv, Meeting
<1>8. Meeting'
  BY <1>1, <1>3, <1>7 DEF RoundInv, MeetInv, Meeting
<1>9. Owing' = Owing
  BY <1>1, <1>3 DEF Owing
<1>10. Balance' /\ Arrived'
  <2>1. CASE /\ pc'[p] = "endBarrier"
             /\ \A q \in Pubs : q # p => pc'[q] = pc[q]
    <3>1. ~Committing'
      BY <1>2, <2>1 DEF Committing
    <3>2. Balance'
      BY <1>1, <1>2, <1>9, <2>1, <3>1 DEF RoundInv, MeetInv, Balance, Published
    <3> QED
      BY <1>1, <2>1, <3>2 DEF RoundInv, MeetInv, Arrived
  <2>2. CASE /\ \A q \in Pubs : pc[q] \in {"put", "endBarrier"}
             /\ pc'[p] = "commit" /\ \A q \in Pubs : q # p => pc'[q] = "serve"
    <3>1. Committing'
      BY <2>2 DEF Committing
    <3>2. Balance'
      BY <1>1, <2>2, <3>1 DEF RoundInv, MeetInv, Balance, Published
    <3> QED
      BY <1>1, <2>2, <3>2 DEF RoundInv, MeetInv, Arrived
  <2> QED
    BY <1>2, <2>1, <2>2
<1> QED
  BY <1>2, <1>3, <1>4, <1>5, <1>6, <1>8, <1>10 DEF RoundInv, MeetInv

LEMMA CommitKeeps ==
  ASSUME Regular, TypeOK, RoundInv, NEW p \in Pubs, Commit(p)
  PROVE  RoundInv'
<1>1. /\ UNCHANGED <<begun, plan, canceledTx, currentPub, currentSub, pubStreamEnded,
                     blocks, pending, requests, puts>>
      /\ ~BeginPub(p) /\ PubStep(p)
  BY DEF Commit, At, client, subSide, status, transport, messages, activities,
         BeginPub, Begins, PubStep
<1>2. /\ PubInv' /\ Committing /\ ~Committing' /\ pc[p] = "commit"
      /\ completedPub' = completedPub + 1 /\ completedPub = Received
      /\ currentPub = completedPub + 1 /\ plan[p] # completedPub
      /\ \A q \in Pubs : pc[q] \in {"commit", "serve"} /\ pc'[q] = "serve"
      /\ completedPub \in Nat
  BY CommitRound DEF TypeOK
<1>3. /\ \A s \in Subs : Waits(s)
      /\ SubInv' /\ Received' = Received
      /\ \A s \in Subs : pc'[s] \in Got <=> pc[s] \in Got
  BY <1>1, <1>2, PubFrame, SubsUndisturbed
<1>4. Quotas'
  BY <1>1, QuotasKept DEF RoundInv, MeetInv
<1>5. Opened'
  <2>1. currentPub > 0
    BY <1>2
  <2>2. \A a \in Actors : pc'[a] # "new"
    BY <1>2, <1>3, <2>1 DEF RoundInv, MeetInv, Opened, Actors, Waits, Wakes
  <2> QED
    BY <1>1, <2>1, <2>2 DEF RoundInv, MeetInv, Opened
<1>6. Recorded'
  BY <1>1, <1>2 DEF RoundInv, MeetInv, Recorded, Published
<1>7. Meeting'
  BY <1>1, <1>2, <1>3 DEF RoundInv, MeetInv, Meeting
<1>8. Owing' = Subs
  <2>1. \A s \in Subs : pc[s] \notin Got
    BY <1>2 DEF RoundInv, SubInv, SubRounds, KeepsPace, Within
  <2> QED
    BY <1>2, <1>3, <2>1 DEF Owing
<1>9. Balance'
  <2>1. \A q \in Pubs : pending[q] = Cardinality(Subs) /\ requests[q] = <<>>
    BY <1>2 DEF RoundInv, MeetInv, Balance
  <2>2. Cardinality(Subs) \in Nat
    BY ActorsAssumption, FS_CardinalityType
  <2> QED
    BY <1>1, <1>2, <1>8, <2>1, <2>2 DEF Balance, Published
<1>10. Arrived'
  BY <1>2 DEF Arrived
<1> QED
  BY <1>2, <1>3, <1>4, <1>5, <1>6, <1>7, <1>9, <1>10 DEF RoundInv, MeetInv

LEMMA ServeKeeps ==
  ASSUME Regular, TypeOK, RoundInv, NEW p \in Pubs, Serve(p)
  PROVE  RoundInv'
<1>1. /\ pc[p] = "serve" /\ pending[p] > 0 /\ requests[p] # <<>>
      /\ <<p, Head(requests[p]).from>> \in rdv => pc' = pc
      /\ pending' = [pending EXCEPT ![p] = @ - 1]
      /\ requests' = [requests EXCEPT ![p] = Tail(@)]
      /\ UNCHANGED <<client, registry, pubSide, subSide, status, blocks, rdv>>
      /\ PubStep(p) /\ ~BeginPub(p)
  BY DEF Serve, At, PubStep, BeginPub, Begins
<1>2. /\ requests \in [Pubs -> Seq(Request)] /\ requests[p] \in Seq(Request)
      /\ pending \in [Pubs -> Nat] /\ pending[p] \in Nat
  BY DEF TypeOK
<1>3. Len(requests[p]) >= 1 /\ Head(requests[p]) = requests[p][1]
  BY <1>1, <1>2
<1>4. pc' = pc
  BY <1>1, <1>3 DEF RoundInv, SubInv, RendezVous
<1>5. ~Committing
  BY <1>1 DEF RoundInv, MeetInv, Balance
<1>6. UNCHANGED <<begun, plan, publishers, pubBarrier, currentPub, completedPub,
                  pubInProgress, currentSub, pubStreamEnded, canceledTx, blocks>>
  BY <1>1 DEF client, registry, pubSide, subSide, status
<1>7. PubInv'
  <2>1. (Committing' <=> Committing) /\ (Finishing' <=> Finishing) /\ Round' = Round
    BY <1>4, <1>6 DEF Committing, Finishing, Round
  <2> QED
    BY <1>4, <1>6, <2>1
    DEF RoundInv, PubInv, PubRounds, InStep, PubTogether, PubFlag, PubRegistered
<1>8. /\ requests'[p] = Tail(requests[p])
      /\ Len(requests'[p]) = Len(requests[p]) - 1
      /\ \A i \in 1..Len(requests'[p]) : requests'[p][i] = requests[p][i + 1]
      /\ \A q \in Pubs : q # p => requests'[q] = requests[q]
      /\ pending'[p] = pending[p] - 1
      /\ \A q \in Pubs : q # p => pending'[q] = pending[q]
  BY <1>1, <1>2, <1>3
<1>9. /\ SubInv' /\ Received' = Received
      /\ \A s \in Subs : pc'[s] \in Got <=> pc[s] \in Got
  <2>1. \A q \in Pubs : \A i \in 1..Len(requests'[q]) :
          \E j \in 1..Len(requests[q]) : requests'[q][i] = requests[q][j]
    <3>1. \A i \in 1..Len(requests'[p]) :
            \E j \in 1..Len(requests[p]) : requests'[p][i] = requests[p][j]
      <4>1. Len(requests[p]) \in Nat
        BY <1>2
      <4>2. \A i \in 1..Len(requests'[p]) : i + 1 \in 1..Len(requests[p])
        BY <1>8, <4>1
      <4> QED
        BY <1>8, <4>2
    <3>2. ASSUME NEW q \in Pubs, q # p, NEW i \in 1..Len(requests'[q])
          PROVE  \E j \in 1..Len(requests[q]) : requests'[q][i] = requests[q][j]
      <4>1. requests'[q] = requests[q]
        BY <1>8, <3>2
      <4> QED
        BY <4>1
    <3> QED
      BY <3>1, <3>2
  <2> QED
    BY <1>1, <1>6, <2>1, PubFrame, SubsUndisturbed
<1>10. Quotas'
  BY <1>6, QuotasKept DEF RoundInv, MeetInv
<1>11. Opened' /\ Recorded' /\ Meeting'
  BY <1>4, <1>6, <1>9 DEF RoundInv, MeetInv, Opened, Recorded, Meeting
<1>12. Balance'
  <2>1. Owing' = Owing /\ (Committing' <=> Committing)
    BY <1>4, <1>6, <1>9 DEF Owing, Committing
  <2>2. Cardinality(Owing) \in Nat /\ Len(requests[p]) \in Nat
    BY <1>2, ActorsAssumption, FS_Subset, FS_EmptySet, FS_CardinalityType DEF Owing
  <2>3. pending[p] = Len(requests[p]) + Cardinality(Owing)
    BY <1>1, <1>5 DEF RoundInv, MeetInv, Balance
  <2>4. pending'[p] = Len(requests'[p]) + Cardinality(Owing)
    <3>1. /\ pending'[p] = pending[p] - 1
          /\ Len(requests'[p]) = Len(requests[p]) - 1
      BY <1>8
    <3> QED
      BY <2>2, <2>3, <3>1
  <2> QED
    BY <1>1, <1>4, <1>5, <1>8, <2>1, <2>4 DEF RoundInv, MeetInv, Balance, Published
<1>13. Arrived'
  <2>1. \A q \in Pubs : pc[q] \in Serving
    BY <1>1 DEF RoundInv, PubInv, PubTogether, Serving
  <2>2. completedPub > 0
    BY <1>1, <1>5 DEF RoundInv, PubInv, PubRounds, InStep, Serving, Round
  <2> QED
    BY <1>4, <1>6, <2>1, <2>2 DEF Arrived, Serving
<1> QED
  BY <1>7, <1>9, <1>10, <1>11, <1>12, <1>13 DEF RoundInv, MeetInv

LEMMA EndServeKeeps ==
  ASSUME Regular, TypeOK, RoundInv, NEW p \in Pubs, EndServe(p)
  PROVE  RoundInv'
<1>1. /\ UNCHANGED <<begun, plan, canceledTx, currentPub, completedPub, currentSub,
                     pubStreamEnded, blocks, pending, requests, puts>>
      /\ ~BeginPub(p) /\ PubStep(p) /\ pending[p] = 0
  BY DEF EndServe, At, client, pubSide, subSide, status, transport, messages,
         activities, BeginPub, Begins, PubStep
<1>2. /\ PubInv' /\ ~Committing /\ ~Committing' /\ completedPub > 0
      /\ pc[p] = "serve" /\ requests[p] = <<>> /\ Owing = {}
      /\ \A s \in Subs : pc'[s] = pc[s]
      /\ \A q \in Pubs : pc[q] \in {"serve", "overBarrier"}
      /\ \/ /\ pc'[p] = "overBarrier"
            /\ \A q \in Pubs : q # p => pc'[q] = pc[q]
         \/ /\ pc'[p] = "clearFlag"
            /\ \A q \in Pubs : q # p => pc[q] = "overBarrier" /\ pc'[q] = "idle"
  BY EndServeRound
<1>3. /\ SubInv' /\ Received' = Received
      /\ \A s \in Subs : pc'[s] \in Got <=> pc[s] \in Got
  BY <1>1, PubFrame, SubsUndisturbed
<1>4. /\ \A q \in Pubs : pc'[q] \in {"serve", "overBarrier", "clearFlag", "idle"}
      /\ \A q \in Pubs : pc'[q] = "serve" => pc[q] = "serve"
      /\ \A q \in Pubs : q = p \/ pc[q] = "overBarrier" \/ pc'[q] = pc[q]
  BY <1>2
<1>5. Quotas'
  BY <1>1, QuotasKept DEF RoundInv, MeetInv
<1>6. Opened'
  <2>1. currentPub > 0
    <3>1. currentPub # 0 /\ currentPub \in Nat
      BY <1>2 DEF RoundInv, MeetInv, Opened, TypeOK
    <3> QED
      BY <3>1
  <2>2. \A a \in Actors : pc'[a] # "new"
    BY <1>2, <1>4, <2>1 DEF RoundInv, MeetInv, Opened, Actors
  <2> QED
    BY <1>1, <2>1, <2>2 DEF RoundInv, MeetInv, Opened
<1>7. Recorded'
  <2>1. \A q \in Pubs : pc'[q] \in Published => pc[q] \in Published
    BY <1>4 DEF Published
  <2> QED
    BY <1>1, <2>1 DEF RoundInv, MeetInv, Recorded
<1>8. Meeting'
  <2>1. completedPub = Received \/ \A s \in Subs : pc'[s] \in Got
    BY <1>2, <1>3 DEF Owing
  <2> QED
    BY <1>1, <1>3, <1>4, <2>1 DEF RoundInv, MeetInv, Meeting
<1>9. Balance'
  <2>1. Owing' = Owing
    BY <1>1, <1>3 DEF Owing
  <2>2. \A q \in Pubs : pc[q] = "overBarrier" => pending[q] = 0 /\ requests[q] = <<>>
    BY DEF RoundInv, MeetInv, Balance, Published
  <2>3. \A q \in Pubs : pc'[q] \notin Published => pending[q] = 0 /\ requests[q] = <<>>
    BY <1>1, <1>2, <1>4, <2>2 DEF Published
  <2> QED
    BY <1>1, <1>2, <1>4, <2>1, <2>3 DEF RoundInv, MeetInv, Balance
<1>10. Arrived'
  BY <1>1, <1>2, <1>4 DEF Arrived
<1> QED
  BY <1>2, <1>3, <1>5, <1>6, <1>7, <1>8, <1>9, <1>10 DEF RoundInv, MeetInv

LEMMA ClearPubKeeps ==
  ASSUME Regular, TypeOK, RoundInv, NEW p \in Pubs, ClearPub(p)
  PROVE  RoundInv'
<1>1. /\ UNCHANGED <<begun, plan, canceledTx, currentPub, completedPub, currentSub,
                     pubStreamEnded, blocks, pending, requests, puts>>
      /\ ~BeginPub(p) /\ PubStep(p)
  BY DEF ClearPub, At, client, subSide, status, transport, messages, activities,
         BeginPub, Begins, PubStep
<1>2. /\ PubInv' /\ ~Committing /\ ~Committing'
      /\ pc[p] = "clearFlag" /\ pc'[p] = "idle"
      /\ \A q \in Pubs : q # p => pc'[q] = pc[q]
      /\ \A s \in Subs : pc'[s] = pc[s]
  BY ClearRound
<1>3. /\ SubInv' /\ Received' = Received
      /\ \A s \in Subs : pc'[s] \in Got <=> pc[s] \in Got
  BY <1>1, PubFrame, SubsUndisturbed
<1>4. Quotas'
  BY <1>1, QuotasKept DEF RoundInv, MeetInv
<1>5. Opened'
  <2>1. currentPub > 0
    <3>1. currentPub # 0 /\ currentPub \in Nat
      BY <1>2 DEF RoundInv, MeetInv, Opened, TypeOK
    <3> QED
      BY <3>1
  <2>2. \A a \in Actors : pc'[a] # "new"
    BY <1>2, <2>1 DEF RoundInv, MeetInv, Opened, Actors
  <2> QED
    BY <1>1, <2>1, <2>2 DEF RoundInv, MeetInv, Opened
<1>6. Recorded'
  BY <1>1, <1>2 DEF RoundInv, MeetInv, Recorded, Published
<1>7. Meeting' /\ Balance' /\ Arrived'
  BY <1>1, <1>2, <1>3, PubKeepsMeeting DEF Published
<1> QED
  BY <1>2, <1>3, <1>4, <1>5, <1>6, <1>7 DEF RoundInv, MeetInv

\* A publisher closes: the first one waits for what is in flight, and the last
\* one ends the stream.
LEMMA Departs ==
  ASSUME Regular, TypeOK, RoundInv, NEW p \in Pubs,
         ClosePub(p) \/ CloseFlushPub(p) \/ CloseLastPub(p)
  PROVE  /\ UNCHANGED <<begun, plan, canceledTx, completedPub, pubInProgress,
                        pubBarrier, currentSub, blocks, pending, requests>>
         /\ ~BeginPub(p) /\ PubStep(p)
         /\ ~CloseFlushPub(p) => currentPub' = currentPub /\ puts' = puts
         /\ CloseFlushPub(p) => currentPub' = currentPub + 1 /\ puts' = NoActivity
         /\ PubInv' /\ ~Committing /\ ~Committing'
         /\ completedPub > 0 /\ currentPub > 0
         /\ \A q \in Pubs : plan[q] = completedPub
         /\ \A q \in Pubs : /\ pc[q] \in {"idle", "clearFlag"} \cup Departing
                            /\ pc'[q] \in {"idle", "clearFlag"} \cup Departing
<1>1. /\ UNCHANGED <<begun, plan, canceledTx, completedPub, pubInProgress,
                     pubBarrier, currentSub, blocks, pending, requests>>
      /\ ~BeginPub(p) /\ PubStep(p)
      /\ ~CloseFlushPub(p) => currentPub' = currentPub /\ puts' = puts
      /\ CloseFlushPub(p) => currentPub' = currentPub + 1 /\ puts' = NoActivity
  <2>1. CASE ClosePub(p)
    <3>1. pc[p] \notin {"canceled", "eos"} /\ begun[p] \in Nat /\ plan[p] \in Nat
      BY PubsAndSubs
      DEF RoundInv, PubInv, PubRounds, InStep, TypeOK, PlacesOK, PubPlaces
    <3>2. ~BeginPub(p)
      <4>1. begun[p] = plan[p]
        BY <2>1, <3>1 DEF ClosePub, Closes, At
      <4>2. BeginPub(p) => begun[p] < plan[p]
        BY DEF BeginPub, Begins
      <4> QED
        BY <3>1, <4>1, <4>2
    <3> QED
      BY <2>1, <3>1, <3>2
      DEF ClosePub, Closes, LeavePub, client, registry, status, transport,
          messages, activities, subSide, PubStep, CloseFlushPub, At
  <2>2. CASE CloseFlushPub(p)
    BY <2>2 DEF LeavePub, client, status, DrainPuts,
         messages, activities, subSide, BeginPub, Begins, PubStep, CloseFlushPub, At
  <2>3. CASE CloseLastPub(p)
    BY <2>3 DEF CloseLastPub, client, registry, transport, pubSide, subSide,
         messages, activities, BeginPub, Begins, PubStep, CloseFlushPub, At
  <2> QED
    BY <2>1, <2>2, <2>3
<1>2. /\ pc[p] \in {"idle", "closeFlush", "closeLast"} /\ begun[p] = plan[p]
      /\ \/ pc[p] = "idle" /\ pc' = Goto(p, "closeFlush") /\ publishers' = publishers
         \/ /\ pc[p] \in {"idle", "closeFlush"} /\ publishers' = publishers \ {p}
            /\ ArriveToClose(p, Pubs, pubBarrier)
         \/ /\ pc[p] = "closeLast" /\ publishers' = publishers
            /\ pc'[p] = "closed" /\ \A q \in Pubs : q # p => pc'[q] = pc[q]
  <2>1. pc[p] \in Departing => begun[p] = plan[p]
    BY DEF RoundInv, PubInv, PubRounds, InStep
  <2>2. pc[p] \notin {"canceled", "eos"}
    BY DEF RoundInv, PubInv, PubRounds, InStep, TypeOK, PlacesOK, PubPlaces
  <2>3. CASE ClosePub(p)
    BY <2>2, <2>3 DEF ClosePub, Closes, At, LeavePub, registry
  <2>4. CASE CloseFlushPub(p)
    BY <2>1, <2>4 DEF CloseFlushPub, At, LeavePub, Departing
  <2>5. CASE CloseLastPub(p)
    <3>1. pc[p] = "closeLast" /\ pc' = Notify(Goto(p, "closed"), EndWakes)
          /\ publishers' = publishers
      BY <2>5 DEF CloseLastPub, At, registry
    <3>2. pc'[p] = "closed" /\ \A q \in Pubs : q # p => pc'[q] = pc[q]
      BY <3>1, NotifyPub DEF EndWakes, PubPlaces
    <3> QED
      BY <2>1, <3>1, <3>2 DEF Departing
  <2> QED
    BY <2>3, <2>4, <2>5
<1>3. /\ PubInv' /\ ~Committing /\ ~Committing'
      /\ completedPub > 0 /\ currentPub > 0
      /\ \A q \in Pubs : plan[q] = completedPub
      /\ \A q \in Pubs : /\ pc[q] \in {"idle", "clearFlag"} \cup Departing
                         /\ pc'[q] \in {"idle", "clearFlag"} \cup Departing
  BY <1>1, <1>2, DepartRound
<1> QED
  BY <1>1, <1>3

LEMMA DepartKeeps ==
  ASSUME Regular, TypeOK, RoundInv, NEW p \in Pubs,
         ClosePub(p) \/ CloseFlushPub(p) \/ CloseLastPub(p)
  PROVE  RoundInv'
<1>1. /\ UNCHANGED <<begun, plan, canceledTx, completedPub, pubInProgress,
                     pubBarrier, currentSub, blocks, pending, requests>>
      /\ ~BeginPub(p) /\ PubStep(p)
      /\ ~CloseFlushPub(p) => currentPub' = currentPub /\ puts' = puts
      /\ CloseFlushPub(p) => currentPub' = currentPub + 1 /\ puts' = NoActivity
      /\ PubInv' /\ ~Committing /\ ~Committing'
      /\ completedPub > 0 /\ currentPub > 0
      /\ \A q \in Pubs : plan[q] = completedPub
      /\ \A q \in Pubs : /\ pc[q] \in {"idle", "clearFlag"} \cup Departing
                         /\ pc'[q] \in {"idle", "clearFlag"} \cup Departing
  BY Departs
<1>2. /\ SubInv' /\ Received' = Received
      /\ \A s \in Subs : Waits(s)
      /\ \A s \in Subs : pc'[s] \in Got <=> pc[s] \in Got
  BY <1>1, PubFrame, SubsUndisturbed
<1>3. Quotas'
  BY <1>1, QuotasKept DEF RoundInv, MeetInv
<1>4. currentPub' > 0 /\ currentPub' >= currentPub /\ currentPub \in Nat
      /\ currentPub' \in Nat
  BY <1>1 DEF TypeOK
<1>5. Opened'
  <2>1. \A a \in Actors : pc'[a] # "new"
    BY <1>1, <1>2 DEF RoundInv, MeetInv, Opened, Actors, Departing, Waits, Wakes
  <2> QED
    BY <1>1, <1>4, <2>1 DEF RoundInv, MeetInv, Opened
<1>6. Recorded'
  <2>1. \A b \in blocks : b[1] \in Nat
    BY DEF TypeOK
  <2>2. \A b \in blocks : b[1] <= currentPub'
    BY <1>4, <2>1 DEF RoundInv, MeetInv, Recorded
  <2>3. \A q \in Pubs : pc'[q] \notin Published
    BY <1>1 DEF Published, Departing
  <2> QED
    BY <1>1, <2>2, <2>3 DEF Recorded
<1>7. AllOver(puts) => AllOver(puts')
  BY <1>1 DEF AllOver, NoActivity
<1>8. Meeting' /\ Balance' /\ Arrived'
  BY <1>1, <1>2, <1>7, PubKeepsMeeting DEF Published, Departing
<1> QED
  BY <1>1, <1>2, <1>3, <1>5, <1>6, <1>8 DEF RoundInv, MeetInv

LEMMA PubRound ==
  ASSUME Regular, TypeOK, AbortedOnlyByCancel, RoundInv, NEW p \in Pubs, PubStep(p)
  PROVE  RoundInv'
BY OpenPubKeeps, BeginPubKeeps, AwaitSubsKeeps, PutKeeps, EndPubKeeps, CommitKeeps,
   ServeKeeps, EndServeKeeps, ClearPubKeeps, DepartKeeps DEF PubStep

-----------------------------------------------------------------------------
(* The steps of the subscribers                                             *)

\* What no step of a subscriber touches.
LEMMA SubFrame ==
  ASSUME TypeOK, NEW s \in Subs, SubStep(s)
  PROVE  /\ UNCHANGED <<plan, pubSide, publishers, pubBarrier, blocks, pending,
                        pubStreamEnded, canceledTx>>
         /\ ~BeginSub(s) => begun' = begun
         /\ ~AwaitFirst(s) => rdv' = rdv
         /\ (\A wanted \in SUBSET Pubs : ~Get(s, wanted)) => requests' = requests
         /\ AllOver(puts) => AllOver(puts')
         /\ \A p \in Pubs : Waits(p) /\ begun'[p] = begun[p]
         /\ pc'[s] # "new" /\ begun' \in [Actors -> Nat]
<1>1. UNCHANGED <<plan, pubSide, publishers, pubBarrier, blocks, pending,
                  pubStreamEnded, canceledTx>>
  BY PubsAndSubs
  DEF SubStep, Open, BeginSub, Begins, AwaitFirst, StartSub, AwaitCompleted, Get, EndSub,
      Collect, Over, ReleaseSub, CloseSub, CloseFlushSub, CloseLastSub, LeaveSub,
      client, registry, status, transport, messages
<1>2. ~BeginSub(s) => begun' = begun
  BY DEF SubStep, Open, AwaitFirst, StartSub, AwaitCompleted, Get, EndSub, Collect,
         Over, ReleaseSub, CloseSub, CloseFlushSub, CloseLastSub, client
<1>3. ~AwaitFirst(s) => rdv' = rdv
  BY DEF SubStep, Open, BeginSub, StartSub, AwaitCompleted, Get, EndSub, Collect,
         Over, ReleaseSub, CloseSub, CloseFlushSub, CloseLastSub, transport, messages
<1>4. (\A wanted \in SUBSET Pubs : ~Get(s, wanted)) => requests' = requests
  BY DEF SubStep, Open, BeginSub, AwaitFirst, StartSub, AwaitCompleted, EndSub,
         Collect, Over, ReleaseSub, CloseSub, CloseFlushSub, CloseLastSub, transport,
         messages
<1>5. puts' = puts \/ puts' = Unmatched(puts, gets)
  BY DEF SubStep, Open, BeginSub, AwaitFirst, StartSub, AwaitCompleted, Get, EndSub,
         Collect, Over, ReleaseSub, CloseSub, CloseFlushSub, CloseLastSub, DrainGets,
         transport, activities
<1>6. AllOver(puts) => AllOver(puts')
  <2>1. \A x \in Pairs : gets[x] \in Nat
    BY DEF TypeOK
  <2>2. AllOver(puts) => AllOver(Unmatched(puts, gets))
    BY <2>1 DEF AllOver, Unmatched
  <2> QED
    BY <1>5, <2>2
<1>7. ASSUME NEW p \in Pubs
      PROVE  begun'[p] = begun[p]
  BY <1>2, PubsAndSubs DEF BeginSub, Begins, TypeOK
<1>8. pc'[s] # "new"
  BY SubGoes DEF TypeOK, Goes
<1>9. begun' \in [Actors -> Nat]
  <2>1. begun' = begun \/ begun' = [begun EXCEPT ![s] = @ + 1]
    BY <1>2 DEF BeginSub, Begins
  <2> QED
    BY <2>1, PubsAndSubs DEF TypeOK
<1> QED
  BY <1>1, <1>2, <1>3, <1>4, <1>6, <1>7, <1>8, <1>9, SubMoves DEF TypeOK

\* Everything starts with the first transaction of the publishers.
LEMMA NothingYet ==
  ASSUME Regular, TypeOK, RoundInv, currentPub = 0
  PROVE  completedPub = 0 /\ ~pubStreamEnded /\ Received = 0 /\ currentSub = 0
<1>1. \A p \in Pubs : pc[p] \in {"new", "idle"}
  BY DEF RoundInv, MeetInv, Opened
<1>2. ~Committing /\ \A p \in Pubs : pc[p] \notin Departing
  BY <1>1 DEF Committing, Departing
<1>3. completedPub = 0
  BY <1>2 DEF RoundInv, PubInv, PubFlag, Round, TypeOK
<1>4. ~pubStreamEnded
  BY <1>3 DEF RoundInv, MeetInv, Meeting, Quotas, Regular
<1>5. currentSub = 0 /\ ~subInProgress
  BY DEF RoundInv, MeetInv, Opened, SubInv, SubFlag
<1> QED
  BY <1>3, <1>4, <1>5 DEF Received, TypeOK

LEMMA Bounds ==
  ASSUME Regular, TypeOK, RoundInv
  PROVE  /\ Received \in Nat /\ (currentSub = Received \/ currentSub = Received + 1)
         /\ completedPub = Received \/ completedPub = Received + 1
         /\ completedPub \in Nat /\ currentSub \in Nat
         /\ \A p \in Pubs : completedPub <= plan[p] /\ plan[p] \in Nat
         /\ canceledTx = 0
<1>1. Received \in Nat /\ (currentSub = Received \/ currentSub = Received + 1)
  BY ReceivedType DEF TypeOK, RoundInv, SubInv
<1>2. ASSUME NEW p \in Pubs
      PROVE  completedPub <= plan[p] /\ plan[p] \in Nat
  <2>1. /\ begun[p] \in Nat /\ plan[p] \in Nat /\ begun[p] <= plan[p]
        /\ completedPub \in Nat /\ pc[p] \in PubPlaces
    BY PubsAndSubs DEF TypeOK, PlacesOK, RoundInv, MeetInv, Quotas
  <2>2. begun[p] = completedPub + 1 \/ begun[p] = Round
    BY <2>1 DEF RoundInv, PubInv, PubRounds, InStep, PubPlaces, InRound, Serving,
                Departing
  <2> QED
    BY <2>1, <2>2 DEF Round
<1> QED
  BY <1>1, <1>2 DEF RoundInv, MeetInv, Meeting, Quotas, TypeOK

\* When a subscriber moves and posts no request.
LEMMA SubKeepsMeeting ==
  ASSUME Regular, TypeOK, RoundInv, NEW s \in Subs, SubStep(s),
         requests' = requests, Owing' = Owing,
         \/ Received' = Received /\ \A r \in Subs : pc[r] \in Got => pc'[r] \in Got
         \/ Received' = completedPub,
         \A r \in Subs : /\ pc'[r] = "new" => pc[r] = "new"
                         /\ begun'[r] >= begun[r] /\ begun'[r] <= plan[r],
         currentPub = 0 =>
           /\ currentSub' = 0
           /\ \A r \in Subs : pc'[r] \in {"new", "idle", "first", "cvFirst"}
  PROVE  PubInv' /\ MeetInv'
<1>1. /\ UNCHANGED <<plan, pubSide, publishers, pubBarrier, blocks, pending,
                     pubStreamEnded, canceledTx>>
      /\ AllOver(puts) => AllOver(puts')
      /\ \A p \in Pubs : Waits(p) /\ begun'[p] = begun[p]
  BY SubFrame
<1>2. /\ PubInv' /\ Recorded' /\ (Committing' <=> Committing)
      /\ \A p \in Pubs : \/ pc'[p] = pc[p]
                         \/ pc[p] = "cvStarted" /\ pc'[p] = "recheck"
  BY <1>1, PubsUndisturbed
<1>3. UNCHANGED <<currentPub, completedPub>>
  BY <1>1 DEF pubSide
<1>4. Quotas'
  BY <1>1 DEF RoundInv, MeetInv, Quotas
<1>5. Opened'
  <2>1. CASE currentPub = 0
    BY <1>2, <1>3, <2>1 DEF RoundInv, MeetInv, Opened
  <2>2. CASE currentPub # 0
    <3>1. /\ currentPub > 0
          /\ \A r \in Subs : /\ begun[r] \in Nat /\ begun'[r] \in Nat
                              /\ begun'[r] >= begun[r]
      BY <2>2, SubFrame, PubsAndSubs DEF TypeOK
    <3>2. \A a \in Actors : pc[a] # "new" /\ (a \in Subs => begun[a] > 0)
      BY <3>1 DEF RoundInv, MeetInv, Opened
    <3>3. \A r \in Subs : begun'[r] > 0
      BY <3>1, <3>2, PubsAndSubs
    <3>4. \A a \in Actors : pc'[a] # "new" /\ (a \in Subs => begun'[a] > 0)
      BY <1>2, <3>2, <3>3 DEF Actors
    <3> QED
      BY <1>3, <3>1, <3>4 DEF Opened
  <2> QED
    BY <2>1, <2>2
<1>6. Meeting'
  <2>1. Received' \in {completedPub, completedPub - 1}
    BY Bounds DEF RoundInv, MeetInv, Meeting
  <2>2. completedPub \in {Received', Received' + 1}
    BY <2>1, Bounds
  <2>3. (\E p \in Pubs : pc'[p] # "serve") =>
          completedPub = Received' \/ \A r \in Subs : pc'[r] \in Got
    BY <1>2 DEF RoundInv, MeetInv, Meeting
  <2>4. \A p \in Pubs : pc'[p] \in {"tx", "put", "endBarrier", "commit"} =>
          completedPub = Received'
    BY <1>2 DEF RoundInv, MeetInv, Meeting
  <2> QED
    BY <1>1, <1>3, <2>2, <2>3, <2>4 DEF RoundInv, MeetInv, Meeting
<1>7. Balance'
  BY <1>1, <1>2 DEF RoundInv, MeetInv, Balance, Published
<1>8. Arrived'
  BY <1>1, <1>2, <1>3 DEF RoundInv, MeetInv, Arrived
<1> QED
  BY <1>2, <1>4, <1>5, <1>6, <1>7, <1>8 DEF MeetInv

\* A subscriber goes to `to`; the other actors stay where they are.
LEMMA GotoSub ==
  ASSUME TypeOK, NEW s \in Subs, NEW to, pc' = Goto(s, to)
  PROVE  /\ pc'[s] = to
         /\ \A r \in Subs : r # s => pc'[r] = pc[r]
BY PubsAndSubs DEF Goto, TypeOK, PlacesOK

\* A subscriber that joins a transaction wakes none of the others.
LEMMA JoinAlone ==
  ASSUME TypeOK, NEW s \in Subs, JoinTransaction(s)
  PROVE  pc'[s] = "await" /\ \A r \in Subs : r # s => pc'[r] = pc[r]
<1>1. CASE pc' = Goto(s, "await")
  BY <1>1, GotoSub
<1>2. CASE pc' = Notify(Goto(s, "await"), {"cvStarted"})
  <2>1. \A a \in Actors : Goto(s, "await")[a] = IF a = s THEN "await" ELSE pc[a]
    BY DEF Goto, TypeOK, PlacesOK
  <2>2. \A r \in Subs : Goto(s, "await")[r] # "cvStarted"
    BY <2>1, PubsAndSubs DEF TypeOK, PlacesOK, SubPlaces
  <2> QED
    BY <1>2, <2>1, <2>2, PubsAndSubs DEF Notify
<1> QED
  BY <1>1, <1>2 DEF JoinTransaction

\* A subscriber opens the stream, before anybody has begun.
LEMMA OpenSubKeeps ==
  ASSUME Regular, TypeOK, RoundInv, NEW s \in Subs, Open(s)
  PROVE  RoundInv'
<1>1. /\ pc[s] = "new" /\ pc' = Goto(s, "idle")
      /\ subscribers' = subscribers \cup {s}
      /\ UNCHANGED <<begun, plan, subBarrier, subSide, pubSide, status, rdv, requests>>
      /\ SubStep(s)
  BY PubsAndSubs DEF Open, At, client, transport, messages, SubStep
<1>2. pc'[s] = "idle" /\ \A r \in Subs : r # s => pc'[r] = pc[r]
  BY <1>1, GotoSub
<1>3. UNCHANGED <<currentPub, completedPub, currentSub, subInProgress, pubStreamEnded>>
  BY <1>1 DEF subSide, pubSide, status
<1>4. (Clearing' <=> Clearing) /\ Received' = Received
  <2>1. Clearing' <=> Clearing
    BY <1>1, <1>2 DEF Clearing
  <2> QED
    BY <1>3, <2>1 DEF Received
<1>5. begun[s] = 0 /\ Received = 0
  BY <1>1 DEF RoundInv, SubInv, SubRounds, KeepsPace
<1>6. SubRounds'
  <2>1. KeepsPace(s)'
    BY <1>1, <1>2, <1>4, <1>5
    DEF KeepsPace, Returning, First, Awaiting, Within, Got, Mid, Leaving
  <2>2. ASSUME NEW r \in Subs, r # s
        PROVE  KeepsPace(r)'
    BY <1>1, <1>2, <1>3, <1>4, <2>2 DEF RoundInv, SubInv, SubRounds, KeepsPace
  <2> QED
    BY <2>1, <2>2 DEF SubRounds
<1>7. SubTogether'
  <2>1. /\ \A r \in Subs : /\ pc'[r] \in {"cvCompleted", "eos"} \cup Within <=>
                                pc[r] \in {"cvCompleted", "eos"} \cup Within
                           /\ pc'[r] \in Returning \cup {"new"} <=>
                                pc[r] \in Returning \cup {"new"}
                           /\ pc'[r] \in Mid <=> pc[r] \in Mid
                           /\ pc'[r] = "clearFlag" <=> pc[r] = "clearFlag"
    BY <1>1, <1>2 DEF Returning, Within, Got, Mid
  <2> QED
    BY <2>1 DEF RoundInv, SubInv, SubTogether
<1>8. SubFlag'
  <2>1. ~(currentSub > completedPub /\ ~subInProgress)
    BY <1>1 DEF RoundInv, SubInv, SubFlag
  <2>2. (\E r \in Subs : pc'[r] = "await") => \E r \in Subs : pc[r] = "await"
    BY <1>2
  <2>3. \A r \in Subs : pc[r] = "idle" => pc'[r] = "idle"
    BY <1>2
  <2> QED
    BY <1>1, <1>3, <1>4, <2>1, <2>2, <2>3 DEF RoundInv, SubInv, SubFlag
<1>9. SubRegistered'
  <2>1. subscribers' = {r \in Subs : pc'[r] \notin {"new"} \cup Gone}
    BY <1>1, <1>2 DEF RoundInv, SubInv, SubRegistered, Gone
  <2>2. \A r \in Subs : pc'[r] \in {"endBarrier"} \cup Mid =>
          pc[r] \in {"endBarrier"} \cup Mid
    BY <1>2 DEF Mid
  <2> QED
    BY <1>1, <2>1, <2>2 DEF RoundInv, SubInv, SubRegistered
<1>10. RendezVous'
  BY <1>1, <1>2, <1>5 DEF RoundInv, SubInv, RendezVous
<1>11. PubInv' /\ MeetInv'
  <2>1. \A r \in Subs : pc'[r] \in Got <=> pc[r] \in Got
    BY <1>1, <1>2 DEF Got, Mid
  <2>2. Owing' = Owing
    BY <1>3, <1>4, <2>1 DEF Owing
  <2>3. \A r \in Subs : begun'[r] >= begun[r] /\ begun'[r] <= plan[r]
    BY <1>1, PubsAndSubs DEF RoundInv, MeetInv, Quotas, TypeOK, Regular
  <2>4. currentPub = 0 =>
          /\ currentSub' = 0
          /\ \A r \in Subs : pc'[r] \in {"new", "idle", "first", "cvFirst"}
    BY <1>2, <1>3 DEF RoundInv, MeetInv, Opened
  <2> QED
    BY <1>1, <1>2, <1>4, <2>1, <2>2, <2>3, <2>4, SubKeepsMeeting
<1> QED
  BY <1>6, <1>7, <1>8, <1>9, <1>10, <1>11 DEF RoundInv, SubInv

\* A subscriber joins the transaction of its round, or starts it: nobody is
\* further than that.
LEMMA JoinRound ==
  ASSUME Regular, TypeOK, RoundInv, NEW s \in Subs, JoinTransaction(s),
         pc[s] \in {"idle", "start"}, currentPub > 0,
         begun'[s] = Received + 1, \A r \in Subs : r # s => begun'[r] = begun[r],
         UNCHANGED <<plan, subscribers, subBarrier, completedPub, pubStreamEnded,
                     rdv, requests>>
  PROVE  /\ SubInv' /\ Received' = Received /\ Owing' = Owing
         /\ \A r \in Subs : pc'[r] \in Got <=> pc[r] \in Got
<1>1. /\ pc'[s] = "await" /\ \A r \in Subs : r # s => pc'[r] = pc[r]
      /\ currentSub' = IF subInProgress THEN currentSub ELSE currentSub + 1
      /\ subInProgress' = TRUE
  BY JoinAlone DEF JoinTransaction
<1>2. Clearing' <=> Clearing
  BY <1>1 DEF Clearing
<1>3. ~subInProgress => currentSub <= completedPub /\ Received = currentSub /\ ~Clearing
  <2> SUFFICES ASSUME ~subInProgress
               PROVE  currentSub <= completedPub /\ Received = currentSub /\ ~Clearing
    OBVIOUS
  <2>1. ~(currentSub > completedPub) /\ ~Clearing
    BY DEF RoundInv, SubInv, SubFlag, First, Returning
  <2>2. currentSub <= completedPub
    BY <2>1, Bounds
  <2> QED
    BY <2>1, <2>2 DEF Received
<1>4. Received' = Received
  BY <1>1, <1>2, <1>3, Bounds DEF Received
<1>5. \A r \in Subs : currentSub' # currentSub =>
        pc[r] \notin {"cvCompleted", "eos"} \cup Within
  BY <1>1, <1>3, Bounds DEF RoundInv, SubInv, SubRounds, KeepsPace
<1>6. SubRounds'
  <2>1. KeepsPace(s)'
    BY <1>1, <1>4
    DEF KeepsPace, Returning, First, Awaiting, Within, Got, Mid, Leaving
  <2>2. ASSUME NEW r \in Subs, r # s
        PROVE  KeepsPace(r)'
    <3>1. KeepsPace(r)
      BY DEF RoundInv, SubInv, SubRounds
    <3> QED
      BY <1>1, <1>4, <1>5, <2>2, <3>1 DEF KeepsPace
  <2> QED
    BY <2>1, <2>2 DEF SubRounds
<1>7. SubTogether'
  <2>1. /\ \A r \in Subs : /\ pc'[r] \in {"cvCompleted", "eos"} \cup Within <=>
                                pc[r] \in {"cvCompleted", "eos"} \cup Within
                           /\ pc'[r] \in Returning \cup {"new"} =>
                                pc[r] \in Returning \cup {"new"}
                           /\ pc'[r] \in Mid <=> pc[r] \in Mid
                           /\ pc'[r] = "clearFlag" <=> pc[r] = "clearFlag"
    BY <1>1 DEF Returning, Within, Got, Mid
  <2> QED
    BY <2>1 DEF RoundInv, SubInv, SubTogether
<1>8. SubFlag'
  <2>1. Clearing => currentSub' <= completedPub
    BY <1>1, <1>3 DEF RoundInv, SubInv, SubFlag
  <2>2. currentSub' > 0
    BY <1>1, Bounds DEF RoundInv, SubInv, SubFlag
  <2> QED
    BY <1>1, <1>2, <2>1, <2>2 DEF SubFlag
<1>9. SubRegistered'
  <2>1. subscribers' = {r \in Subs : pc'[r] \notin {"new"} \cup Gone}
    BY <1>1 DEF RoundInv, SubInv, SubRegistered, Gone
  <2>2. \A r \in Subs : pc'[r] \in {"endBarrier"} \cup Mid =>
          pc[r] \in {"endBarrier"} \cup Mid
    BY <1>1 DEF Mid
  <2> QED
    BY <2>1, <2>2 DEF RoundInv, SubInv, SubRegistered
<1>10. RendezVous'
  <2>1. \A p \in Pubs : <<p, s>> \in rdv
    <3>1. begun[s] > 0
      BY PubsAndSubs DEF RoundInv, MeetInv, Opened
    <3> QED
      BY <3>1 DEF RoundInv, SubInv, RendezVous
  <2> QED
    BY <1>1, <2>1 DEF RoundInv, SubInv, RendezVous
<1>11. \A r \in Subs : pc'[r] \in Got <=> pc[r] \in Got
  BY <1>1 DEF Got, Mid
<1>12. Owing' = Owing
  BY <1>4, <1>11 DEF Owing
<1> QED
  BY <1>4, <1>6, <1>7, <1>8, <1>9, <1>10, <1>11, <1>12 DEF SubInv

LEMMA BeginSubKeeps ==
  ASSUME Regular, TypeOK, RoundInv, NEW s \in Subs, BeginSub(s)
  PROVE  RoundInv'
<1>1. /\ pc[s] = "idle" /\ begun[s] < plan[s]
      /\ begun' = [begun EXCEPT ![s] = @ + 1]
      /\ SubStep(s) /\ ~AwaitFirst(s) /\ \A wanted \in SUBSET Pubs : ~Get(s, wanted)
      /\ UNCHANGED <<registry, completedPub, pubStreamEnded>>
  BY DEF BeginSub, Begins, At, RoundInv, SubInv, SubRounds, KeepsPace, SubStep,
         AwaitFirst, Get, pubSide, status
<1>2. /\ UNCHANGED <<plan, rdv, requests, subscribers, subBarrier>>
      /\ begun'[s] = begun[s] + 1 /\ \A r \in Subs : r # s => begun'[r] = begun[r]
      /\ \A r \in Subs : begun[r] \in Nat /\ plan[r] \in Nat
  BY <1>1, SubFrame, PubsAndSubs DEF TypeOK, registry
<1>3. begun'[s] = Received + 1
  BY <1>1, <1>2 DEF RoundInv, SubInv, SubRounds, KeepsPace, Returning
<1>4. \A r \in Subs : begun'[r] >= begun[r] /\ begun'[r] <= plan[r]
  BY <1>1, <1>2 DEF RoundInv, MeetInv, Quotas, Regular
<1>5. ~Canceled(currentSub + 1)
  BY Bounds DEF Canceled
<1>6. CASE currentSub = 0
  <2>1. /\ pc' = Goto(s, "first")
        /\ UNCHANGED <<currentSub, subInProgress>>
    BY <1>5, <1>6 DEF BeginSub, subSide
  <2>2. pc'[s] = "first" /\ \A r \in Subs : r # s => pc'[r] = pc[r]
    BY <2>1, GotoSub
  <2>3. Received = 0 /\ ~subInProgress
    BY <1>6, Bounds DEF RoundInv, SubInv, SubFlag
  <2>4. (Clearing' <=> Clearing) /\ Received' = Received
    <3>1. Clearing' <=> Clearing
      BY <1>1, <2>2 DEF Clearing
    <3> QED
      BY <1>1, <2>1, <3>1 DEF Received
  <2>5. SubRounds'
    <3>1. KeepsPace(s)'
      BY <1>3, <2>2, <2>3, <2>4
      DEF KeepsPace, Returning, First, Awaiting, Within, Got, Mid, Leaving
    <3>2. ASSUME NEW r \in Subs, r # s
          PROVE  KeepsPace(r)'
      BY <1>1, <1>2, <2>1, <2>2, <2>4, <3>2 DEF RoundInv, SubInv, SubRounds, KeepsPace
    <3> QED
      BY <3>1, <3>2 DEF SubRounds
  <2>6. \A r \in Subs : /\ pc'[r] \in {"cvCompleted", "eos"} \cup Within <=>
                             pc[r] \in {"cvCompleted", "eos"} \cup Within
                        /\ pc'[r] \in Returning \cup {"new"} =>
                             pc[r] \in Returning \cup {"new"}
                        /\ pc'[r] \in Mid <=> pc[r] \in Mid
                        /\ pc'[r] = "clearFlag" <=> pc[r] = "clearFlag"
                        /\ pc'[r] = "endBarrier" <=> pc[r] = "endBarrier"
                        /\ pc'[r] \in Got <=> pc[r] \in Got
    BY <1>1, <2>2 DEF Returning, Within, Got, Mid
  <2>7. SubTogether'
    BY <2>6 DEF RoundInv, SubInv, SubTogether
  <2>8. SubFlag'
    <3>1. \A r \in Subs : pc'[r] # "await"
      <4> SUFFICES ASSUME NEW r \in Subs, pc[r] = "await"
                   PROVE  FALSE
        BY <2>2
      <4>1. PICK q \in Subs : pc[q] = "idle" /\ begun[q] > 0
        BY <1>6, <2>3, Bounds DEF RoundInv, SubInv, SubFlag
      <4>2. begun[q] = 0
        BY <2>3, <4>1 DEF RoundInv, SubInv, SubRounds, KeepsPace, Returning
      <4> QED
        BY <4>1, <4>2
    <3>2. ~(currentSub > completedPub)
      BY <1>6, Bounds
    <3> QED
      BY <1>1, <2>1, <2>3, <2>4, <3>1, <3>2 DEF RoundInv, SubInv, SubFlag
  <2>9. SubRegistered'
    <3>1. subscribers' = {r \in Subs : pc'[r] \notin {"new"} \cup Gone}
      BY <1>1, <1>2, <2>2 DEF RoundInv, SubInv, SubRegistered, Gone
    <3> QED
      BY <1>2, <2>6, <3>1 DEF RoundInv, SubInv, SubRegistered
  <2>10. RendezVous'
    BY <1>2, <2>2 DEF RoundInv, SubInv, RendezVous
  <2>11. Owing' = Owing
    BY <1>1, <2>4, <2>6 DEF Owing
  <2>12. currentPub = 0 =>
           /\ currentSub' = 0
           /\ \A r \in Subs : pc'[r] \in {"new", "idle", "first", "cvFirst"}
    BY <1>6, <2>1, <2>2 DEF RoundInv, MeetInv, Opened
  <2>13. PubInv' /\ MeetInv'
    BY <1>1, <1>2, <1>4, <2>2, <2>4, <2>6, <2>11, <2>12, SubKeepsMeeting
  <2> QED
    BY <2>5, <2>7, <2>8, <2>9, <2>10, <2>13 DEF RoundInv, SubInv
<1>7. CASE currentSub # 0
  <2>1. JoinTransaction(s)
    BY <1>5, <1>7 DEF BeginSub
  <2>2. currentPub > 0
    BY <1>7, NothingYet DEF TypeOK
  <2>3. /\ SubInv' /\ Received' = Received /\ Owing' = Owing
        /\ \A r \in Subs : pc'[r] \in Got <=> pc[r] \in Got
    BY <1>1, <1>2, <1>3, <2>1, <2>2, JoinRound
  <2>4. \A r \in Subs : pc'[r] = "new" => pc[r] = "new"
    BY <2>1, JoinAlone
  <2>5. PubInv' /\ MeetInv'
    BY <1>1, <1>2, <1>4, <2>2, <2>3, <2>4, SubKeepsMeeting
  <2> QED
    BY <2>3, <2>5 DEF RoundInv
<1> QED
  BY <1>6, <1>7

LEMMA StartSubKeeps ==
  ASSUME Regular, TypeOK, RoundInv, NEW s \in Subs, StartSub(s)
  PROVE  RoundInv'
<1>1. /\ pc[s] = "start" /\ JoinTransaction(s)
      /\ UNCHANGED <<begun, plan, registry, completedPub, pubStreamEnded, rdv, requests>>
      /\ SubStep(s)
  BY DEF StartSub, At, SubStep, client, pubSide, status, transport, messages
<1>2. currentPub > 0
  <2>1. currentPub # 0 /\ currentPub \in Nat
    BY <1>1 DEF RoundInv, MeetInv, Opened, TypeOK
  <2> QED
    BY <2>1
<1>3. begun[s] = Received + 1
  BY <1>1 DEF RoundInv, SubInv, SubRounds, KeepsPace, First
<1>4. /\ SubInv' /\ Received' = Received /\ Owing' = Owing
      /\ \A r \in Subs : pc'[r] \in Got <=> pc[r] \in Got
  BY <1>1, <1>2, <1>3, JoinRound DEF registry
<1>5. \A r \in Subs : begun'[r] >= begun[r] /\ begun'[r] <= plan[r]
  BY <1>1, PubsAndSubs DEF RoundInv, MeetInv, Quotas, TypeOK, Regular
<1>6. \A r \in Subs : pc'[r] = "new" => pc[r] = "new"
  BY <1>1, JoinAlone
<1>7. PubInv' /\ MeetInv'
  BY <1>1, <1>2, <1>4, <1>5, <1>6, SubKeepsMeeting
<1> QED
  BY <1>4, <1>7 DEF RoundInv

\* The first transaction has started, and every publisher is still registered,
\* or has not.
LEMMA AwaitFirstKeeps ==
  ASSUME Regular, TypeOK, RoundInv, NEW s \in Subs, AwaitFirst(s)
  PROVE  RoundInv'
<1>1. /\ pc[s] = "first"
      /\ UNCHANGED <<begun, plan, registry, pubSide, subSide, status, requests>>
      /\ SubStep(s)
  BY DEF AwaitFirst, At, SubStep, client
<1>2. UNCHANGED <<currentPub, completedPub, currentSub, subInProgress, pubStreamEnded,
                  publishers, subscribers, subBarrier>>
  BY <1>1 DEF registry, pubSide, subSide, status
<1>3. Received = 0 /\ begun[s] = 1
  BY <1>1 DEF RoundInv, SubInv, SubRounds, KeepsPace, First
<1>4. ~Canceled(currentSub + 1)
  BY Bounds DEF Canceled
<1>5. currentPub > 0 => publishers = Pubs
  <2> SUFFICES ASSUME currentPub > 0, NEW p \in Pubs, pc[p] \in {"new"} \cup Gone
               PROVE  FALSE
    BY DEF RoundInv, PubInv, PubRegistered
  <2>1. pc[p] \in Departing /\ pc[p] \notin Serving
    BY PubsAndSubs DEF RoundInv, MeetInv, Opened, Gone, Departing, Serving
  <2>2. completedPub = 0
    BY <1>1, <1>3, <2>1 DEF RoundInv, MeetInv, Meeting, Got, Mid, Serving
  <2>3. ~Committing
    BY <2>1 DEF RoundInv, PubInv, PubTogether, Committing, Serving
  <2>4. plan[p] = 0
    BY <2>1, <2>2, <2>3 DEF RoundInv, PubInv, PubRounds, InStep, Round
  <2> QED
    BY <2>4 DEF RoundInv, MeetInv, Quotas, Regular
<1>6. \/ pc' = Goto(s, "start") /\ rdv' = rdv \cup (Pubs \X {s}) /\ currentPub > 0
      \/ pc' = Goto(s, "cvFirst") /\ rdv' = rdv
  BY <1>1, <1>4, <1>5, NothingYet DEF AwaitFirst, RendezVousOf, TypeOK
<1>7. /\ pc'[s] \in {"start", "cvFirst"} /\ \A r \in Subs : r # s => pc'[r] = pc[r]
      /\ pc'[s] = "start" => currentPub > 0 /\ \A p \in Pubs : <<p, s>> \in rdv'
      /\ rdv \subseteq rdv'
  BY <1>6, GotoSub
<1>8. (Clearing' <=> Clearing) /\ Received' = Received
  <2>1. Clearing' <=> Clearing
    BY <1>1, <1>7 DEF Clearing
  <2> QED
    BY <1>2, <2>1 DEF Received
<1>9. \A r \in Subs : /\ pc'[r] \in {"cvCompleted", "eos"} \cup Within <=>
                           pc[r] \in {"cvCompleted", "eos"} \cup Within
                      /\ pc'[r] \in Returning \cup {"new"} <=>
                           pc[r] \in Returning \cup {"new"}
                      /\ pc'[r] \in First <=> pc[r] \in First
                      /\ pc'[r] \in Mid <=> pc[r] \in Mid
                      /\ pc'[r] = "clearFlag" <=> pc[r] = "clearFlag"
                      /\ pc'[r] = "endBarrier" <=> pc[r] = "endBarrier"
                      /\ pc'[r] = "await" <=> pc[r] = "await"
                      /\ pc'[r] = "idle" <=> pc[r] = "idle"
                      /\ pc'[r] \in Got <=> pc[r] \in Got
  BY <1>1, <1>7 DEF Returning, First, Within, Got, Mid
<1>10. SubRounds'
  <2>1. KeepsPace(s)'
    BY <1>1, <1>3, <1>7, <1>8
    DEF KeepsPace, Returning, First, Awaiting, Within, Got, Mid, Leaving
  <2>2. ASSUME NEW r \in Subs, r # s
        PROVE  KeepsPace(r)'
    BY <1>1, <1>2, <1>7, <1>8, <2>2 DEF RoundInv, SubInv, SubRounds, KeepsPace
  <2> QED
    BY <2>1, <2>2 DEF SubRounds
<1>11. SubTogether'
  BY <1>9 DEF RoundInv, SubInv, SubTogether
<1>12. SubFlag'
  BY <1>1, <1>2, <1>8, <1>9 DEF RoundInv, SubInv, SubFlag
<1>13. SubRegistered'
  <2>1. subscribers' = {r \in Subs : pc'[r] \notin {"new"} \cup Gone}
    BY <1>1, <1>2, <1>7 DEF RoundInv, SubInv, SubRegistered, Gone
  <2> QED
    BY <1>2, <1>9, <2>1 DEF RoundInv, SubInv, SubRegistered
<1>14. RendezVous'
  BY <1>1, <1>7 DEF RoundInv, SubInv, RendezVous
<1>15. PubInv' /\ MeetInv'
  <2>1. Owing' = Owing
    BY <1>2, <1>8, <1>9 DEF Owing
  <2>2. \A r \in Subs : begun'[r] >= begun[r] /\ begun'[r] <= plan[r]
    BY <1>1, PubsAndSubs DEF RoundInv, MeetInv, Quotas, TypeOK, Regular
  <2>3. currentPub = 0 =>
          /\ currentSub' = 0
          /\ \A r \in Subs : pc'[r] \in {"new", "idle", "first", "cvFirst"}
    BY <1>2, <1>7 DEF RoundInv, MeetInv, Opened
  <2> QED
    BY <1>1, <1>7, <1>8, <1>9, <2>1, <2>2, <2>3, SubKeepsMeeting
<1> QED
  BY <1>10, <1>11, <1>12, <1>13, <1>14, <1>15 DEF RoundInv, SubInv

\* A subscriber that looks for the completed transaction is in the round that
\* everybody has begun.
LEMMA AwaitsItsRound ==
  ASSUME Regular, TypeOK, RoundInv, NEW s \in Subs, pc[s] = "await", Turn(s)
  PROVE  /\ currentSub = Received + 1 /\ ~Clearing /\ currentPub > 0
         /\ \A r \in Subs : pc[r] \notin Returning \cup {"new"}
         /\ ~subInProgress => currentSub > completedPub
<1>1. \A r \in Subs : pc[r] \in Returning => begun[r] = 0
  BY SubTurn DEF Returning
<1>2. currentPub > 0
  <2>1. currentPub # 0 /\ currentPub \in Nat
    BY DEF RoundInv, MeetInv, Opened, TypeOK
  <2> QED
    BY <2>1
<1>3. \A r \in Subs : pc[r] \notin Returning \cup {"new"}
  <2>1. \A r \in Subs : begun[r] > 0 /\ pc[r] # "new"
    BY <1>2, PubsAndSubs DEF RoundInv, MeetInv, Opened
  <2>2. \A r \in Subs : begun[r] # 0
    BY <2>1
  <2> QED
    BY <1>1, <2>1, <2>2
<1>4. ~Clearing /\ \A r \in Subs : pc[r] # "idle"
  BY <1>3 DEF Clearing, Returning
<1>5. ~subInProgress => currentSub > completedPub
  BY <1>4, Bounds DEF RoundInv, SubInv, SubFlag
<1>6. Received = currentSub - 1
  BY <1>4, <1>5, Bounds DEF Received
<1> QED
  BY <1>2, <1>3, <1>4, <1>5, <1>6, Bounds

LEMMA AwaitCompletedKeeps ==
  ASSUME Regular, TypeOK, RoundInv, NEW s \in Subs, AwaitCompleted(s)
  PROVE  RoundInv'
<1>1. /\ pc[s] = "await" /\ Turn(s) /\ pc' = Goto(s, AwaitOutcome)
      /\ subInProgress' = (subInProgress /\ ~(AwaitOutcome \in {"canceled", "eos"}))
      /\ UNCHANGED <<begun, plan, registry, pubSide, currentSub, status, rdv, requests>>
      /\ SubStep(s)
  BY DEF AwaitCompleted, At, SubStep, client, transport, messages
<1>2. UNCHANGED <<completedPub, pubStreamEnded, subscribers, subBarrier>>
  BY <1>1 DEF registry, pubSide, status
<1>3. /\ currentSub = Received + 1 /\ ~Clearing /\ currentPub > 0
      /\ \A r \in Subs : pc[r] \notin Returning \cup {"new"}
      /\ ~subInProgress => currentSub > completedPub
  BY <1>1, AwaitsItsRound
<1>4. \/ AwaitOutcome = "tx" /\ completedPub = currentSub
      \/ AwaitOutcome = "cvCompleted" /\ completedPub = Received
      \/ AwaitOutcome = "eos" /\ completedPub = Received /\ pubStreamEnded
  <2>1. ~Canceled(currentSub)
    BY <1>3, Bounds DEF Canceled
  <2> QED
    BY <1>3, <2>1, Bounds DEF AwaitOutcome
<1>5. /\ pc'[s] \in {"tx", "cvCompleted", "eos"} /\ pc'[s] = AwaitOutcome
      /\ \A r \in Subs : r # s => pc'[r] = pc[r]
      /\ pc'[s] # "eos" => subInProgress' = subInProgress
      /\ pc'[s] = "eos" => ~subInProgress' /\ pubStreamEnded /\ completedPub = Received
  <2>1. subInProgress \in BOOLEAN
    BY DEF TypeOK
  <2>2. pc'[s] = AwaitOutcome /\ \A r \in Subs : r # s => pc'[r] = pc[r]
    BY <1>1, GotoSub
  <2> QED
    BY <1>1, <1>4, <2>1, <2>2
<1>6. ~Clearing'
  BY <1>3, <1>5 DEF Clearing
<1>7. Received' = Received
  BY <1>1, <1>2, <1>3, <1>4, <1>5, <1>6, Bounds DEF Received
<1>8. \A r \in Subs : /\ pc'[r] \notin Returning \cup {"new"}
                      /\ pc'[r] \in Mid <=> pc[r] \in Mid
                      /\ pc'[r] = "clearFlag" <=> pc[r] = "clearFlag"
                      /\ pc'[r] = "endBarrier" <=> pc[r] = "endBarrier"
                      /\ pc'[r] \in Got <=> pc[r] \in Got
  BY <1>1, <1>3, <1>5 DEF Returning, Got, Mid
<1>9. SubRounds'
  <2>1. KeepsPace(s)'
    <3>1. begun[s] = Received + 1
      BY <1>1 DEF RoundInv, SubInv, SubRounds, KeepsPace, Awaiting
    <3> QED
      BY <1>1, <1>2, <1>3, <1>4, <1>5, <1>7, <3>1
      DEF KeepsPace, Returning, First, Awaiting, Within, Got, Mid, Leaving
  <2>2. ASSUME NEW r \in Subs, r # s
        PROVE  KeepsPace(r)'
    BY <1>1, <1>2, <1>5, <1>7, <2>2 DEF RoundInv, SubInv, SubRounds, KeepsPace
  <2> QED
    BY <2>1, <2>2 DEF SubRounds
<1>10. SubTogether'
  BY <1>8 DEF RoundInv, SubInv, SubTogether
<1>11. SubFlag'
  <2>1. subInProgress' => subInProgress
    BY <1>1
  <2>2. \A r \in Subs : pc'[r] = "await" => pc[r] = "await" /\ r # s
    BY <1>5
  <2>3. ~subInProgress' => currentSub > completedPub
    BY <1>3, <1>5, Bounds
  <2>4. currentSub > completedPub /\ ~subInProgress' =>
          /\ pubStreamEnded
          /\ \A r \in Subs : pc'[r] \notin First \cup Returning \cup {"new"}
    <3>1. CASE pc'[s] # "eos"
      BY <1>5, <3>1 DEF RoundInv, SubInv, SubFlag, First, Returning
    <3>2. CASE pc'[s] = "eos"
      <4>1. Received > 0
        <5>1. PICK p \in Pubs : TRUE
          BY DEF Regular
        <5>2. plan[p] = completedPub /\ plan[p] > 0
          BY <1>5, <3>2 DEF RoundInv, MeetInv, Meeting, Quotas
        <5> QED
          BY <1>5, <3>2, <5>2
      <4>2. \A r \in Subs : pc[r] \notin First
        BY <4>1, Bounds DEF RoundInv, SubInv, SubRounds, KeepsPace
      <4>3. \A r \in Subs : pc'[r] \notin First
        BY <1>5, <4>2 DEF First
      <4> QED
        BY <1>5, <1>8, <3>2, <4>3
    <3> QED
      BY <3>1, <3>2
  <2> QED
    BY <1>1, <1>2, <1>6, <2>1, <2>3, <2>4, Bounds DEF RoundInv, SubInv, SubFlag
<1>12. SubRegistered'
  <2>1. subscribers' = {r \in Subs : pc'[r] \notin {"new"} \cup Gone}
    BY <1>1, <1>2, <1>5 DEF RoundInv, SubInv, SubRegistered, Gone
  <2> QED
    BY <1>2, <1>8, <2>1 DEF RoundInv, SubInv, SubRegistered
<1>13. RendezVous'
  BY <1>1, <1>5 DEF RoundInv, SubInv, RendezVous
<1>14. PubInv' /\ MeetInv'
  <2>1. Owing' = Owing
    BY <1>2, <1>7, <1>8 DEF Owing
  <2>2. \A r \in Subs : begun'[r] >= begun[r] /\ begun'[r] <= plan[r]
    BY <1>1, PubsAndSubs DEF RoundInv, MeetInv, Quotas, TypeOK, Regular
  <2> QED
    BY <1>1, <1>3, <1>7, <1>8, <2>1, <2>2, SubKeepsMeeting
<1> QED
  BY <1>9, <1>10, <1>11, <1>12, <1>13, <1>14 DEF RoundInv, SubInv

\* While a subscriber is in a transaction, every publisher waits for its
\* request.
LEMMA TransactionOpen ==
  ASSUME Regular, TypeOK, RoundInv, NEW s \in Subs, pc[s] = "tx"
  PROVE  /\ \A p \in Pubs : pc[p] = "serve" /\ <<p, s>> \in rdv
         /\ ~Committing /\ publishers = Pubs /\ s \in Owing
         /\ completedPub = Received + 1 /\ begun[s] = completedPub
         /\ currentPub = completedPub
         /\ \A p \in Pubs : <<completedPub, p>> \in blocks
<1>1. completedPub = currentSub /\ currentSub = Received + 1 /\ begun[s] = Received + 1
  BY DEF RoundInv, SubInv, SubRounds, KeepsPace, Within
<1>2. completedPub # Received /\ s \in Owing
  BY <1>1, Bounds DEF Owing, Got, Mid
<1>3. \A p \in Pubs : pc[p] = "serve"
  BY <1>2 DEF RoundInv, MeetInv, Meeting, Got, Mid
<1>4. ~Committing
  BY <1>3 DEF Committing
<1>5. publishers = Pubs
  BY <1>3 DEF RoundInv, PubInv, PubRegistered, Gone
<1>6. \A p \in Pubs : <<p, s>> \in rdv
  BY <1>1, Bounds DEF RoundInv, SubInv, RendezVous
<1>7. currentPub = completedPub
  <2>1. Finishing
    BY <1>3 DEF Finishing, Serving, Regular
  <2> QED
    BY <1>3, <1>4, <2>1 DEF RoundInv, PubInv, PubFlag, Departing, Round
<1> QED
  BY <1>1, <1>2, <1>3, <1>4, <1>5, <1>6, <1>7 DEF RoundInv, MeetInv, Recorded, Published

LEMMA GetKeeps ==
  ASSUME Regular, TypeOK, RoundInv, NEW s \in Subs, NEW wanted \in SUBSET Pubs,
         Get(s, wanted)
  PROVE  RoundInv'
<1>0. /\ pc[s] = "tx" /\ SubStep(s)
      /\ UNCHANGED <<begun, plan, registry, pubSide, subSide, status, blocks, pending,
                     rdv, puts>>
  BY DEF Get, At, SubStep, client
<1>1. /\ \A p \in Pubs : pc[p] = "serve" /\ <<p, s>> \in rdv
      /\ ~Committing /\ publishers = Pubs /\ s \in Owing
      /\ completedPub = Received + 1
  BY <1>0, TransactionOpen
<1>2. /\ pc' = Goto(s, "get")
      /\ requests' = [p \in Pubs |->
           IF p \in publishers \cup wanted
           THEN Append(requests[p], [from |-> s, wants |-> p \in wanted])
           ELSE requests[p]]
  <2>1. wanted \X {s} \subseteq rdv
    BY <1>1
  <2> QED
    BY <2>1 DEF Get
<1> DEFINE message(p) == [from |-> s, wants |-> p \in wanted]
<1>3. \A p \in Pubs : /\ requests'[p] = Append(requests[p], message(p))
                      /\ requests[p] \in Seq(Request) /\ message(p) \in Request
                      /\ message(p).from = s
  <2>1. \A p \in Pubs : message(p) \in Request /\ message(p).from = s
    BY DEF Request
  <2> HIDE DEF message
  <2>2. requests' = [p \in Pubs |-> IF p \in publishers \cup wanted
                                   THEN Append(requests[p], message(p))
                                   ELSE requests[p]]
    BY <1>2, Zenon DEF message
  <2>3. \A p \in Pubs : requests'[p] = Append(requests[p], message(p))
    BY <1>1, <2>2
  <2> QED
    BY <2>1, <2>3 DEF TypeOK
<1> HIDE DEF message
<1>4. \A p \in Pubs :
        /\ Len(requests'[p]) = Len(requests[p]) + 1 /\ Len(requests[p]) \in Nat
        /\ \A i \in 1..Len(requests[p]) : requests'[p][i] = requests[p][i]
        /\ requests'[p][Len(requests[p]) + 1].from = s
  <2> SUFFICES ASSUME NEW p \in Pubs
               PROVE  /\ Len(requests'[p]) = Len(requests[p]) + 1
                      /\ Len(requests[p]) \in Nat
                      /\ \A i \in 1..Len(requests[p]) : requests'[p][i] = requests[p][i]
                      /\ requests'[p][Len(requests[p]) + 1].from = s
    OBVIOUS
  <2>1. requests'[p][Len(requests[p]) + 1] = message(p)
    BY <1>3
  <2> QED
    BY <1>3, <2>1
<1>5. UNCHANGED <<currentPub, completedPub, currentSub, subInProgress, pubStreamEnded,
                  subscribers, subBarrier, canceledTx>>
  BY <1>0 DEF registry, pubSide, subSide, status
<1>6. /\ pc'[s] = "get" /\ \A r \in Subs : r # s => pc'[r] = pc[r]
      /\ \A p \in Pubs : pc'[p] = pc[p]
  <2>1. \A p \in Pubs : pc'[p] = pc[p]
    BY <1>2, PubsAndSubs DEF Goto, TypeOK, PlacesOK
  <2> QED
    BY <1>2, <2>1, GotoSub
<1>7. (Clearing' <=> Clearing) /\ Received' = Received
  <2>1. Clearing' <=> Clearing
    BY <1>0, <1>6 DEF Clearing
  <2> QED
    BY <1>5, <2>1 DEF Received
<1>8. \A r \in Subs : /\ pc'[r] \in {"cvCompleted", "eos"} \cup Within <=>
                           pc[r] \in {"cvCompleted", "eos"} \cup Within
                      /\ pc'[r] \in Within <=> pc[r] \in Within
                      /\ pc'[r] \in Returning \cup {"new"} <=>
                           pc[r] \in Returning \cup {"new"}
                      /\ pc'[r] \in First <=> pc[r] \in First
                      /\ pc'[r] \in Mid <=> pc[r] \in Mid
                      /\ pc'[r] = "clearFlag" <=> pc[r] = "clearFlag"
                      /\ pc'[r] = "endBarrier" <=> pc[r] = "endBarrier"
                      /\ pc'[r] = "await" <=> pc[r] = "await"
                      /\ pc'[r] = "idle" <=> pc[r] = "idle"
                      /\ pc'[r] \in Got <=> pc[r] \in Got \/ r = s
  BY <1>0, <1>6 DEF Returning, First, Within, Got, Mid
<1>9. SubRounds'
  <2>1. KeepsPace(s)'
    BY <1>0, <1>5, <1>6, <1>7
    DEF RoundInv, SubInv, SubRounds, KeepsPace, Returning, First, Awaiting, Within,
        Got, Mid, Leaving
  <2>2. ASSUME NEW r \in Subs, r # s
        PROVE  KeepsPace(r)'
    BY <1>0, <1>5, <1>6, <1>7, <2>2 DEF RoundInv, SubInv, SubRounds, KeepsPace
  <2> QED
    BY <2>1, <2>2 DEF SubRounds
<1>10. SubTogether' /\ SubFlag'
  BY <1>0, <1>5, <1>7, <1>8 DEF RoundInv, SubInv, SubTogether, SubFlag
<1>11. SubRegistered'
  <2>1. subscribers' = {r \in Subs : pc'[r] \notin {"new"} \cup Gone}
    BY <1>0, <1>5, <1>6 DEF RoundInv, SubInv, SubRegistered, Gone
  <2> QED
    BY <1>5, <1>8, <2>1 DEF RoundInv, SubInv, SubRegistered
<1>12. RendezVous'
  <2>1. \A r \in Subs : pc'[r] \notin {"first", "cvFirst"} /\ begun'[r] > 0 =>
          \A p \in Pubs : <<p, r>> \in rdv'
    BY <1>0, <1>1, <1>6 DEF RoundInv, SubInv, RendezVous
  <2>2. ASSUME NEW p \in Pubs, NEW i \in 1..Len(requests'[p])
        PROVE  <<p, requests'[p][i].from>> \in rdv'
    <3>1. i \in 1..Len(requests[p]) \/ i = Len(requests[p]) + 1
      BY <1>4, <2>2
    <3> QED
      BY <1>0, <1>1, <1>4, <3>1 DEF RoundInv, SubInv, RendezVous
  <2> QED
    BY <2>1, <2>2 DEF RendezVous
<1>13. PubInv' /\ Recorded' /\ (Committing' <=> Committing)
  <2>1. \A p \in Pubs : Waits(p) /\ begun'[p] = begun[p]
    BY <1>0, <1>6 DEF Waits
  <2> QED
    BY <1>0, <2>1, PubsUndisturbed DEF registry
<1>14. Quotas' /\ Opened' /\ Arrived'
  <2>1. Quotas'
    BY <1>0, <1>5, QuotasKept DEF RoundInv, MeetInv
  <2>2. \A a \in Actors : pc[a] # "new" => pc'[a] # "new"
    BY <1>6 DEF Actors
  <2>3. currentPub # 0
    BY <1>0 DEF RoundInv, MeetInv, Opened
  <2>4. Opened'
    BY <1>0, <1>5, <2>2, <2>3 DEF RoundInv, MeetInv, Opened
  <2>5. Arrived'
    BY <1>0, <1>5, <1>6 DEF RoundInv, MeetInv, Arrived
  <2> QED
    BY <2>1, <2>4, <2>5
<1>15. Meeting'
  BY <1>0, <1>1, <1>5, <1>6, <1>7 DEF RoundInv, MeetInv, Meeting
<1>16. Balance'
  <2>1. Owing' = Owing \ {s}
    BY <1>1, <1>5, <1>7, <1>8, Bounds DEF Owing
  <2>2. IsFiniteSet(Owing)
    BY ActorsAssumption, FS_Subset, FS_EmptySet DEF Owing
  <2>3. Cardinality(Owing') = Cardinality(Owing) - 1 /\ Cardinality(Owing) \in Nat
    BY <1>1, <2>1, <2>2, FS_RemoveElement, FS_CardinalityType
  <2>4. \A p \in Pubs : pending'[p] = Len(requests'[p]) + Cardinality(Owing')
    <3> SUFFICES ASSUME NEW p \in Pubs
                 PROVE  pending'[p] = Len(requests'[p]) + Cardinality(Owing')
      OBVIOUS
    <3>1. pending[p] = Len(requests[p]) + Cardinality(Owing) /\ pending'[p] = pending[p]
      BY <1>0, <1>1 DEF RoundInv, MeetInv, Balance
    <3>2. Len(requests'[p]) = Len(requests[p]) + 1 /\ Len(requests[p]) \in Nat
      BY <1>4
    <3> QED
      BY <2>3, <3>1, <3>2
  <2> QED
    BY <1>1, <1>6, <1>13, <2>4 DEF Balance, Published
<1> QED
  BY <1>9, <1>10, <1>11, <1>12, <1>13, <1>14, <1>15, <1>16
  DEF RoundInv, SubInv, MeetInv

\* Subscribers move between their request and the end of their transaction.
LEMMA GotMoves ==
  ASSUME Regular, TypeOK, RoundInv, NEW s \in Subs, SubStep(s), pc[s] \in Got,
         \A r \in Subs : pc'[r] = pc[r] \/ (pc[r] \in Got /\ pc'[r] \in Got),
         UNCHANGED <<currentSub, subInProgress, subscribers>>,
         subBarrier' \in {0, Cardinality(Subs)},
         (\E r \in Subs : pc'[r] \in {"endBarrier"} \cup Mid) => subBarrier' # 0,
         \A q, r \in Subs : pc'[q] \in Mid => pc'[r] \in Mid
  PROVE  RoundInv'
<1>1. /\ ~BeginSub(s) /\ ~AwaitFirst(s) /\ \A wanted \in SUBSET Pubs : ~Get(s, wanted)
      /\ UNCHANGED <<begun, plan, rdv, requests, completedPub, pubStreamEnded>>
  <2>1. ~BeginSub(s) /\ ~AwaitFirst(s) /\ \A wanted \in SUBSET Pubs : ~Get(s, wanted)
    BY DEF BeginSub, Begins, AwaitFirst, Get, At, Got, Mid
  <2> QED
    BY <2>1, SubFrame DEF pubSide
<1>2. \A r \in Subs :
        /\ pc'[r] \in Got <=> pc[r] \in Got
        /\ pc'[r] \in Within <=> pc[r] \in Within
        /\ pc'[r] \in Returning \cup {"new"} <=> pc[r] \in Returning \cup {"new"}
        /\ pc'[r] \in First <=> pc[r] \in First
        /\ pc'[r] \in Awaiting <=> pc[r] \in Awaiting
        /\ pc'[r] \in Leaving <=> pc[r] \in Leaving
        /\ pc'[r] \in {"new"} \cup Gone <=> pc[r] \in {"new"} \cup Gone
        /\ pc'[r] \in {"first", "cvFirst"} <=> pc[r] \in {"first", "cvFirst"}
        /\ \A place \in {"new", "idle", "clearFlag", "cvCompleted", "eos", "await",
                         "canceled", "crashed"} :
             pc'[r] = place <=> pc[r] = place
  BY DEF Got, Mid, Within, Returning, First, Awaiting, Leaving, Gone
<1>3. (Clearing' <=> Clearing) /\ Received' = Received
  <2>1. Clearing' <=> Clearing
    BY <1>2 DEF Clearing
  <2> QED
    BY <1>1, <2>1 DEF Received
<1>4. SubRounds'
  BY <1>1, <1>2, <1>3 DEF RoundInv, SubInv, SubRounds, KeepsPace
<1>5. SubTogether'
  BY <1>2 DEF RoundInv, SubInv, SubTogether
<1>6. SubFlag'
  BY <1>1, <1>2, <1>3 DEF RoundInv, SubInv, SubFlag
<1>7. SubRegistered' /\ RendezVous'
  BY <1>1, <1>2 DEF RoundInv, SubInv, SubRegistered, RendezVous
<1>8. PubInv' /\ MeetInv'
  <2>1. Owing' = Owing
    BY <1>1, <1>2, <1>3 DEF Owing
  <2>2. \A r \in Subs : begun'[r] >= begun[r] /\ begun'[r] <= plan[r]
    BY <1>1, PubsAndSubs DEF RoundInv, MeetInv, Quotas, TypeOK, Regular
  <2>3. currentPub # 0
    BY DEF RoundInv, MeetInv, Opened, Got, Mid
  <2> QED
    BY <1>1, <1>2, <1>3, <2>1, <2>2, <2>3, SubKeepsMeeting
<1> QED
  BY <1>4, <1>5, <1>6, <1>7, <1>8 DEF RoundInv, SubInv

\* Where the others are when a subscriber is in a transaction.
LEMMA WithinTogether ==
  ASSUME Regular, TypeOK, RoundInv, NEW s \in Subs, pc[s] \in Within
  PROVE  /\ subscribers = Subs
         /\ completedPub = currentSub /\ currentSub = Received + 1 /\ subInProgress
         /\ \A r \in Subs : pc[r] \notin {"new"} \cup Returning \cup Leaving
<1>1. completedPub = currentSub /\ currentSub = Received + 1
  BY DEF RoundInv, SubInv, SubRounds, KeepsPace
<1>2. subInProgress
  BY <1>1, Bounds DEF Received
<1>3. \A r \in Subs : pc[r] \notin {"new"} \cup Returning
  BY DEF RoundInv, SubInv, SubTogether
<1>4. \A r \in Subs : pc[r] \notin Leaving
  BY <1>1, Bounds DEF RoundInv, SubInv, SubRounds, KeepsPace
<1>5. subscribers = Subs
  <2>1. \A r \in Subs : pc[r] \notin {"new"} \cup Gone
    BY <1>3, <1>4 DEF Gone, Leaving
  <2> QED
    BY <2>1 DEF RoundInv, SubInv, SubRegistered
<1> QED
  BY <1>1, <1>2, <1>3, <1>4, <1>5

LEMMA EndSubKeeps ==
  ASSUME Regular, TypeOK, RoundInv, NEW s \in Subs, EndSub(s)
  PROVE  RoundInv'
<1>1. /\ pc[s] = "get" /\ SubStep(s)
      /\ subBarrier' = BarrierFor(subBarrier, subscribers)
      /\ Arrive(s, Subs, subBarrier', "endBarrier", "collect")
      /\ UNCHANGED <<currentSub, subInProgress, subscribers>>
  BY DEF EndSub, At, SubStep, subSide
<1>2. /\ subscribers = Subs
      /\ \A r \in Subs : pc[r] \notin {"new"} \cup Returning \cup Leaving
  BY <1>1, WithinTogether DEF Within, Got
<1>3. subBarrier' = Cardinality(Subs) /\ Cardinality(Subs) # 0
  <2>1. Cardinality(Subs) # 0
    BY ActorsAssumption, FS_EmptySet DEF Regular
  <2> QED
    BY <1>1, <1>2, <2>1 DEF BarrierFor, RoundInv, SubInv, SubRegistered
<1>4. \A r \in Subs : pc[r] \notin Mid
  BY <1>1 DEF RoundInv, SubInv, SubTogether, Mid
<1>5. \/ pc'[s] = "endBarrier" /\ \A r \in Subs : r # s => pc'[r] = pc[r]
      \/ /\ pc'[s] = "collect"
         /\ \A r \in Subs : r # s => pc[r] \in AtBarrier /\ pc'[r] = Resumed(r)
  BY <1>1, <1>3, ArriveAllOf DEF AtBarrier
<1>6. \A r \in Subs : pc[r] \in AtBarrier => pc[r] = "endBarrier" /\ Resumed(r) = "over"
  BY <1>2, <1>4, PubsAndSubs DEF AtBarrier, Mid, Leaving, Resumed
<1>7. CASE pc'[s] = "endBarrier" /\ \A r \in Subs : r # s => pc'[r] = pc[r]
  <2>1. \A r \in Subs : pc'[r] \notin Mid
    BY <1>4, <1>7 DEF Mid
  <2> QED
    BY <1>1, <1>3, <1>7, <2>1, GotMoves DEF Got
<1>8. CASE /\ pc'[s] = "collect"
           /\ \A r \in Subs : r # s => pc[r] \in AtBarrier /\ pc'[r] = Resumed(r)
  <2>1. \A r \in Subs : r # s => pc[r] = "endBarrier" /\ pc'[r] = "over"
    BY <1>6, <1>8
  <2>2. \A r \in Subs : pc[r] \in Got /\ pc'[r] \in Got /\ pc'[r] \in Mid
    BY <1>1, <1>8, <2>1 DEF Got, Mid
  <2> QED
    BY <1>1, <1>3, <2>2, GotMoves
<1> QED
  BY <1>5, <1>7, <1>8

LEMMA CollectKeeps ==
  ASSUME Regular, TypeOK, AbortedOnlyByCancel, RoundInv, NEW s \in Subs, Collect(s)
  PROVE  RoundInv'
<1>1. ~subAborted
  BY Bounds DEF AbortedOnlyByCancel
<1>2. /\ pc[s] = "collect" /\ SubStep(s) /\ pc' = Goto(s, "over")
      /\ UNCHANGED <<currentSub, subInProgress, subscribers, subBarrier>>
  BY <1>1 DEF Collect, At, SubStep, registry
<1>3. pc'[s] = "over" /\ \A r \in Subs : r # s => pc'[r] = pc[r]
  BY <1>2, GotoSub
<1>4. \A r \in Subs : pc[r] \in Mid /\ pc'[r] \in Mid
  BY <1>2, <1>3 DEF RoundInv, SubInv, SubTogether, Mid
<1>5. subBarrier \in {0, Cardinality(Subs)} /\ subBarrier # 0
  BY <1>4 DEF RoundInv, SubInv, SubRegistered, Regular
<1> QED
  BY <1>2, <1>3, <1>4, <1>5, GotMoves DEF Got

\* The end of a transaction: the last subscriber lets the others go, and then
\* clears the flag.
LEMMA OverKeeps ==
  ASSUME Regular, TypeOK, RoundInv, NEW s \in Subs, Over(s)
  PROVE  RoundInv'
<1>1. /\ pc[s] = "over" /\ SubStep(s)
      /\ Arrive(s, Subs, subBarrier, "overBarrier", "clearFlag")
      /\ UNCHANGED <<begun, plan, registry, pubSide, subSide, status, rdv, requests>>
  BY DEF Over, At, SubStep, client, transport, messages
<1>2. UNCHANGED <<currentSub, subInProgress, completedPub, pubStreamEnded, subscribers,
                  subBarrier>>
  BY <1>1 DEF registry, pubSide, subSide, status
<1>3. \A r \in Subs : pc[r] \in Mid
  BY <1>1 DEF RoundInv, SubInv, SubTogether, Mid
<1>4. subBarrier = Cardinality(Subs) /\ subBarrier # 0
  BY <1>3 DEF RoundInv, SubInv, SubRegistered, Regular
<1>5. \/ pc'[s] = "overBarrier" /\ \A r \in Subs : r # s => pc'[r] = pc[r]
      \/ /\ pc'[s] = "clearFlag"
         /\ \A r \in Subs : r # s => pc[r] \in AtBarrier /\ pc'[r] = Resumed(r)
  BY <1>1, <1>4, ArriveAllOf DEF AtBarrier
<1>6. CASE pc'[s] = "overBarrier" /\ \A r \in Subs : r # s => pc'[r] = pc[r]
  <2>1. \A r \in Subs : pc[r] \in Got /\ pc'[r] \in Got /\ pc'[r] \in Mid
    BY <1>1, <1>3, <1>6 DEF Got, Mid
  <2> QED
    BY <1>1, <1>2, <1>4, <2>1, GotMoves
<1>7. CASE /\ pc'[s] = "clearFlag"
           /\ \A r \in Subs : r # s => pc[r] \in AtBarrier /\ pc'[r] = Resumed(r)
  <2>1. \A r \in Subs : r # s => pc'[r] = "release"
    BY <1>3, <1>7, PubsAndSubs DEF Mid, AtBarrier, Resumed
  <2>2. /\ \A r \in Subs : pc'[r] \in {"release", "clearFlag"}
        /\ \A r \in Subs : pc'[r] = "clearFlag" <=> r = s
    BY <1>7, <2>1
  <2>3. completedPub = currentSub /\ currentSub = Received + 1 /\ subInProgress
    BY <1>1, WithinTogether DEF Within, Got, Mid
  <2>4. Clearing' /\ Received' = Received + 1
    <3>1. Clearing'
      BY <2>2 DEF Clearing
    <3> QED
      BY <1>2, <2>3, <3>1, Bounds DEF Received
  <2>5. SubRounds'
    <3>1. \A r \in Subs : begun[r] = Received + 1
      BY <1>3 DEF RoundInv, SubInv, SubRounds, KeepsPace, Within, Got
    <3> QED
      BY <1>1, <2>2, <2>4, <3>1
      DEF SubRounds, KeepsPace, First, Awaiting, Within, Got, Mid, Leaving
  <2>6. SubTogether'
    BY <2>2 DEF SubTogether, Within, Got, Mid
  <2>7. SubFlag'
    BY <1>2, <2>2, <2>3, Bounds DEF SubFlag
  <2>8. SubRegistered'
    BY <1>2, <1>3, <1>4, <2>2 DEF RoundInv, SubInv, SubRegistered, Mid, Gone
  <2>9. RendezVous'
    BY <1>1, <1>3 DEF RoundInv, SubInv, RendezVous, Mid
  <2>10. PubInv' /\ MeetInv'
    <3>1. Owing = {} /\ Owing' = {}
      BY <1>2, <1>3, <2>3, <2>4 DEF Owing, Got
    <3>2. \A r \in Subs : begun'[r] >= begun[r] /\ begun'[r] <= plan[r]
      BY <1>1, PubsAndSubs DEF RoundInv, MeetInv, Quotas, TypeOK, Regular
    <3>3. currentPub # 0
      BY <1>1 DEF RoundInv, MeetInv, Opened
    <3>4. Received' = completedPub
      BY <2>3, <2>4
    <3> QED
      BY <1>1, <2>2, <3>1, <3>2, <3>3, <3>4, SubKeepsMeeting
  <2> QED
    BY <2>5, <2>6, <2>7, <2>8, <2>9, <2>10 DEF RoundInv, SubInv
<1> QED
  BY <1>5, <1>6, <1>7

LEMMA ReleaseSubKeeps ==
  ASSUME Regular, TypeOK, RoundInv, NEW s \in Subs, ReleaseSub(s)
  PROVE  RoundInv'
<1>1. /\ pc[s] \in {"release", "clearFlag"} /\ pc' = Goto(s, "idle") /\ SubStep(s)
      /\ subInProgress' = (subInProgress /\ pc[s] = "release")
      /\ UNCHANGED <<begun, plan, registry, pubSide, currentSub, status, rdv, requests>>
  BY DEF ReleaseSub, At, SubStep, client, transport, messages
<1>2. /\ UNCHANGED <<completedPub, pubStreamEnded, subscribers, subBarrier>>
      /\ subInProgress \in BOOLEAN
  BY <1>1 DEF registry, pubSide, status, TypeOK
<1>3. pc'[s] = "idle" /\ \A r \in Subs : r # s => pc'[r] = pc[r]
  BY <1>1, GotoSub
<1>4. \A r \in Subs : /\ pc'[r] \in {"cvCompleted", "eos"} \cup Within <=>
                           pc[r] \in {"cvCompleted", "eos"} \cup Within
                      /\ pc'[r] \in Returning \cup {"new"} <=>
                           pc[r] \in Returning \cup {"new"}
                      /\ pc'[r] \in {"new"} \cup Gone <=> pc[r] \in {"new"} \cup Gone
                      /\ pc'[r] \in {"endBarrier"} \cup Mid <=>
                           pc[r] \in {"endBarrier"} \cup Mid
                      /\ pc'[r] \in First <=> pc[r] \in First
                      /\ pc'[r] \in Mid <=> pc[r] \in Mid
                      /\ pc'[r] \in Got <=> pc[r] \in Got
                      /\ pc'[r] = "await" <=> pc[r] = "await"
                      /\ pc'[r] = "clearFlag" => pc[r] = "clearFlag"
                      /\ pc[r] = "idle" => pc'[r] = "idle"
  BY <1>1, <1>3 DEF Returning, First, Within, Got, Mid, Gone
<1>5. begun[s] = Received
  BY <1>1 DEF RoundInv, SubInv, SubRounds, KeepsPace, Returning
<1>6. Received' = Received /\ SubFlag'
  <2>1. CASE pc[s] = "release"
    <3>1. subInProgress' = subInProgress
      BY <1>1, <1>2, <2>1
    <3>2. Clearing' <=> Clearing
      BY <1>3, <2>1 DEF Clearing
    <3>3. Received' = Received
      BY <1>1, <1>2, <3>1, <3>2 DEF Received
    <3> QED
      BY <1>1, <1>2, <1>4, <3>1, <3>2, <3>3 DEF RoundInv, SubInv, SubFlag
  <2>2. CASE pc[s] = "clearFlag"
    <3>1. Clearing
      BY <2>2 DEF Clearing
    <3>2. subInProgress /\ currentSub <= completedPub /\ currentSub > 0
      BY <3>1 DEF RoundInv, SubInv, SubFlag
    <3>3. ~Clearing'
      BY <1>3, <2>2 DEF RoundInv, SubInv, SubTogether, Clearing
    <3>4. ~subInProgress'
      BY <1>1, <2>2
    <3>5. Received = currentSub /\ Received' = currentSub
      BY <1>1, <1>2, <3>1, <3>2, <3>4 DEF Received
    <3>6. \E r \in Subs : pc'[r] = "idle" /\ begun'[r] > 0
      BY <1>1, <1>3, <1>5, <3>2, <3>5
    <3>7. ~(currentSub > completedPub)
      BY <3>2, Bounds
    <3> QED
      BY <1>1, <1>2, <3>3, <3>4, <3>5, <3>6, <3>7 DEF SubFlag
  <2> QED
    BY <1>1, <2>1, <2>2
<1>7. SubRounds'
  <2>1. KeepsPace(s)'
    BY <1>1, <1>3, <1>5, <1>6
    DEF KeepsPace, Returning, First, Awaiting, Within, Got, Mid, Leaving
  <2>2. ASSUME NEW r \in Subs, r # s
        PROVE  KeepsPace(r)'
    BY <1>1, <1>2, <1>3, <1>6, <2>2 DEF RoundInv, SubInv, SubRounds, KeepsPace
  <2> QED
    BY <2>1, <2>2 DEF SubRounds
<1>8. SubTogether' /\ SubRegistered'
  BY <1>2, <1>4 DEF RoundInv, SubInv, SubTogether, SubRegistered
<1>9. RendezVous'
  BY <1>1, <1>3 DEF RoundInv, SubInv, RendezVous
<1>10. PubInv' /\ MeetInv'
  <2>1. Owing' = Owing
    BY <1>2, <1>4, <1>6 DEF Owing
  <2>2. \A r \in Subs : begun'[r] >= begun[r] /\ begun'[r] <= plan[r]
    BY <1>1, PubsAndSubs DEF RoundInv, MeetInv, Quotas, TypeOK, Regular
  <2>3. currentPub # 0
    BY <1>1 DEF RoundInv, MeetInv, Opened
  <2>4. \A r \in Subs : pc'[r] = "new" => pc[r] = "new"
    BY <1>3
  <2> QED
    BY <1>1, <1>4, <1>6, <2>1, <2>2, <2>3, <2>4, SubKeepsMeeting
<1> QED
  BY <1>6, <1>7, <1>8, <1>9, <1>10 DEF RoundInv, SubInv

\* A subscriber closes when all that was planned is published and received.
LEMMA Finished ==
  ASSUME Regular, TypeOK, RoundInv, NEW s \in Subs,
         (pc[s] = "idle" /\ begun[s] = plan[s]) \/ pc[s] \in {"eos"} \cup Leaving
  PROVE  /\ completedPub = Received /\ begun[s] = plan[s]
         /\ begun[s] = Received \/ (begun[s] = Received + 1 /\ pubStreamEnded)
         /\ \A p \in Pubs : plan[p] = completedPub
         /\ currentPub > 0
         /\ pc[s] = "idle" => \A r \in Subs : pc[r] # "await"
<1>1. PICK p \in Pubs : TRUE
  BY DEF Regular
<1>2. /\ plan[s] \in {plan[p], plan[p] + 1} /\ begun[s] <= plan[s] /\ plan[p] > 0
      /\ \A q \in Pubs : plan[q] = plan[p]
      /\ \A r \in Subs : plan[r] = plan[s] /\ begun[r] <= plan[r]
      /\ begun[s] \in Nat /\ plan[s] \in Nat /\ plan[p] \in Nat
  BY PubsAndSubs, Bounds DEF RoundInv, MeetInv, Quotas, TypeOK
<1>3. /\ completedPub = Received /\ begun[s] = plan[s] /\ plan[p] = completedPub
      /\ begun[s] = Received \/ (begun[s] = Received + 1 /\ pubStreamEnded)
  <2>1. CASE pc[s] = "idle" /\ begun[s] = plan[s]
    <3>1. begun[s] = Received
      BY <2>1 DEF RoundInv, SubInv, SubRounds, KeepsPace, Returning
    <3> QED
      BY <1>2, <2>1, <3>1, Bounds
  <2>2. CASE pc[s] = "eos"
    <3>1. /\ begun[s] = Received + 1 /\ pubStreamEnded /\ completedPub = Received
      BY <2>2 DEF RoundInv, SubInv, SubRounds, KeepsPace
    <3>2. plan[p] = completedPub
      BY <3>1 DEF RoundInv, MeetInv, Meeting
    <3> QED
      BY <1>2, <3>1, <3>2, Bounds
  <2>3. CASE pc[s] \in Leaving
    BY <2>3 DEF RoundInv, SubInv, SubRounds, KeepsPace
  <2> QED
    BY <2>1, <2>2, <2>3
<1>4. currentPub > 0
  BY <1>2, <1>3, NothingYet DEF TypeOK
<1>5. ASSUME pc[s] = "idle", NEW r \in Subs, pc[r] = "await"
      PROVE  FALSE
  <2>1. begun[s] = Received /\ begun[r] = Received + 1
    BY <1>5 DEF RoundInv, SubInv, SubRounds, KeepsPace, Returning, Awaiting
  <2> QED
    BY <1>2, <1>3, <2>1, Bounds
<1> QED
  BY <1>2, <1>3, <1>4, <1>5

LEMMA CloseSubKeeps ==
  ASSUME Regular, TypeOK, RoundInv, NEW s \in Subs,
         CloseSub(s) \/ CloseFlushSub(s) \/ CloseLastSub(s)
  PROVE  RoundInv'
<1>1. /\ (pc[s] = "idle" /\ begun[s] = plan[s]) \/ pc[s] \in {"eos", "closeFlush", "closeLast"}
      /\ \/ /\ pc[s] # "closeLast" /\ subscribers' = subscribers
            /\ pc' = Goto(s, "closeFlush")
         \/ /\ pc[s] # "closeLast" /\ subscribers' = subscribers \ {s}
            /\ ArriveToClose(s, Subs, subBarrier)
         \/ /\ pc[s] = "closeLast" /\ subscribers' = subscribers
            /\ pc' = Goto(s, "closed")
  <2>1. pc[s] # "canceled"
    BY DEF RoundInv, SubInv, SubRounds, KeepsPace
  <2>2. CASE CloseSub(s)
    BY <2>1, <2>2 DEF CloseSub, Closes, At, LeaveSub, registry
  <2>3. CASE CloseFlushSub(s) \/ CloseLastSub(s)
    BY <2>3 DEF CloseFlushSub, CloseLastSub, At, LeaveSub, registry
  <2> QED
    BY <2>2, <2>3
<1>2. UNCHANGED <<pubSide, currentSub, subInProgress, pubStreamEnded, subBarrier>>
  BY DEF CloseSub, CloseFlushSub, CloseLastSub, LeaveSub, registry, subSide, status
<1>3. SubStep(s) /\ UNCHANGED <<begun, plan, rdv, requests, completedPub>>
  <2>1. /\ SubStep(s) /\ ~AwaitFirst(s) /\ \A wanted \in SUBSET Pubs : ~Get(s, wanted)
    BY DEF SubStep, CloseSub, Closes, CloseFlushSub, CloseLastSub, AwaitFirst, Get, At
  <2>2. begun' = begun
    BY DEF CloseSub, CloseFlushSub, CloseLastSub, client
  <2> QED
    BY <1>2, <2>1, <2>2, SubFrame DEF pubSide
<1>4. /\ completedPub = Received /\ begun[s] = plan[s]
      /\ begun[s] = Received \/ (begun[s] = Received + 1 /\ pubStreamEnded)
      /\ \A p \in Pubs : plan[p] = completedPub
      /\ currentPub > 0
      /\ pc[s] = "idle" => \A r \in Subs : pc[r] # "await"
  BY <1>1, Finished DEF Leaving
<1>5. \A r \in Subs : pc[r] \notin Within
  BY <1>4, Bounds DEF RoundInv, SubInv, SubRounds, KeepsPace
<1>6. /\ pc'[s] \in Leaving /\ (pc[s] = "closeLast" => pc'[s] = "closed")
      /\ \A r \in Subs : r # s => \/ pc'[r] = pc[r]
                                  \/ pc[r] = "closeBarrier" /\ pc'[r] = "closed"
      /\ subscribers' = IF pc'[s] \in Gone THEN subscribers \ {s} ELSE subscribers
  <2>1. CASE /\ pc[s] # "closeLast" /\ subscribers' = subscribers
             /\ pc' = Goto(s, "closeFlush")
    BY <2>1, GotoSub DEF Leaving, Gone
  <2>2. CASE /\ pc[s] = "closeLast" /\ subscribers' = subscribers
             /\ pc' = Goto(s, "closed")
    <3>1. s \notin subscribers
      BY <2>2 DEF RoundInv, SubInv, SubRegistered, Gone
    <3> QED
      BY <2>2, <3>1, GotoSub DEF Leaving, Gone
  <2>3. CASE /\ pc[s] # "closeLast" /\ subscribers' = subscribers \ {s}
             /\ ArriveToClose(s, Subs, subBarrier)
    <3>1. CASE subBarrier = 0
      BY <2>3, <3>1, GotoSub DEF ArriveToClose, Leaving, Gone
    <3>2. CASE subBarrier # 0
      <4>1. Arrive(s, Subs, Cardinality(Subs), "closeBarrier", "closeLast")
        BY <2>3, <3>2 DEF ArriveToClose, RoundInv, SubInv, SubRegistered
      <4>2. pc[s] \notin AtBarrier
        BY <1>1, <2>3 DEF AtBarrier
      <4>3. \/ pc'[s] = "closeBarrier" /\ \A r \in Subs : r # s => pc'[r] = pc[r]
            \/ /\ pc'[s] = "closeLast"
               /\ \A r \in Subs : r # s => pc[r] \in AtBarrier /\ pc'[r] = Resumed(r)
        BY <4>1, <4>2, ArriveAllOf
      <4>4. \A r \in Subs : pc[r] \in AtBarrier => pc[r] = "closeBarrier" /\ Resumed(r) = "closed"
        BY <1>5 DEF AtBarrier, Within, Got, Mid, Resumed
      <4> QED
        BY <2>3, <4>3, <4>4 DEF Leaving, Gone
    <3> QED
      BY <3>1, <3>2
  <2> QED
    BY <1>1, <2>1, <2>2, <2>3
<1>7. \A r \in Subs :
        /\ pc'[r] \notin Within
        /\ \A place \in {"new", "first", "cvFirst", "start", "await", "cvCompleted",
                         "tx", "get", "endBarrier", "clearFlag", "eos", "idle",
                         "release", "canceled", "crashed"} :
             pc'[r] = place => pc[r] = place
        /\ pc'[r] = "clearFlag" <=> pc[r] = "clearFlag"
        /\ pc[r] = "idle" => pc'[r] = "idle" \/ r = s
        /\ pc'[r] \notin Mid /\ pc[r] \notin Mid
        /\ pc'[r] \notin Got /\ pc[r] \notin Got
        /\ pc'[r] \in Returning \cup {"new"} => pc[r] \in Returning \cup {"new"}
        /\ pc'[r] \in First => pc[r] \in First
  BY <1>1, <1>5, <1>6 DEF Within, Got, Mid, Leaving, Returning, First
<1>8. (Clearing' <=> Clearing) /\ Received' = Received
  <2>1. Clearing' <=> Clearing
    BY <1>7 DEF Clearing
  <2> QED
    BY <1>2, <1>3, <2>1 DEF Received
<1>9. SubRounds'
  <2>1. KeepsPace(s)'
    BY <1>2, <1>3, <1>4, <1>6, <1>8
    DEF KeepsPace, Returning, First, Awaiting, Within, Got, Mid, Leaving
  <2>2. ASSUME NEW r \in Subs, r # s
        PROVE  KeepsPace(r)'
    <3>1. KeepsPace(r)
      BY DEF RoundInv, SubInv, SubRounds
    <3>2. CASE pc'[r] = pc[r]
      BY <1>2, <1>3, <1>8, <3>1, <3>2 DEF KeepsPace
    <3>3. CASE pc[r] = "closeBarrier" /\ pc'[r] = "closed"
      BY <1>2, <1>3, <1>8, <3>1, <3>3
      DEF KeepsPace, Returning, First, Awaiting, Within, Got, Mid, Leaving
    <3> QED
      BY <1>6, <2>2, <3>2, <3>3
  <2> QED
    BY <2>1, <2>2 DEF SubRounds
<1>10. SubTogether'
  <2>1. \A r \in Subs : pc'[r] \in {"cvCompleted", "eos"} \cup Within =>
          pc[r] \in {"cvCompleted", "eos"} \cup Within
    BY <1>7
  <2> QED
    BY <1>7, <2>1 DEF RoundInv, SubInv, SubTogether
<1>11. SubFlag'
  <2>1. ASSUME NEW q \in Subs, pc'[q] = "await", ~subInProgress, currentSub <= completedPub
        PROVE  \E r \in Subs : pc'[r] = "idle" /\ begun[r] > 0
    <3>1. pc[q] = "await"
      BY <1>7, <2>1
    <3>2. PICK r \in Subs : pc[r] = "idle" /\ begun[r] > 0
      BY <2>1, <3>1 DEF RoundInv, SubInv, SubFlag
    <3>3. r # s
      BY <1>4, <3>1, <3>2
    <3> QED
      BY <1>7, <3>2, <3>3
  <2> QED
    BY <1>2, <1>3, <1>7, <1>8, <2>1 DEF RoundInv, SubInv, SubFlag
<1>12. SubRegistered'
  <2>1. ASSUME NEW r \in Subs
        PROVE  r \in subscribers' <=> pc'[r] \notin {"new"} \cup Gone
    <3>1. r \in subscribers <=> pc[r] \notin {"new"} \cup Gone
      BY DEF RoundInv, SubInv, SubRegistered
    <3>2. CASE r = s
      BY <1>1, <1>6, <3>1, <3>2 DEF Gone, Leaving
    <3>3. CASE r # s
      BY <1>6, <3>1, <3>3 DEF Gone
    <3> QED
      BY <3>2, <3>3
  <2>2. subscribers' \subseteq Subs
    BY <1>6 DEF TypeOK
  <2> QED
    BY <1>2, <1>7, <2>1, <2>2 DEF RoundInv, SubInv, SubRegistered
<1>13. RendezVous'
  <2>1. \A r \in Subs : pc'[r] \notin {"first", "cvFirst"} => pc[r] \notin {"first", "cvFirst"}
    BY <1>1, <1>6
  <2> QED
    BY <1>3, <2>1 DEF RoundInv, SubInv, RendezVous
<1>14. PubInv' /\ MeetInv'
  <2>1. Owing' = Owing
    BY <1>3, <1>7, <1>8 DEF Owing
  <2>2. \A r \in Subs : begun'[r] >= begun[r] /\ begun'[r] <= plan[r]
    BY <1>3, PubsAndSubs DEF RoundInv, MeetInv, Quotas, TypeOK, Regular
  <2>3. \A r \in Subs : /\ pc'[r] = "new" => pc[r] = "new"
                        /\ pc[r] \in Got => pc'[r] \in Got
    BY <1>7
  <2> QED
    BY <1>3, <1>4, <1>8, <2>1, <2>2, <2>3, SubKeepsMeeting
<1> QED
  BY <1>9, <1>10, <1>11, <1>12, <1>13, <1>14 DEF RoundInv, SubInv

LEMMA SubRound ==
  ASSUME Regular, TypeOK, AbortedOnlyByCancel, RoundInv, NEW s \in Subs, SubStep(s)
  PROVE  RoundInv'
BY OpenSubKeeps, BeginSubKeeps, AwaitFirstKeeps, StartSubKeeps, AwaitCompletedKeeps,
   GetKeeps, EndSubKeeps, CollectKeeps, OverKeeps, ReleaseSubKeeps, CloseSubKeeps
DEF SubStep

-----------------------------------------------------------------------------
(* The rounds last                                                          *)

LEMMA InitRound ==
  ASSUME Regular, Init
  PROVE  RoundInv
<1>1. \A a \in Actors : pc[a] = "new" /\ begun[a] = 0
  BY DEF Init
<1>2. /\ \A p \in Pubs : pc[p] = "new" /\ begun[p] = 0
                         /\ pending[p] = 0 /\ requests[p] = <<>>
      /\ \A s \in Subs : pc[s] = "new" /\ begun[s] = 0
  BY <1>1, PubsAndSubs DEF Init
<1>3. /\ publishers = {} /\ subscribers = {} /\ pubBarrier = 0 /\ subBarrier = 0
      /\ currentPub = 0 /\ completedPub = 0 /\ ~pubInProgress
      /\ currentSub = 0 /\ ~subInProgress /\ ~pubStreamEnded /\ canceledTx = 0
      /\ blocks = {} /\ AllOver(puts)
  BY DEF Init, NoActivity, AllOver
<1>4. Quotas
  <2>1. PICK n \in MinTx..MaxTx :
          /\ plan \in [Actors -> {n, n + 1}] /\ \A p \in Pubs : plan[p] = n
          /\ \A r, s \in Subs : plan[r] = plan[s]
    BY DEF Init, Regular
  <2>2. n \in Nat /\ n > 0
    BY TxAssumption DEF Regular
  <2>3. \A s \in Subs : plan[s] \in {n, n + 1}
    BY <2>1, PubsAndSubs
  <2> QED
    BY <1>2, <1>3, <2>1, <2>2, <2>3 DEF Quotas
<1>5. ~Committing /\ ~Finishing /\ ~Clearing /\ Round = 0 /\ Received = 0
  BY <1>2, <1>3 DEF Committing, Finishing, Clearing, Serving, Round, Received
<1>6. PubInv
  BY <1>2, <1>3, <1>5
  DEF PubInv, PubRounds, InStep, PubTogether, PubFlag, PubRegistered, InRound,
      Serving, Departing, Returning
<1>7. SubInv
  BY <1>2, <1>3, <1>5
  DEF SubInv, SubRounds, KeepsPace, SubTogether, SubFlag, SubRegistered,
      RendezVous, Returning, First, Awaiting, Within, Got, Mid, Leaving
<1>8. MeetInv
  BY <1>2, <1>3, <1>4, <1>5
  DEF MeetInv, Opened, Meeting, Balance, Arrived, Recorded, Published
<1> QED
  BY <1>6, <1>7, <1>8 DEF RoundInv

\* A communication that ends is one that had not arrived.
LEMMA ElsewhereKeeps ==
  ASSUME TypeOK, RoundInv,
         UNCHANGED <<pc, client, registry, pubSide, subSide, status, messages>>,
         AllOver(puts) => AllOver(puts')
  PROVE  RoundInv'
<1>1. /\ UNCHANGED <<pc, begun, plan, subscribers, subBarrier, publishers, pubBarrier>>
      /\ UNCHANGED <<completedPub, currentPub, pubStreamEnded, canceledTx, currentSub>>
      /\ UNCHANGED <<pubSide, subSide, blocks, pending, requests, rdv>>
  BY DEF client, registry, pubSide, subSide, status, messages
<1>2. \A a \in Actors : Waits(a)
  BY <1>1 DEF Waits
<1>3. SubInv' /\ Received' = Received
  BY <1>1, <1>2, SubsUndisturbed, PubsAndSubs
<1>4. PubInv' /\ Recorded' /\ (Committing' <=> Committing)
  BY <1>1, <1>2, PubsUndisturbed, PubsAndSubs
<1>5. Quotas' /\ Opened'
  BY <1>1, QuotasKept DEF RoundInv, MeetInv, Opened
<1>6. Meeting' /\ Balance'
  <2>1. Owing' = Owing
    BY <1>1, <1>3 DEF Owing
  <2> QED
    BY <1>1, <1>3, <1>4, <2>1 DEF RoundInv, MeetInv, Meeting, Balance
<1>7. Arrived'
  BY <1>1 DEF RoundInv, MeetInv, Arrived
<1> QED
  BY <1>3, <1>4, <1>5, <1>6, <1>7 DEF RoundInv, MeetInv

LEMMA NextRound ==
  ASSUME Regular, TypeOK, AbortedOnlyByCancel, RoundInv, [Next]_vars
  PROVE  RoundInv'
<1>1. CASE \E p \in Pubs : PubStep(p)
  BY <1>1, PubRound
<1>2. CASE \E s \in Subs : SubStep(s)
  BY <1>2, SubRound
<1>3. ASSUME NEW x \in Pairs, Transfer(x)
      PROVE  RoundInv'
  <2>1. ~AllOver(puts)
    <3>1. puts[x] > 0 /\ puts[x] \in Nat
      BY <1>3 DEF Transfer, InFlight, TypeOK
    <3>2. puts[x] # 0
      BY <3>1
    <3> QED
      BY <3>2 DEF AllOver
  <2> QED
    BY <1>3, <2>1, ElsewhereKeeps DEF Transfer
<1>4. ~(\E tx \in 0..MaxTx : CancelTransaction(tx))
  BY DEF Regular, CancelTransaction
<1>5. CASE UNCHANGED vars
  BY <1>5, ElsewhereKeeps DEF vars, transport, activities, AllOver
<1> QED
  BY <1>1, <1>2, <1>3, <1>4, <1>5 DEF Next, Terminated

\* What holds in every state of such clients.
RegularInv == TypeOK /\ AbortedOnlyByCancel /\ RoundInv

\* The rounds are an inductive invariant, for any number of actors: who opens,
\* begins, ends, is resumed or closes, in any order that SimGrid may choose, and
\* whatever arrives when, leaves both sides in one round or next to each other.
THEOREM RoundsInvariant ==
  ASSUME Regular
  PROVE  Spec => []RegularInv
<1>1. Init => RoundInv
  BY InitRound
<1>2. TypeOK /\ AbortedOnlyByCancel /\ RoundInv /\ [Next]_vars => RoundInv'
  BY NextRound
<1> QED
  BY <1>1, <1>2, TypeCorrect, AbortMeansCanceled, PTL DEF Spec, RegularInv

\* Any number of publishers move together: the n-th put of each of them belongs
\* to transaction n, although each of them starts its next transaction on its
\* own, and may do so while the flag of the last one is still set.
THEOREM StagingPublishersInStep ==
  ASSUME Regular
  PROVE  Spec => []PublishersInStep
<1>1. RegularInv => PublishersInStep
  <2> SUFFICES ASSUME RegularInv, NEW p \in Pubs, pc[p] \in {"tx", "put"}
               PROVE  begun[p] = currentPub
    BY DEF PublishersInStep
  <2> QED
    BY InsideRound DEF RegularInv, InRound
<1> QED
  BY <1>1, RoundsInvariant, PTL

\* When a publisher waits for the subscribers of a transaction, or is in it,
\* everything that the previous one published has arrived: at most one
\* transaction is in flight, with any number of actors on both sides.
THEOREM StagingOneTransaction ==
  ASSUME Regular
  PROVE  Spec => []OneTransactionInFlight
<1>1. RegularInv => OneTransactionInFlight
  BY DEF RegularInv, RoundInv, MeetInv, Arrived, OneTransactionInFlight
<1> QED
  BY <1>1, RoundsInvariant, PTL

\* Every put request is served in the transaction that it was sent for: between
\* two transactions a publisher expects none and has none in its queue.
THEOREM StagingNoStrayRequest ==
  ASSUME Regular
  PROVE  Spec => []NoStrayRequest
<1>1. RegularInv => NoStrayRequest
  BY DEF RegularInv, RoundInv, MeetInv, Balance, Published, NoStrayRequest
<1> QED
  BY <1>1, RoundsInvariant, PTL

-----------------------------------------------------------------------------
(* What a subscriber reads                                                  *)

\* A subscriber's step leaves another one alone, wakes it, or resumes it from
\* the barrier where it waited.
LEMMA SubSpares ==
  ASSUME TypeOK, NEW r \in Subs, SubStep(r), NEW s \in Subs, s # r
  PROVE  Waits(s) \/ Resumes(s)
<1>1. CASE ~Arrives(r)
  BY <1>1, SubGoes DEF TypeOK, Alone
<1>2. CASE Arrives(r)
  <2>1. ASSUME NEW to, pc' = Goto(r, to)
        PROVE  pc'[s] = pc[s]
    BY <2>1, PubsAndSubs DEF Goto, TypeOK, PlacesOK
  <2>2. ASSUME NEW size, NEW at, NEW last, Arrive(r, Subs, size, at, last)
        PROVE  Waits(s) \/ Resumes(s)
    <3>1. pc'[s] = pc[s] \/ (pc[s] \in AtBarrier /\ pc'[s] = Resumed(s))
      BY <2>1, <2>2, PubsAndSubs DEF Arrive
    <3> QED
      BY <3>1, PubsAndSubs DEF AtBarrier, Resumed, Resumes, Waits
  <2>3. (\E to : pc' = Goto(r, to))
        \/ \E size, at, last : Arrive(r, Subs, size, at, last)
    BY <1>2 DEF Arrives, EndSub, Over, CloseSub, CloseFlushSub, LeaveSub,
                ArriveToClose
  <2> QED
    BY <2>1, <2>2, <2>3 DEF Waits
<1> QED
  BY <1>1, <1>2

\* The metadata knows the transaction that the subscriber is in, and nothing
\* of a later one.
LEMMA ReadsCompleted ==
  ASSUME Regular, RegularInv, NEW s \in Subs, pc[s] = "tx"
  PROVE  LastTx = begun[s] /\ Holders = Pubs
<1>1. /\ begun[s] = completedPub /\ currentPub = completedPub
      /\ \A p \in Pubs : <<completedPub, p>> \in blocks
      /\ \A b \in blocks : b[1] <= completedPub /\ b[1] \in Nat
      /\ completedPub \in Nat
  BY TransactionOpen DEF RegularInv, RoundInv, MeetInv, Recorded, TypeOK
<1>2. PICK p \in Pubs : <<completedPub, p>> \in blocks
  BY <1>1 DEF Regular
<1>3. completedPub \in {b[1] : b \in blocks}
  <2>1. <<completedPub, p>>[1] = completedPub
    OBVIOUS
  <2> QED
    BY <1>2, <2>1
<1>4. \A t \in {b[1] : b \in blocks} :
        (\A b \in blocks : b[1] <= t) => t = completedPub
  <2> SUFFICES ASSUME NEW b \in blocks, \A c \in blocks : c[1] <= b[1]
               PROVE  b[1] = completedPub
    OBVIOUS
  <2>1. completedPub <= b[1]
    BY <1>2
  <2> QED
    BY <1>1, <2>1
<1>5. LastTx = completedPub
  <2> DEFINE Latest(t) == \A b \in blocks : b[1] <= t
             Times == {b[1] : b \in blocks}
  <2>1. completedPub \in Times /\ Latest(completedPub)
    BY <1>1, <1>3
  <2>2. \A t \in Times : Latest(t) => t = completedPub
    BY <1>4
  <2>3. LastTx = CHOOSE t \in Times : Latest(t)
    BY <1>2 DEF LastTx
  <2> HIDE DEF Latest, Times
  <2> QED
    BY <2>1, <2>2, <2>3
<1> QED
  BY <1>1, <1>5 DEF Holders

\* The only step out of a transaction is the get.
LEMMA LeavesByGet ==
  ASSUME Regular, RegularInv, [Next]_vars, NEW s \in Subs, pc[s] = "tx", pc'[s] # "tx"
  PROVE  pc'[s] = "get"
<1>1. ASSUME NEW p \in Pubs, PubStep(p)
      PROVE  pc'[s] = "tx"
  BY <1>1, PubMoves DEF RegularInv, TypeOK, Waits, Wakes
<1>2. ASSUME NEW r \in Subs, SubStep(r)
      PROVE  pc'[s] \in {"tx", "get"}
  <2>1. CASE r # s
    BY <1>2, <2>1, SubSpares DEF RegularInv, Waits, Wakes, Resumes
  <2>2. CASE r = s
    <3>1. RoundInv'
      BY <1>2, SubRound DEF RegularInv
    <3>2. pc'[s] \in {"get", "crashed"}
      BY <1>2, <2>2, SubGoes DEF RegularInv, TypeOK, Goes
    <3> QED
      BY <3>1, <3>2 DEF RoundInv, SubInv, SubRounds, KeepsPace
  <2> QED
    BY <2>1, <2>2
<1>3. CASE \E x \in Pairs : Transfer(x)
  BY <1>3 DEF Transfer
<1>4. ~(\E tx \in 0..MaxTx : CancelTransaction(tx))
  BY DEF Regular, CancelTransaction
<1>5. CASE UNCHANGED vars
  BY <1>5 DEF vars
<1> QED
  BY <1>1, <1>2, <1>3, <1>4, <1>5 DEF Next, Terminated

\* With any number of actors on both sides, the n-th get of each subscriber
\* reads transaction n, which has a block of every publisher, and none of the
\* rendez-vous points it needs is missing.
THEOREM StagingReadsItsTransaction ==
  ASSUME Regular
  PROVE  Spec => ReadsItsTransaction
<1>1. RegularInv /\ [Next]_vars =>
        [\A s \in Subs : pc[s] = "tx" /\ pc'[s] # "tx" =>
           pc'[s] = "get" /\ LastTx = begun[s] /\ Holders = Pubs]_vars
  BY ReadsCompleted, LeavesByGet
<1> QED
  BY <1>1, RoundsInvariant, PTL DEF Spec, ReadsItsTransaction

-----------------------------------------------------------------------------
(* The refinement of TransactionStream                                      *)

\* What the subscribers requested: everything up to the last round, and this
\* one when they are past their get.
LEMMA RequestedIs ==
  ASSUME Regular, RegularInv, NEW s \in Subs
  PROVE  /\ Requested(s) = IF pc[s] \in Got THEN Received + 1 ELSE Received
         /\ begun[s] \in Nat
         /\ WasTold(s) => completedPub = Received /\ pubStreamEnded
<1>1. /\ Received \in Nat /\ completedPub \in Nat
      /\ completedPub = Received \/ completedPub = Received + 1
  BY Bounds DEF RegularInv
<1>2. KeepsPace(s) /\ pc[s] \in SubPlaces /\ begun[s] \in Nat
  BY PubsAndSubs DEF RegularInv, RoundInv, SubInv, SubRounds, TypeOK, PlacesOK
<1>3. CASE pc[s] \in Returning \cup {"new"}
  BY <1>1, <1>2, <1>3
  DEF KeepsPace, Requested, WasTold, Asking, Leaving, Returning, Got, Mid
<1>4. CASE pc[s] \in First \cup Awaiting \cup {"tx", "eos"}
  <2>1. begun[s] = Received + 1
    BY <1>2, <1>4 DEF KeepsPace, Within
  <2>2. pc[s] \in Asking /\ pc[s] \notin Got \cup Leaving
    BY <1>4 DEF First, Awaiting, Asking, Got, Mid, Leaving
  <2>3. Requested(s) = Received
    BY <1>1, <2>1, <2>2 DEF Requested
  <2>4. WasTold(s) => completedPub = Received /\ pubStreamEnded
    BY <1>2, <2>2 DEF WasTold, KeepsPace
  <2> QED
    BY <1>2, <2>2, <2>3, <2>4
<1>5. CASE pc[s] \in Got
  <2>1. begun[s] = Received + 1
    BY <1>2, <1>5 DEF KeepsPace, Within
  <2>2. pc[s] \notin Asking \cup Leaving /\ ~WasTold(s)
    BY <1>5 DEF Asking, Got, Mid, Leaving, WasTold
  <2> QED
    BY <1>2, <1>5, <2>1, <2>2 DEF Requested
<1>6. CASE pc[s] \in Leaving
  <2>1. completedPub = Received
        /\ (begun[s] = Received \/ (begun[s] = Received + 1 /\ pubStreamEnded))
    BY <1>2, <1>6 DEF KeepsPace
  <2>2. pc[s] \notin Got \cup Asking /\ pc[s] # "eos"
    BY <1>6 DEF Got, Mid, Leaving, Asking
  <2>3. WasTold(s) <=> begun[s] > Received
    BY <1>6, <2>1, <2>2 DEF WasTold
  <2> QED
    BY <1>1, <1>2, <2>1, <2>2, <2>3 DEF Requested
<1> QED
  BY <1>2, <1>3, <1>4, <1>5, <1>6
  DEF KeepsPace, SubPlaces, Returning, First, Awaiting, Got, Mid, Leaving

\* A subscriber's place in the stream is the same as before.
Stands(s) == Requested(s)' = Requested(s) /\ (WasTold(s)' <=> WasTold(s))

LEMMA StandsIfTold ==
  ASSUME NEW s \in Subs, Waits(s) \/ Resumes(s), begun'[s] = begun[s],
         WasTold(s)' <=> WasTold(s)
  PROVE  Stands(s)
<1>1. pc'[s] \in Asking <=> pc[s] \in Asking
  BY DEF Waits, Wakes, Resumes, Asking
<1> QED
  BY <1>1 DEF Stands, Requested

LEMMA WaitsStands ==
  ASSUME NEW s \in Subs, Waits(s) \/ Resumes(s), begun'[s] = begun[s],
         completedPub' = completedPub
  PROVE  Stands(s)
<1>1. /\ pc'[s] \in Leaving <=> pc[s] \in Leaving
      /\ pc'[s] = "eos" <=> pc[s] = "eos"
  BY DEF Waits, Wakes, Resumes, Leaving
<1>2. WasTold(s)' <=> WasTold(s)
  BY <1>1 DEF WasTold
<1> QED
  BY <1>2, StandsIfTold

\* The steps of the abstract specification.
LEMMA Stutters ==
  ASSUME UNCHANGED <<completedPub, pubStreamEnded>>, \A r \in Subs : Stands(r)
  PROVE  UNCHANGED Stream!streamVars
<1>1. [r \in Subs |-> Requested(r)]' = [r \in Subs |-> Requested(r)]
  BY DEF Stands
<1>2. {r \in Subs : WasTold(r)}' = {r \in Subs : WasTold(r)}
  BY DEF Stands
<1> QED
  BY <1>1, <1>2 DEF Stream!streamVars

LEMMA Consumes ==
  ASSUME UNCHANGED <<completedPub, pubStreamEnded>>, NEW s \in Subs,
         Requested(s) < completedPub, Requested(s)' = Requested(s) + 1,
         WasTold(s)' <=> WasTold(s),
         \A r \in Subs : r # s => Stands(r)
  PROVE  Stream!StreamNext
<1>1. [r \in Subs |-> Requested(r)]'
        = [[r \in Subs |-> Requested(r)] EXCEPT ![s] = Requested(s) + 1]
  BY DEF Stands
<1>2. {r \in Subs : WasTold(r)}' = {r \in Subs : WasTold(r)}
  BY DEF Stands
<1>3. [r \in Subs |-> Requested(r)][s] = Requested(s)
  OBVIOUS
<1>4. Stream!Consume(s)
  BY <1>1, <1>2, <1>3 DEF Stream!Consume
<1> QED
  BY <1>4 DEF Stream!StreamNext

LEMMA IsTold ==
  ASSUME UNCHANGED <<completedPub, pubStreamEnded>>, NEW s \in Subs,
         pubStreamEnded, Requested(s) = completedPub,
         Requested(s)' = Requested(s), WasTold(s)',
         \A r \in Subs : r # s => Stands(r)
  PROVE  Stream!StreamNext
<1>1. [r \in Subs |-> Requested(r)]' = [r \in Subs |-> Requested(r)]
  BY DEF Stands
<1>2. {r \in Subs : WasTold(r)}' = {r \in Subs : WasTold(r)} \cup {s}
  BY DEF Stands
<1>3. [r \in Subs |-> Requested(r)][s] = Requested(s)
  OBVIOUS
<1>4. Stream!TellEnd(s)
  BY <1>1, <1>2, <1>3 DEF Stream!TellEnd
<1> QED
  BY <1>4 DEF Stream!StreamNext

LEMMA Produces ==
  ASSUME completedPub' = completedPub + 1, pubStreamEnded' = pubStreamEnded,
         ~pubStreamEnded, \A r \in Subs : completedPub < Requested(r) + 1,
         \A r \in Subs : Stands(r)
  PROVE  Stream!StreamNext
<1>1. [r \in Subs |-> Requested(r)]' = [r \in Subs |-> Requested(r)]
  BY DEF Stands
<1>2. {r \in Subs : WasTold(r)}' = {r \in Subs : WasTold(r)}
  BY DEF Stands
<1>3. \A r \in Subs : [q \in Subs |-> Requested(q)][r] = Requested(r)
  OBVIOUS
<1>4. Stream!Produce
  BY <1>1, <1>2, <1>3 DEF Stream!Produce
<1> QED
  BY <1>4 DEF Stream!StreamNext

LEMMA Ends ==
  ASSUME completedPub' = completedPub, pubStreamEnded' = TRUE, ~pubStreamEnded,
         \A r \in Subs : Stands(r)
  PROVE  Stream!StreamNext
<1>1. [r \in Subs |-> Requested(r)]' = [r \in Subs |-> Requested(r)]
  BY DEF Stands
<1>2. {r \in Subs : WasTold(r)}' = {r \in Subs : WasTold(r)}
  BY DEF Stands
<1>3. Stream!EndStream
  BY <1>1, <1>2 DEF Stream!EndStream
<1> QED
  BY <1>3 DEF Stream!StreamNext

Simulates == Stream!StreamNext \/ UNCHANGED Stream!streamVars

LEMMA PubSimulates ==
  ASSUME Regular, RegularInv, NEW p \in Pubs, PubStep(p)
  PROVE  Simulates
<1>1. \A s \in Subs : Waits(s) /\ begun'[s] = begun[s]
  BY PubFrame DEF RegularInv
<1>2. completedPub' = completedPub => \A s \in Subs : Stands(s)
  BY <1>1, WaitsStands
<1>3. CASE Commit(p)
  <2>1. /\ completedPub' = completedPub + 1 /\ completedPub = Received
        /\ plan[p] # completedPub /\ pc[p] = "commit" /\ completedPub \in Nat
    BY <1>3, CommitRound DEF RegularInv, TypeOK
  <2>2. ~pubStreamEnded /\ pubStreamEnded' = pubStreamEnded
    BY <1>3, <2>1 DEF RegularInv, RoundInv, MeetInv, Meeting, Commit, status
  <2>3. \A s \in Subs : completedPub < Requested(s) + 1
    BY <2>1, RequestedIs
  <2>4. ASSUME NEW s \in Subs
        PROVE  ~WasTold(s) /\ ~WasTold(s)'
    <3>1. ~WasTold(s)
      BY <2>2, RequestedIs
    <3>2. pc[s] # "eos" /\ pc[s] \notin Leaving
      BY <2>1, <2>2 DEF RegularInv, RoundInv, SubInv, SubRounds, KeepsPace
    <3>3. pc'[s] # "eos" /\ pc'[s] \notin Leaving
      BY <1>1, <3>2 DEF Waits, Wakes, Leaving
    <3> QED
      BY <3>1, <3>3 DEF WasTold
  <2>5. \A s \in Subs : Stands(s)
    BY <1>1, <2>4, StandsIfTold
  <2> QED
    BY <2>1, <2>2, <2>3, <2>5, Produces DEF Simulates
<1>4. CASE CloseLastPub(p)
  <2>1. completedPub' = completedPub /\ pubStreamEnded' = TRUE
    BY <1>4 DEF CloseLastPub, pubSide
  <2>2. pubStreamEnded \in BOOLEAN
    BY DEF RegularInv, TypeOK
  <2> QED
    BY <1>2, <2>1, <2>2, Ends, Stutters DEF Simulates
<1>5. CASE ~(Commit(p) \/ CloseLastPub(p))
  <2>1. completedPub' = completedPub
    BY <1>5
    DEF PubStep, Open, BeginPub, LockPub, Recheck, Flush, Put, EndPub, Serve,
        EndServe, ClearPub, ClosePub, CloseFlushPub, pubSide
  <2>2. pubStreamEnded' = pubStreamEnded
    BY <1>5, PubFrame DEF RegularInv
  <2> QED
    BY <1>2, <2>1, <2>2, Stutters DEF Simulates
<1> QED
  BY <1>3, <1>4, <1>5

\* Only the get of a subscriber, and the end of its last wait, show.
LEMMA SubSimulates ==
  ASSUME Regular, RegularInv, NEW s \in Subs, SubStep(s)
  PROVE  Simulates
<1>0. /\ UNCHANGED <<completedPub, pubStreamEnded>>
      /\ begun \in [Actors -> Nat] /\ s \in Actors
      /\ completedPub \in Nat /\ pc[s] \in SubPlaces
      /\ RoundInv'
  BY SubFrame, SubRound, PubsAndSubs DEF RegularInv, TypeOK, PlacesOK, pubSide
<1>1. Goes(pc[s], pc'[s]) /\ pc'[s] \notin {"canceled", "crashed"}
      /\ pc[s] \notin {"canceled", "crashed"}
  BY <1>0, SubGoes
  DEF RegularInv, TypeOK, RoundInv, SubInv, SubRounds, KeepsPace
<1>2. begun'[s] = IF BeginSub(s) THEN begun[s] + 1 ELSE begun[s]
  BY <1>0, SubFrame DEF BeginSub, Begins, RegularInv
<1>3. ASSUME NEW r \in Subs, r # s
      PROVE  Stands(r)
  <2>1. begun'[r] = begun[r]
    BY <1>0, <1>3, SubFrame, PubsAndSubs DEF BeginSub, Begins, RegularInv
  <2> QED
    BY <1>0, <1>3, <2>1, SubSpares, WaitsStands DEF RegularInv
<1>4. Requested(s) = (IF pc[s] \in Got THEN Received + 1 ELSE Received)
      /\ begun[s] \in Nat /\ Received \in Nat
  BY RequestedIs, Bounds DEF RegularInv
<1>5. ASSUME Stands(s)
      PROVE  Simulates
  BY <1>0, <1>3, <1>5, Stutters DEF Simulates
<1>6. CASE BeginSub(s)
  <2>1. pc[s] = "idle" /\ pc'[s] \in {"first", "await"}
    <3>1. pc[s] = "idle"
      BY <1>1, <1>6 DEF BeginSub, Begins, At
    <3>2. JoinTransaction(s) => pc'[s] = "await"
      BY JoinAwaits DEF RegularInv, TypeOK
    <3>3. \A to : pc' = Goto(s, to) => pc'[s] = to
      BY GotoSub DEF RegularInv
    <3> QED
      BY <1>1, <1>6, <3>1, <3>2, <3>3 DEF BeginSub
  <2>2. Requested(s) = begun[s] /\ Requested(s)' = begun'[s] - 1
        /\ ~WasTold(s) /\ ~WasTold(s)'
    BY <2>1 DEF Requested, WasTold, Asking, Leaving
  <2> QED
    BY <1>2, <1>4, <1>5, <1>6, <2>2 DEF Stands
<1>7. CASE \E wanted \in SUBSET Pubs : Get(s, wanted)
  <2>1. pc[s] = "tx" /\ pc'[s] = "get" /\ ~BeginSub(s)
    BY <1>1, <1>7 DEF Get, At, Goes, BeginSub, Begins
  <2>2. Requested(s) = begun[s] - 1 /\ Requested(s)' = begun'[s]
        /\ ~WasTold(s) /\ ~WasTold(s)'
    BY <2>1 DEF Requested, WasTold, Asking, Leaving
  <2>3. begun[s] = completedPub
    BY <2>1, TransactionOpen DEF RegularInv
  <2>4. Requested(s) < completedPub /\ Requested(s)' = Requested(s) + 1
    BY <1>0, <1>2, <2>1, <2>2, <2>3
  <2> QED
    BY <1>0, <1>3, <2>2, <2>4, Consumes DEF Simulates
<1>8. CASE pc[s] \in {"first", "await"} /\ pc'[s] = "eos"
  <2>1. begun'[s] = begun[s]
    BY <1>2, <1>8 DEF BeginSub, Begins, At
  <2>2. Requested(s) = begun[s] - 1 /\ Requested(s)' = begun'[s] - 1 /\ WasTold(s)'
    BY <1>8 DEF Requested, WasTold, Asking
  <2>3. pubStreamEnded /\ WasTold(s)' /\ completedPub = Requested(s)
    <3>1. pubStreamEnded' /\ completedPub' = Received'
      BY <1>0, <1>8 DEF RoundInv, SubInv, SubRounds, KeepsPace
    <3>2. begun'[s] = Received' + 1 /\ Received' \in Nat
      <4>1. begun'[s] = Received' + 1
        BY <1>0, <1>8 DEF RoundInv, SubInv, SubRounds, KeepsPace
      <4> QED
        BY <1>0, <3>1, <4>1
    <3> QED
      BY <1>0, <2>1, <2>2, <3>1, <3>2
  <2> QED
    BY <1>0, <1>3, <2>1, <2>2, <2>3, IsTold DEF Simulates
<1>9. CASE /\ ~BeginSub(s) /\ pc[s] # "tx"
           /\ ~(pc[s] \in {"first", "await"} /\ pc'[s] = "eos")
  <2>1. begun'[s] = begun[s]
    BY <1>2, <1>9
  <2>2. CASE pc[s] \in {"idle", "eos"} \cup Leaving
    <3>1. ~BeginSub(s) /\ (CloseSub(s) \/ CloseFlushSub(s) \/ CloseLastSub(s))
      BY <1>9, <2>2
      DEF SubStep, Open, AwaitFirst, StartSub, AwaitCompleted, Get, EndSub,
          Collect, Over, ReleaseSub, At, Leaving, Returning
    <3>2. pc'[s] \in Leaving
      <4>1. \A to : pc' = Goto(s, to) => pc'[s] = to
        BY GotoSub DEF RegularInv
      <4>2. {"closeBarrier", "closeLast"} \subseteq SubPlaces
        BY DEF SubPlaces
      <4>3. Arrive(s, Subs, subBarrier, "closeBarrier", "closeLast")
              => pc'[s] \in {"closeBarrier", "closeLast"}
        BY <4>2, ArriveSubs DEF RegularInv, TypeOK
      <4> QED
        BY <3>1, <4>1, <4>3
        DEF CloseSub, CloseFlushSub, CloseLastSub, LeaveSub, ArriveToClose, Leaving
    <3>3. WasTold(s)' <=> begun[s] > completedPub
      BY <1>0, <2>1, <3>2 DEF WasTold, Leaving
    <3>4. WasTold(s) <=> begun[s] > completedPub
      <4>1. CASE pc[s] = "idle"
        <5>1. begun[s] = plan[s]
          BY <3>1, <4>1 DEF CloseSub, Closes, CloseFlushSub, CloseLastSub, At
        <5>2. completedPub = Received /\ begun[s] = Received
          BY <4>1, <5>1, Finished
          DEF RegularInv, RoundInv, SubInv, SubRounds, KeepsPace, Returning
        <5> QED
          BY <1>0, <1>4, <4>1, <5>2 DEF WasTold, Leaving
      <4>2. CASE pc[s] = "eos"
        <5>1. completedPub = Received /\ begun[s] = Received + 1
          BY <4>2 DEF RegularInv, RoundInv, SubInv, SubRounds, KeepsPace
        <5> QED
          BY <1>4, <4>2, <5>1 DEF WasTold
      <4>3. CASE pc[s] \in Leaving
        BY <4>3 DEF WasTold, Leaving
      <4> QED
        BY <2>2, <4>1, <4>2, <4>3
    <3>5. Stands(s)
      <4>1. pc[s] \in Asking => WasTold(s)
        BY <2>2 DEF Asking, Leaving, WasTold
      <4>2. pc'[s] \in Asking => WasTold(s)'
        BY <3>2 DEF Asking, Leaving, WasTold
      <4>3. WasTold(s)' <=> WasTold(s)
        BY <3>3, <3>4
      <4> QED
        BY <2>1, <4>1, <4>2, <4>3 DEF Stands, Requested
    <3> QED
      BY <1>5, <3>5
  <2>3. CASE pc[s] \notin {"idle", "eos"} \cup Leaving
    <3>1. pc'[s] \in Asking <=> pc[s] \in Asking
      BY <1>1, <1>9, <2>3 DEF Goes, Asking, Leaving
    <3>2. ~WasTold(s) /\ ~WasTold(s)'
      BY <1>1, <1>9, <2>3 DEF Goes, WasTold, Leaving
    <3> QED
      BY <1>5, <2>1, <3>1, <3>2 DEF Stands, Requested
  <2> QED
    BY <2>2, <2>3
<1>10. pc[s] = "tx" => \E wanted \in SUBSET Pubs : Get(s, wanted)
  BY DEF SubStep, Open, BeginSub, Begins, AwaitFirst, StartSub, AwaitCompleted, EndSub,
         Collect, Over, ReleaseSub, CloseSub, Closes, CloseFlushSub, CloseLastSub, At
<1> QED
  BY <1>6, <1>7, <1>8, <1>9, <1>10

LEMMA NextSimulates ==
  ASSUME Regular, RegularInv, [Next]_vars
  PROVE  Simulates
<1>1. CASE (\E p \in Pubs : PubStep(p)) \/ (\E s \in Subs : SubStep(s))
  BY <1>1, PubSimulates, SubSimulates
<1>2. ASSUME UNCHANGED <<pc, begun, completedPub, pubStreamEnded>>
      PROVE  Simulates
  BY <1>2, WaitsStands, Stutters DEF Simulates, Waits
<1>3. CASE \E x \in Pairs : Transfer(x)
  BY <1>2, <1>3 DEF Transfer, client, pubSide, status
<1>4. ~(\E tx \in 0..MaxTx : CancelTransaction(tx))
  BY DEF Regular, CancelTransaction
<1>5. CASE UNCHANGED vars
  BY <1>2, <1>5 DEF vars, client, pubSide, status
<1> QED
  BY <1>1, <1>3, <1>4, <1>5 DEF Next, Terminated

LEMMA InitSimulates ==
  ASSUME Init
  PROVE  Stream!StreamInit
<1>1. \A s \in Subs : pc[s] = "new" /\ begun[s] = 0
  BY PubsAndSubs DEF Init
<1>2. \A s \in Subs : Requested(s) = 0 /\ ~WasTold(s)
  BY <1>1 DEF Requested, WasTold, Asking, Leaving
<1>3. /\ [s \in Subs |-> Requested(s)] = [s \in Subs |-> 0]
      /\ {s \in Subs : WasTold(s)} = {}
  BY <1>2
<1> QED
  BY <1>3 DEF Stream!StreamInit, Init

\* For any number of publishers, of subscribers and of transactions, the
\* Staging engine implements TransactionStream with a window of one: every
\* subscriber gets every transaction once and in order, the publishers complete
\* the next one only when all have requested this one, and the end of the
\* stream comes after the last transaction and not before.
THEOREM StagingImplementsStream ==
  ASSUME Regular
  PROVE  Spec => ImplementsStream
<1>1. Init => Stream!StreamInit
  BY InitSimulates
<1>2. RegularInv /\ [Next]_vars => [Stream!StreamNext]_(Stream!streamVars)
  BY NextSimulates DEF Simulates
<1> QED
  BY <1>1, <1>2, RoundsInvariant, PTL DEF Spec, ImplementsStream, Stream!StreamSpec
=============================================================================
