------------------------------ MODULE FileRounds ------------------------------
(***************************************************************************)
(* Publishers of a File engine move in rounds: for clients that are        *)
(* Gathered and Paced, when nobody cancels, and any number of publishers,  *)
(* each transaction is completed once, when everybody has ended it, and    *)
(* the stream ends once, when everybody has closed.  With one subscriber   *)
(* the engine then implements TransactionStream, and the metadata goes     *)
(* from memory to the progress file and to the exported file without loss. *)
(***************************************************************************)
EXTENDS FileRefinement, FileProofs

\* The clients this module is about.
Regular == /\ Gathered /\ Paced /\ ~MayCancel
           /\ MinTx > 0 /\ Pubs # {}

InRound == {"flushLock", "cvFlush", "flush", "tx", "put", "endBarrier"}
Departing == {"closeLock", "cvClose", "closing", "closeBarrier", "closeLast",
              "closed"}

\* The last publisher at the barrier is about to complete the transaction,
\* and how many rounds are over, that one included.
Committing == \E p \in Pubs : pc[p] = "commit"
Round == IF Committing THEN completedPub + 1 ELSE completedPub

\* Everybody plans the same, and nothing is canceled.
Quotas ==
  /\ canceledTx = 0
  /\ \A p, q \in Pubs : plan[p] = plan[q]
  /\ \A p \in Pubs : plan[p] \in 1..MaxTx /\ begun[p] <= plan[p]

\* A publisher is in the open round or has left the last one.
InStep(p) ==
  /\ pc[p] # "canceled"
  /\ pc[p] = "new" => begun[p] = 0 /\ completedPub = 0
  /\ pc[p] \in InRound => begun[p] = completedPub + 1 /\ ~Committing
  /\ pc[p] \in InRound \cup {"commit"} => pubInProgress
  /\ pc[p] \in {"idle", "commit"} \cup Departing => begun[p] = Round
  /\ pc[p] \in Departing => begun[p] = plan[p]
Rounds == \A p \in Pubs : InStep(p)

Current == currentPub = IF pubInProgress THEN completedPub + 1 ELSE completedPub

\* Nobody begins before everybody has opened.
Opened ==
  (\E a \in Actors : begun[a] > 0) => \A b \in Actors : pc[b] # "new"

\* One publisher completes the transaction; one closes the stream, the last.
OneLast ==
  \A p, q \in Pubs : p # q =>
    /\ pc[p] = "commit" => pc[q] # "commit"
    /\ pc[p] = "closeLast" => pc[q] = "closed"
    /\ pc[p] = "closed" => pc[q] \in {"closeLast", "closed"}

Ending ==
  /\ pubStreamEnded => \A p \in Pubs : pc[p] = "closed"
  /\ (\A p \in Pubs : pc[p] = "closed") => pubStreamEnded
  /\ \E p \in Pubs : pc[p] # "closeBarrier"

\* Who is registered, and the barrier, which everybody has to reach.
Registered ==
  /\ publishers = {p \in Pubs : pc[p] \notin {"new"} \cup Gone}
  /\ pubBarrier \in {0, Cardinality(Pubs)}
  /\ completedPub > 0 \/ (\E p \in Pubs : pc[p] \in {"endBarrier", "commit"})
       => pubBarrier # 0

\* Nobody publishes before its previous writes are over.
Written ==
  \A p \in Pubs : /\ begun[p] = 0 => writes[p] = 0
                  /\ pc[p] \in {"tx", "put"} => writes[p] = 0

RoundInv ==
  /\ Quotas /\ Rounds /\ Current /\ OneLast /\ Ending /\ Registered /\ Written

-----------------------------------------------------------------------------
(* Publishers that do not move, and one that moves on its own               *)

\* W, without p, are all the others just when they make a barrier full.
LEMMA BarrierFull ==
  ASSUME NEW p \in Pubs, NEW W \in SUBSET (Pubs \ {p})
  PROVE  Cardinality(W) + 1 < Cardinality(Pubs) <=> W # Pubs \ {p}
<1>1. IsFiniteSet(Pubs)
  BY ActorsAssumption
<1>2. /\ IsFiniteSet(Pubs \ {p})
      /\ Cardinality(Pubs \ {p}) = Cardinality(Pubs) - 1
  BY <1>1, FS_RemoveElement
<1>3. /\ IsFiniteSet(W) /\ Cardinality(W) <= Cardinality(Pubs \ {p})
      /\ Cardinality(W) = Cardinality(Pubs \ {p}) => W = Pubs \ {p}
  BY <1>2, FS_Subset
<1>4. Cardinality(W) \in Nat /\ Cardinality(Pubs) \in Nat
  BY <1>1, <1>3, FS_CardinalityType
<1>5. CASE W = Pubs \ {p}
  BY <1>2, <1>4, <1>5
<1>6. CASE W # Pubs \ {p}
  <2>1. Cardinality(W) # Cardinality(Pubs \ {p})
    BY <1>3, <1>6
  <2> QED
    BY <1>2, <1>3, <1>4, <1>6, <2>1
<1> QED
  BY <1>5, <1>6

\* Subscribers, time and stuttering at most wake publishers from a wait for
\* the end of a write.
LEMMA Undisturbed ==
  ASSUME RoundInv,
         \A p \in Pubs : /\ pc'[p] = pc[p] \/ Wakes(pc[p], pc'[p])
                         /\ begun'[p] = begun[p]
                         /\ writes[p] = 0 => writes'[p] = 0,
         PlacesOK(pc),
         UNCHANGED <<completedPub, currentPub, pubInProgress, plan, canceledTx,
                     pubStreamEnded, pubBarrier, publishers>>
  PROVE  RoundInv'
<1> DEFINE Kin(x, y) == \/ y = x
                        \/ x = "cvFlush" /\ y = "flush"
                        \/ x = "cvClose" /\ y = "closing"
<1>1. \A p \in Pubs : Kin(pc[p], pc'[p])
  BY DEF Wakes, PlacesOK, PubPlaces
<1>2. \A p \in Pubs :
        /\ \A place \in {"new", "idle", "commit", "canceled", "closeBarrier",
                         "closeLast", "closed", "endBarrier", "tx", "put"} :
             pc'[p] = place <=> pc[p] = place
        /\ pc'[p] \in InRound <=> pc[p] \in InRound
        /\ pc'[p] \in Departing <=> pc[p] \in Departing
  BY <1>1 DEF InRound, Departing
<1> HIDE DEF Kin
<1>3. Committing' <=> Committing
  BY <1>2 DEF Committing
<1>4. Round' = Round
  BY <1>3 DEF Round
<1>5. Quotas'
  BY DEF RoundInv, Quotas
<1>6. Rounds'
  BY <1>2, <1>3, <1>4 DEF RoundInv, Rounds, InStep
<1>7. Current'
  BY DEF RoundInv, Current
<1>8. OneLast' /\ Ending'
  BY <1>2 DEF RoundInv, OneLast, Ending
<1>9. Registered'
  <2>1. \A p \in Pubs : pc'[p] \in {"new"} \cup Gone <=> pc[p] \in {"new"} \cup Gone
    BY <1>2 DEF Gone
  <2> QED
    BY <1>2, <2>1 DEF RoundInv, Registered
<1>10. Written'
  BY <1>2 DEF RoundInv, Written
<1> QED
  BY <1>5, <1>6, <1>7, <1>8, <1>9, <1>10 DEF RoundInv

\* Places from and to which a publisher moves without the others.
Calm == {"new", "idle", "flushLock", "cvFlush", "flush", "tx", "put",
         "closeLock", "cvClose", "closing"}

LEMMA CalmMove ==
  ASSUME RoundInv, NEW p \in Pubs,
         pc[p] \in Calm, pc'[p] \in Calm,
         \A q \in Pubs : q # p => pc'[q] = pc[q],
         UNCHANGED <<completedPub, pubStreamEnded>>
  PROVE  /\ Committing' <=> Committing
         /\ Round' = Round
         /\ OneLast' /\ Ending'
         /\ \A q \in Pubs : /\ pc'[q] = "commit" <=> pc[q] = "commit"
                            /\ pc'[q] = "endBarrier" <=> pc[q] = "endBarrier"
<1>1. \A q \in Pubs : \A place \in {"commit", "closeBarrier", "closeLast",
                                    "closed", "endBarrier"} :
        pc'[q] = place <=> pc[q] = place
  BY DEF Calm
<1>2. Committing' <=> Committing
  BY <1>1 DEF Committing
<1>3. Round' = Round
  BY <1>2 DEF Round
<1>4. OneLast' /\ Ending'
  BY <1>1 DEF RoundInv, OneLast, Ending
<1> QED
  BY <1>1, <1>2, <1>3, <1>4

\* No round is over, and none open, while somebody has yet to open the stream.
LEMMA NoRoundYet ==
  ASSUME RoundInv, TypeInv, Opened, NEW p \in Pubs, pc[p] = "new"
  PROVE  ~Committing /\ completedPub = 0 /\ Round = 0
<1>1. completedPub = 0
  BY DEF RoundInv, Rounds, InStep
<1>2. \A q \in Pubs : begun[q] = 0
  BY Sides DEF Opened, TypeInv, DataOK
<1>3. ~Committing
  <2>1. SUFFICES ASSUME NEW q \in Pubs, pc[q] = "commit"
                 PROVE  FALSE
    BY DEF Committing
  <2>2. Round = 1
    BY <1>1, <2>1 DEF Round, Committing
  <2> QED
    BY <1>2, <2>1, <2>2 DEF RoundInv, Rounds, InStep
<1> QED
  BY <1>1, <1>3 DEF Round

-----------------------------------------------------------------------------
(* The steps of a publisher                                                 *)

\* A move of one publisher: it is at `to` then, and the others are where they
\* were.
LEMMA GotoMoves ==
  ASSUME TypeInv, NEW p \in Pubs, NEW to, pc' = Goto(p, to)
  PROVE  pc'[p] = to /\ \A q \in Pubs : q # p => pc'[q] = pc[q]
BY Sides DEF Goto, TypeInv, PlacesOK

LEMMA OpenRound ==
  ASSUME TypeInv, Opened, RoundInv, NEW p \in Pubs, Open(p)
  PROVE  RoundInv'
<1>1. /\ pc[p] = "new" /\ pc' = Goto(p, "idle")
      /\ publishers' = publishers \cup {p}
      /\ UNCHANGED <<begun, plan, currentPub, completedPub, pubInProgress,
                     pubStreamEnded, canceledTx, pubBarrier, writes>>
  BY DEF Open, client, pubSide, status, transport
<1>2. pc'[p] = "idle" /\ \A q \in Pubs : q # p => pc'[q] = pc[q]
  BY <1>1, GotoMoves
<1>3. /\ Committing' <=> Committing
      /\ Round' = Round
      /\ OneLast' /\ Ending'
      /\ \A q \in Pubs : /\ pc'[q] = "commit" <=> pc[q] = "commit"
                         /\ pc'[q] = "endBarrier" <=> pc[q] = "endBarrier"
  BY <1>1, <1>2, CalmMove DEF Calm
<1>4. Round = 0 /\ begun[p] = 0
  BY <1>1, NoRoundYet DEF RoundInv, Rounds, InStep
<1>5. Rounds'
  <2>1. ASSUME NEW q \in Pubs
        PROVE  InStep(q)'
    <3>1. CASE q = p
      BY <1>1, <1>2, <1>3, <1>4, <3>1 DEF InRound, Departing, InStep
    <3>2. CASE q # p
      BY <1>1, <1>2, <1>3, <3>2 DEF RoundInv, Rounds, InStep
    <3> QED
      BY <3>1, <3>2
  <2> QED
    BY <2>1 DEF Rounds
<1>6. Registered'
  <2>1. publishers' = {q \in Pubs : pc'[q] \notin {"new"} \cup Gone}
    BY <1>1, <1>2 DEF RoundInv, Registered, Gone
  <2> QED
    BY <1>1, <1>3, <2>1 DEF RoundInv, Registered
<1>7. Quotas' /\ Current'
  BY <1>1 DEF RoundInv, Quotas, Current
<1>8. Written'
  BY <1>1, <1>2 DEF RoundInv, Written
<1> QED
  BY <1>3, <1>5, <1>6, <1>7, <1>8 DEF RoundInv

\* A publisher joins the round that is open, or opens the next one: Paced
\* says that nobody is about to complete the one before.
LEMMA BeginRound ==
  ASSUME Regular, TypeInv, RoundInv, NEW p \in Pubs, BeginPub(p)
  PROVE  RoundInv'
<1>0. p \in Actors /\ begun \in [Actors -> Nat] /\ completedPub \in Nat
      /\ writes \in [Pubs -> Nat] /\ \A q \in Pubs : q \in Actors
  BY Sides DEF TypeInv, DataOK
<1>1. pc[p] = "idle" /\ begun[p] < plan[p] /\ begun' = [begun EXCEPT ![p] = @ + 1]
  BY DEF BeginPub, Begins, RoundInv, Rounds, InStep
<1>2. ~Committing
  BY Sides DEF BeginPub, Begins, Regular, Committing
<1>3. begun[p] = completedPub
  BY <1>1, <1>2 DEF RoundInv, Rounds, InStep, Round
<1>4. PubTx = completedPub + 1
  BY <1>0 DEF PubTx, RoundInv, Current
<1>5. ~Canceled(currentPub + 1) /\ ~Canceled(PubTx) /\ canceledTx = 0
  <2>1. currentPub \in Nat /\ canceledTx = 0
    BY DEF TypeInv, DataOK, RoundInv, Quotas
  <2> QED
    BY <1>0, <1>4, <2>1 DEF Canceled
<1>6. /\ pubInProgress' = TRUE /\ currentPub' = PubTx
      /\ \/ pc' = Goto(p, "flushLock")
         \/ pc' = Goto(p, "tx") /\ (PubTx > 1 => ~FlushMustWait(p))
      /\ UNCHANGED <<plan, completedPub, publishers, pubBarrier, pubStreamEnded,
                     canceledTx, writes>>
  BY <1>5 DEF BeginPub, Flush, registry, status
<1>7. /\ pc'[p] \in {"flushLock", "tx"}
      /\ \A q \in Pubs : q # p => pc'[q] = pc[q]
  BY <1>6, GotoMoves
<1>8. /\ Committing' <=> Committing
      /\ Round' = Round
      /\ OneLast' /\ Ending'
      /\ \A q \in Pubs : /\ pc'[q] = "commit" <=> pc[q] = "commit"
                         /\ pc'[q] = "endBarrier" <=> pc[q] = "endBarrier"
  <2>1. pc[p] \in Calm /\ pc'[p] \in Calm
    BY <1>1, <1>7 DEF Calm
  <2> QED
    BY <1>6, <1>7, <2>1, CalmMove
<1>9. /\ begun'[p] = completedPub + 1
      /\ \A q \in Pubs : q # p => begun'[q] = begun[q]
  BY <1>0, <1>1, <1>3
<1>10. Rounds'
  <2>1. ASSUME NEW q \in Pubs
        PROVE  InStep(q)'
    <3>1. CASE q = p
      BY <1>2, <1>6, <1>7, <1>8, <1>9, <3>1 DEF InRound, Departing, InStep
    <3>2. CASE q # p
      BY <1>6, <1>7, <1>8, <1>9, <3>2 DEF RoundInv, Rounds, InStep
    <3> QED
      BY <3>1, <3>2
  <2> QED
    BY <2>1 DEF Rounds
<1>11. Quotas'
  <2>1. begun'[p] <= plan'[p]
    <3>1. plan[p] \in Nat
      BY DEF RoundInv, Quotas
    <3> QED
      BY <1>0, <1>1, <1>3, <1>6, <1>9, <3>1
  <2>2. ASSUME NEW q \in Pubs
        PROVE  plan'[q] \in 1..MaxTx /\ begun'[q] <= plan'[q]
    BY <1>6, <1>9, <2>1 DEF RoundInv, Quotas
  <2> QED
    BY <1>6, <2>2 DEF RoundInv, Quotas
<1>12. Current'
  BY <1>4, <1>6 DEF Current
<1>13. Registered'
  <2>1. publishers' = {q \in Pubs : pc'[q] \notin {"new"} \cup Gone}
    BY <1>1, <1>6, <1>7 DEF RoundInv, Registered, Gone
  <2> QED
    BY <1>6, <1>8, <2>1 DEF RoundInv, Registered
<1>14. Written'
  <2>1. pc'[p] = "tx" => writes[p] = 0
    <3>1. CASE PubTx > 1
      BY <1>0, <1>5, <1>6, <3>1, GotoMoves DEF FlushMustWait
    <3>2. CASE ~(PubTx > 1)
      BY <1>0, <1>3, <1>4, <3>2 DEF RoundInv, Written
    <3> QED
      BY <3>1, <3>2
  <2>2. begun'[p] # 0 /\ pc'[p] # "put"
    BY <1>0, <1>7, <1>9
  <2>3. ASSUME NEW q \in Pubs
        PROVE  /\ begun'[q] = 0 => writes'[q] = 0
               /\ pc'[q] \in {"tx", "put"} => writes'[q] = 0
    <3>1. CASE q = p
      BY <1>6, <2>1, <2>2, <3>1
    <3>2. CASE q # p
      BY <1>6, <1>7, <1>9, <3>2 DEF RoundInv, Written
    <3> QED
      BY <3>1, <3>2
  <2> QED
    BY <2>3 DEF Written
<1> QED
  BY <1>8, <1>10, <1>11, <1>12, <1>13, <1>14 DEF RoundInv

\* A publisher moves on within its round, or within close.
LEMMA StayRound ==
  ASSUME TypeInv, RoundInv, NEW p \in Pubs, NEW to, pc' = Goto(p, to),
         \/ /\ pc[p] \in InRound \ {"endBarrier"}
            /\ to \in InRound \ {"endBarrier"}
         \/ /\ pc[p] \in {"idle", "closeLock", "cvClose", "closing"}
            /\ to \in {"closeLock", "cvClose"} /\ begun[p] = plan[p],
         to \in {"tx", "put"} => writes[p] = 0,
         UNCHANGED <<begun, plan, currentPub, completedPub, pubInProgress,
                     pubStreamEnded, canceledTx, pubBarrier, publishers, writes>>
  PROVE  RoundInv'
<1>1. pc'[p] = to /\ \A q \in Pubs : q # p => pc'[q] = pc[q]
  BY GotoMoves
<1>2. pc[p] \in Calm \ {"new"} /\ pc'[p] \in Calm \ {"new"}
  BY <1>1 DEF Calm, InRound
<1>3. /\ Committing' <=> Committing
      /\ Round' = Round
      /\ OneLast' /\ Ending'
      /\ \A q \in Pubs : /\ pc'[q] = "commit" <=> pc[q] = "commit"
                         /\ pc'[q] = "endBarrier" <=> pc[q] = "endBarrier"
  BY <1>1, <1>2, CalmMove
<1>4. Rounds'
  <2>1. InStep(p)'
    BY <1>1, <1>3 DEF RoundInv, Rounds, InStep, InRound, Departing
  <2>2. ASSUME NEW q \in Pubs, q # p
        PROVE  InStep(q)'
    BY <1>1, <1>3, <2>2 DEF RoundInv, Rounds, InStep
  <2> QED
    BY <2>1, <2>2 DEF Rounds
<1>5. Registered'
  <2>1. publishers' = {q \in Pubs : pc'[q] \notin {"new"} \cup Gone}
    BY <1>1, <1>2 DEF RoundInv, Registered, Gone, Calm
  <2> QED
    BY <1>3, <2>1 DEF RoundInv, Registered
<1>6. Quotas' /\ Current'
  BY DEF RoundInv, Quotas, Current
<1>7. Written'
  BY <1>1 DEF RoundInv, Written
<1> QED
  BY <1>3, <1>4, <1>5, <1>6, <1>7 DEF RoundInv

\* Nobody has gone, or started to close, while a publisher is in the round.
LEMMA NobodyLeft ==
  ASSUME TypeInv, Opened, RoundInv, NEW p \in Pubs, pc[p] \in InRound
  PROVE  /\ \A q \in Pubs : pc[q] \notin {"new", "commit"} \cup Departing
         /\ publishers = Pubs
<1>1. begun[p] = completedPub + 1 /\ ~Committing /\ completedPub \in Nat
  BY DEF RoundInv, Rounds, InStep, TypeInv, DataOK
<1>2. ASSUME NEW q \in Pubs
      PROVE  pc[q] \notin {"new", "commit"} \cup Departing
  <2>1. pc[q] # "new"
    BY <1>1, Sides DEF Opened
  <2>2. pc[q] # "commit"
    BY <1>1 DEF Committing
  <2>3. ASSUME pc[q] \in Departing
        PROVE  FALSE
    <3>1. begun[q] = completedPub /\ begun[q] = plan[q]
      BY <1>1, <2>3 DEF RoundInv, Rounds, InStep, Round
    <3>2. plan[q] = plan[p] /\ plan[p] \in Nat /\ begun[p] <= plan[p]
      BY DEF RoundInv, Quotas
    <3> QED
      BY <1>1, <3>1, <3>2
  <2> QED
    BY <2>1, <2>2, <2>3
<1>3. publishers = Pubs
  <2>1. \A q \in Pubs : pc[q] \notin {"new"} \cup Gone
    BY <1>2 DEF Gone, Departing
  <2> QED
    BY <2>1 DEF RoundInv, Registered
<1> QED
  BY <1>2, <1>3

\* A publisher ends its transaction: it waits for the others at the barrier,
\* or is the last one to come and everybody else goes on.
LEMMA EndRound ==
  ASSUME TypeInv, Opened, RoundInv, NEW p \in Pubs, EndPub(p)
  PROVE  RoundInv'
<1> DEFINE waiting == {b \in Pubs : pc[b] \in AtBarrier}
<1>0. completedPub \in Nat /\ begun \in [Actors -> Nat] /\ writes \in [Pubs -> Nat]
  BY DEF TypeInv, DataOK
<1>1. /\ pc[p] = "put" /\ pc[p] \in InRound
      /\ pubBarrier' = BarrierFor(pubBarrier, publishers)
      /\ Arrive(p, Pubs, pubBarrier', "endBarrier", "commit")
      /\ writes' = [writes EXCEPT ![p] = @ + toWrite[p]]
      /\ UNCHANGED <<begun, plan, currentPub, completedPub, pubInProgress,
                     pubStreamEnded, canceledTx, publishers>>
  BY DEF EndPub, InRound, client, pubSide, status
<1>2. /\ \A q \in Pubs : pc[q] \notin {"new", "commit"} \cup Departing
      /\ publishers = Pubs
  BY <1>1, NobodyLeft
<1>3. pubBarrier' = Cardinality(Pubs) /\ Cardinality(Pubs) # 0
  <2>1. Cardinality(Pubs) # 0
    BY ActorsAssumption, FS_EmptySet
  <2> QED
    BY <1>1, <1>2, <2>1 DEF BarrierFor, RoundInv, Registered
<1>4. begun[p] = completedPub + 1 /\ ~Committing /\ pubInProgress
  BY <1>1 DEF RoundInv, Rounds, InStep
<1>5. \A q \in waiting : pc[q] = "endBarrier" /\ q # p
  BY <1>1, <1>2 DEF AtBarrier, Departing
<1>6. \A q \in Pubs : q # p => writes'[q] = writes[q]
  BY <1>0, <1>1
<1>7. Quotas' /\ Current'
  BY <1>1 DEF RoundInv, Quotas, Current
<1>8. waiting \in SUBSET (Pubs \ {p})
  BY <1>5
<1>9. CASE waiting # Pubs \ {p}
  <2>1. pc' = Goto(p, "endBarrier")
    <3>1. Cardinality(waiting) + 1 < pubBarrier'
      BY <1>3, <1>8, <1>9, BarrierFull
    <3> QED
      BY <1>1, <3>1 DEF Arrive
  <2>2. pc'[p] = "endBarrier" /\ \A q \in Pubs : q # p => pc'[q] = pc[q]
    BY <2>1, GotoMoves
  <2>3. ~Committing' /\ Round' = Round
    BY <1>1, <1>2, <1>4, <2>2 DEF Committing, Round
  <2>4. Rounds'
    <3>1. InStep(p)'
      BY <1>1, <1>4, <2>2, <2>3 DEF InStep, InRound, Departing
    <3>2. ASSUME NEW q \in Pubs, q # p
          PROVE  InStep(q)'
      BY <1>1, <2>2, <2>3, <3>2, <1>4 DEF RoundInv, Rounds, InStep
    <3> QED
      BY <3>1, <3>2 DEF Rounds
  <2>5. OneLast' /\ Ending'
    <3>1. \A q \in Pubs : pc'[q] \notin {"commit", "closeLast", "closed", "closeBarrier"}
      BY <1>2, <2>2 DEF Departing
    <3>2. ~pubStreamEnded
      BY <1>1 DEF RoundInv, Ending
    <3> QED
      BY <1>1, <3>1, <3>2 DEF OneLast, Ending
  <2>6. Registered'
    <3>1. \A q \in Pubs : pc'[q] \notin {"new"} \cup Gone
      BY <1>2, <2>2 DEF Gone, Departing
    <3> QED
      BY <1>1, <1>2, <1>3, <3>1 DEF Registered
  <2>7. Written'
    BY <1>0, <1>1, <1>4, <1>6, <2>2 DEF RoundInv, Written
  <2> QED
    BY <1>7, <2>4, <2>5, <2>6, <2>7 DEF RoundInv
<1>10. CASE waiting = Pubs \ {p}
  <2>1. pc' = [b \in Actors |-> IF b = p THEN "commit"
                                ELSE IF b \in waiting THEN Resumed(pc[b])
                                ELSE pc[b]]
    <3>1. ~(Cardinality(waiting) + 1 < pubBarrier')
      BY <1>3, <1>8, <1>10, BarrierFull
    <3> QED
      BY <1>1, <3>1 DEF Arrive
  <2>2. pc'[p] = "commit" /\ \A q \in Pubs : q # p => pc'[q] = "idle"
    BY <1>5, <1>10, <2>1, Sides DEF Resumed
  <2>3. Committing' /\ Round' = completedPub + 1
    BY <1>1, <2>2 DEF Committing, Round
  <2>4. Rounds'
    <3>1. InStep(p)'
      BY <1>1, <1>4, <2>2, <2>3 DEF InStep, InRound, Departing
    <3>2. ASSUME NEW q \in Pubs, q # p
          PROVE  InStep(q)'
      <4>1. pc[q] \in InRound
        BY <1>5, <1>10, <3>2 DEF InRound
      <4>2. begun[q] = completedPub + 1
        BY <4>1 DEF RoundInv, Rounds, InStep
      <4> QED
        BY <1>1, <2>2, <2>3, <3>2, <4>2 DEF InStep, InRound, Departing
    <3> QED
      BY <3>1, <3>2 DEF Rounds
  <2>5. OneLast' /\ Ending'
    <3>1. ~pubStreamEnded
      BY <1>1 DEF RoundInv, Ending
    <3> QED
      BY <1>1, <2>2, <3>1 DEF OneLast, Ending
  <2>6. Registered'
    <3>1. \A q \in Pubs : pc'[q] \notin {"new"} \cup Gone
      BY <2>2 DEF Gone
    <3> QED
      BY <1>1, <1>2, <1>3, <3>1 DEF Registered
  <2>7. Written'
    <3>1. \A q \in Pubs : pc'[q] \notin {"tx", "put"}
      BY <2>2
    <3> QED
      BY <1>0, <1>1, <1>4, <1>6, <3>1 DEF RoundInv, Written
  <2> QED
    BY <1>7, <2>4, <2>5, <2>6, <2>7 DEF RoundInv
<1> QED
  BY <1>9, <1>10

\* The last publisher at the barrier completes the transaction, before anybody
\* begins the next one.
LEMMA CommitRound ==
  ASSUME TypeInv, Opened, RoundInv, NEW p \in Pubs, Commit(p)
  PROVE  RoundInv'
<1>0. completedPub \in Nat
  BY DEF TypeInv, DataOK
<1>1. /\ pc[p] = "commit" /\ pubInProgress' = FALSE
      /\ completedPub' = completedPub + 1
      /\ pc' = Notify(Goto(p, "idle"), {"cvCompleted"})
      /\ UNCHANGED <<begun, plan, currentPub, pubStreamEnded, canceledTx,
                     pubBarrier, publishers, writes>>
  BY DEF Commit, CommitWakes, client, registry, status, transport
<1>2. Committing /\ Round = completedPub + 1
  BY <1>1 DEF Committing, Round
<1>3. pc'[p] = "idle" /\ \A q \in Pubs : q # p => pc'[q] = pc[q]
  <2>1. PlacesOK(Goto(p, "idle"))
    BY GotoPlaces, Sides DEF TypeInv, PubPlaces
  <2>2. \A a \in Actors : Goto(p, "idle")[a] = IF a = p THEN "idle" ELSE pc[a]
    BY DEF Goto, TypeInv, PlacesOK
  <2>3. \A q \in Pubs : pc[q] # "cvCompleted"
    BY DEF TypeInv, PlacesOK, PubPlaces
  <2>4. \A q \in Pubs : pc'[q] = Goto(p, "idle")[q]
    BY <1>1, <2>2, <2>3, Sides DEF Notify
  <2> QED
    BY <2>2, <2>4, Sides
<1>4. ~Committing' /\ Round' = completedPub + 1
  <2>1. ~Committing'
    BY <1>1, <1>3 DEF Committing, RoundInv, OneLast
  <2> QED
    BY <1>1, <2>1 DEF Round
<1>5. \A q \in Pubs : pc[q] \notin InRound /\ pc[q] # "new"
  <2>1. begun[p] > 0
    BY <1>0, <1>1, <1>2 DEF RoundInv, Rounds, InStep
  <2> QED
    BY <1>2, <2>1, Sides DEF RoundInv, Rounds, InStep, Opened
<1>6. Rounds'
  <2>1. InStep(p)'
    BY <1>1, <1>2, <1>3, <1>4 DEF RoundInv, Rounds, InStep, InRound, Departing
  <2>2. ASSUME NEW q \in Pubs, q # p
        PROVE  InStep(q)'
    <3>1. pc[q] # "commit"
      BY <1>1, <2>2 DEF RoundInv, OneLast
    <3> QED
      BY <1>1, <1>2, <1>3, <1>4, <1>5, <2>2, <3>1 DEF RoundInv, Rounds, InStep
  <2> QED
    BY <2>1, <2>2 DEF Rounds
<1>7. Quotas'
  BY <1>1 DEF RoundInv, Quotas
<1>8. Current'
  BY <1>1 DEF RoundInv, Current, Rounds, InStep
<1>9. OneLast' /\ Ending'
  <2>1. \A q \in Pubs : q # p => pc[q] \notin {"commit", "closeLast", "closed"}
    BY <1>1 DEF RoundInv, OneLast
  <2>2. ~pubStreamEnded
    BY <1>1 DEF RoundInv, Ending
  <2> QED
    BY <1>1, <1>3, <2>1, <2>2 DEF OneLast, Ending
<1>10. Registered'
  <2>1. publishers' = {q \in Pubs : pc'[q] \notin {"new"} \cup Gone}
    BY <1>1, <1>3 DEF RoundInv, Registered, Gone
  <2>2. pubBarrier' # 0
    BY <1>1 DEF RoundInv, Registered
  <2> QED
    BY <1>1, <2>1, <2>2 DEF RoundInv, Registered
<1>11. Written'
  BY <1>1, <1>3 DEF RoundInv, Written
<1> QED
  BY <1>6, <1>7, <1>8, <1>9, <1>10, <1>11 DEF RoundInv

\* A publisher leaves: it waits for the others at the barrier, which they
\* reach when they close, or is the last one.
LEMMA LeaveRound ==
  ASSUME Regular, TypeInv, RoundInv, NEW p \in Pubs, ClosePub(p)
  PROVE  RoundInv'
<1> DEFINE waiting == {b \in Pubs : pc[b] \in AtBarrier}
<1>0. completedPub \in Nat /\ begun \in [Actors -> Nat]
  BY DEF TypeInv, DataOK
<1>1. /\ pc[p] \in {"idle", "closing"} /\ begun[p] = plan[p] /\ begun[p] = Round
      /\ UNCHANGED <<begun, plan, currentPub, completedPub, pubInProgress,
                     pubStreamEnded, canceledTx, writes>>
  <2>1. pc[p] \in {"idle", "closing"}
    BY DEF ClosePub, Closes, RoundInv, Rounds, InStep, TypeInv, PlacesOK,
           PubPlaces
  <2>2. begun[p] = plan[p]
    BY <2>1 DEF ClosePub, Closes, RoundInv, Rounds, InStep, Departing
  <2>3. begun[p] = Round
    BY <2>1 DEF RoundInv, Rounds, InStep, Departing
  <2> QED
    BY <2>1, <2>2, <2>3 DEF ClosePub, client, pubSide, status
<1>2. CASE pc' = Goto(p, "closeLock") /\ UNCHANGED registry
  <2>1. UNCHANGED <<pubBarrier, publishers>>
    BY <1>2 DEF registry
  <2> QED
    BY <1>1, <1>2, <2>1, StayRound
<1>3. CASE LeavePub(p)
  <2>1. /\ publishers' = publishers \ {p} /\ pubBarrier' = pubBarrier
        /\ ArriveToClose(p, Pubs, pubBarrier)
    BY <1>3 DEF LeavePub
  <2>2. pubBarrier = Cardinality(Pubs) /\ pubBarrier # 0
    <3>1. plan[p] > 0 /\ plan[p] \in Nat
      BY DEF RoundInv, Quotas
    <3>2. Committing \/ completedPub > 0
      BY <1>0, <1>1, <3>1 DEF Round
    <3> QED
      BY <3>2 DEF Committing, RoundInv, Registered
  <2>3. Arrive(p, Pubs, Cardinality(Pubs), "closeBarrier", "closeLast")
    BY <2>1, <2>2 DEF ArriveToClose
  <2>4. waiting \in SUBSET (Pubs \ {p})
    BY <1>1 DEF AtBarrier
  <2>5. Quotas' /\ Current'
    BY <1>1 DEF RoundInv, Quotas, Current
  <2>6. ~pubStreamEnded /\ \A q \in Pubs : pc[q] \notin {"closeLast", "closed"}
    <3>1. ASSUME NEW q \in Pubs, q # p
          PROVE  pc[q] \notin {"closeLast", "closed"}
      BY <1>1, <3>1 DEF RoundInv, OneLast
    <3> QED
      BY <1>1, <3>1 DEF RoundInv, Ending
  <2>7. CASE waiting # Pubs \ {p}
    <3>1. pc' = Goto(p, "closeBarrier")
      BY <2>3, <2>4, <2>7, BarrierFull DEF Arrive
    <3>2. pc'[p] = "closeBarrier" /\ \A q \in Pubs : q # p => pc'[q] = pc[q]
      BY <3>1, GotoMoves
    <3>3. /\ \A q \in Pubs : /\ pc'[q] = "commit" <=> pc[q] = "commit"
                             /\ pc'[q] = "endBarrier" <=> pc[q] = "endBarrier"
          /\ Committing' <=> Committing
          /\ Round' = Round
      <4>1. \A q \in Pubs : /\ pc'[q] = "commit" <=> pc[q] = "commit"
                            /\ pc'[q] = "endBarrier" <=> pc[q] = "endBarrier"
        BY <1>1, <3>2
      <4>2. Committing' <=> Committing
        BY <4>1 DEF Committing
      <4> QED
        BY <1>1, <4>1, <4>2 DEF Round
    <3>4. Rounds'
      <4>1. InStep(p)'
        BY <1>1, <3>2, <3>3 DEF InStep, InRound, Departing
      <4>2. ASSUME NEW q \in Pubs, q # p
            PROVE  InStep(q)'
        BY <1>1, <3>2, <3>3, <4>2 DEF RoundInv, Rounds, InStep
      <4> QED
        BY <4>1, <4>2 DEF Rounds
    <3>5. OneLast' /\ Ending'
      <4>1. PICK q \in Pubs : q # p /\ pc[q] \notin AtBarrier
        BY <2>4, <2>7
      <4>2. pc'[q] # "closeBarrier"
        BY <3>2, <4>1 DEF AtBarrier
      <4>3. \A r \in Pubs : pc'[r] \notin {"closeLast", "closed"}
        BY <2>6, <3>2
      <4>4. Ending'
        BY <1>1, <2>6, <4>2, <4>3 DEF Ending
      <4>5. OneLast'
        BY <3>3, <4>3 DEF RoundInv, OneLast
      <4> QED
        BY <4>4, <4>5
    <3>6. Registered'
      <4>1. publishers' = {q \in Pubs : pc'[q] \notin {"new"} \cup Gone}
        BY <2>1, <3>2 DEF RoundInv, Registered, Gone
      <4> QED
        BY <1>1, <2>1, <2>2, <4>1 DEF Registered
    <3>7. Written'
      BY <1>1, <3>2 DEF RoundInv, Written
    <3> QED
      BY <2>5, <3>4, <3>5, <3>6, <3>7 DEF RoundInv
  <2>8. CASE waiting = Pubs \ {p}
    <3>1. pc' = [b \in Actors |-> IF b = p THEN "closeLast"
                                  ELSE IF b \in waiting THEN Resumed(pc[b])
                                  ELSE pc[b]]
      BY <2>3, <2>4, <2>8, BarrierFull DEF Arrive
    <3>2. ~Committing
      BY <1>1, <2>8 DEF Committing, AtBarrier
    <3>3. ASSUME NEW q \in Pubs, q # p
          PROVE  pc[q] = "closeBarrier"
      <4>1. pc[q] \in AtBarrier
        BY <2>8, <3>3
      <4>2. ASSUME pc[q] = "endBarrier"
            PROVE  FALSE
        <5>1. begun[q] = completedPub + 1
          BY <4>2 DEF RoundInv, Rounds, InStep, InRound
        <5>2. begun[p] = completedPub
          BY <1>1, <3>2 DEF Round
        <5>3. plan[q] = plan[p] /\ plan[q] \in Nat /\ begun[q] <= plan[q]
          BY DEF RoundInv, Quotas
        <5>4. completedPub + 1 <= completedPub
          BY <1>1, <5>1, <5>2, <5>3
        <5> QED
          BY <1>0, <5>4
      <4> QED
        BY <4>1, <4>2 DEF AtBarrier
    <3>4. pc'[p] = "closeLast" /\ \A q \in Pubs : q # p => pc'[q] = "closed"
      BY <2>8, <3>1, <3>3, Sides DEF Resumed
    <3>5. ~Committing' /\ Round' = Round
      BY <1>1, <3>2, <3>4 DEF Committing, Round
    <3>6. Rounds'
      <4>1. InStep(p)'
        BY <1>1, <3>4, <3>5 DEF InStep, InRound, Departing
      <4>2. ASSUME NEW q \in Pubs, q # p
            PROVE  InStep(q)'
        <5>1. begun[q] = Round /\ begun[q] = plan[q]
          BY <3>3, <4>2 DEF RoundInv, Rounds, InStep, Departing
        <5> QED
          BY <1>1, <3>4, <3>5, <4>2, <5>1 DEF InStep, InRound, Departing
      <4> QED
        BY <4>1, <4>2 DEF Rounds
    <3>7. OneLast' /\ Ending'
      BY <1>1, <2>6, <3>4 DEF OneLast, Ending
    <3>8. Registered'
      <4>1. publishers' = {}
        BY <2>1, <3>3 DEF RoundInv, Registered, Gone
      <4>2. \A q \in Pubs : pc'[q] \in Gone
        BY <3>4 DEF Gone
      <4> QED
        BY <2>1, <2>2, <4>1, <4>2 DEF Registered
    <3>9. Written'
      BY <1>1, <3>4 DEF RoundInv, Written
    <3> QED
      BY <2>5, <3>6, <3>7, <3>8, <3>9 DEF RoundInv
  <2> QED
    BY <2>7, <2>8
<1> QED
  BY <1>2, <1>3 DEF ClosePub

\* The last publisher marks the end of the stream.
LEMMA CloseLastRound ==
  ASSUME TypeInv, RoundInv, NEW p \in Pubs, CloseLastPub(p)
  PROVE  RoundInv'
<1>1. /\ pc[p] = "closeLast" /\ pubStreamEnded' = TRUE
      /\ pc' = Notify(Goto(p, "closed"), {"cvCompleted"})
      /\ UNCHANGED <<begun, plan, currentPub, completedPub, pubInProgress,
                     canceledTx, pubBarrier, publishers, writes>>
  BY DEF CloseLastPub, EndWakes, client, registry, pubSide, transport
<1>2. \A q \in Pubs : q # p => pc[q] = "closed"
  BY <1>1 DEF RoundInv, OneLast
<1>3. \A q \in Pubs : pc'[q] = "closed"
  <2>1. \A a \in Actors : Goto(p, "closed")[a] = IF a = p THEN "closed" ELSE pc[a]
    BY DEF Goto, TypeInv, PlacesOK
  <2> QED
    BY <1>1, <1>2, <2>1, Sides DEF Notify
<1>4. ~Committing /\ ~Committing' /\ Round' = Round
  BY <1>1, <1>2, <1>3 DEF Committing, Round
<1>5. ASSUME NEW q \in Pubs
      PROVE  InStep(q)'
  <2>1. pc[q] \in Departing
    BY <1>1, <1>2 DEF Departing
  <2> QED
    BY <1>1, <1>3, <1>4, <2>1 DEF RoundInv, Rounds, InStep, InRound, Departing
<1>6. Quotas' /\ Current' /\ Rounds'
  BY <1>1, <1>5 DEF RoundInv, Quotas, Current, Rounds
<1>7. OneLast' /\ Ending'
  BY <1>1, <1>3 DEF OneLast, Ending
<1>8. Registered'
  <2>1. \A q \in Pubs : pc[q] \in Gone /\ pc'[q] \in Gone
    BY <1>1, <1>2, <1>3 DEF Gone
  <2> QED
    BY <1>1, <1>3, <2>1 DEF RoundInv, Registered
<1>9. Written'
  BY <1>1, <1>3 DEF RoundInv, Written
<1> QED
  BY <1>6, <1>7, <1>8, <1>9 DEF RoundInv

-----------------------------------------------------------------------------
(* Every step                                                               *)

LEMMA PubRound ==
  ASSUME Regular, TypeInv, Opened, RoundInv, NEW p \in Pubs, PubStep(p)
  PROVE  RoundInv'
<1>1. CASE LockToFlush(p)
  BY <1>1, StayRound
  DEF LockToFlush, InRound, client, registry, pubSide, status, transport
<1>2. CASE LockToClose(p)
  <2>1. begun[p] = plan[p]
    BY <1>2 DEF LockToClose, RoundInv, Rounds, InStep, Departing
  <2> QED
    BY <1>2, <2>1, StayRound
    DEF LockToClose, client, registry, pubSide, status, transport
<1>3. CASE Put(p)
  <2>1. pc[p] = "tx" /\ writes[p] = 0
    BY <1>3 DEF Put, RoundInv, Written
  <2> QED
    BY <1>3, <2>1, StayRound
    DEF Put, InRound, client, registry, pubSide, status
<1>4. CASE RecheckFlush(p)
  <2>1. pc[p] = "flush" /\ pc[p] \in InRound
    BY <1>4 DEF RecheckFlush, InRound
  <2>2. ~Canceled(currentPub) /\ canceledTx = 0
    BY <2>1 DEF Canceled, RoundInv, Quotas, Current, Rounds, InStep, TypeInv,
                DataOK
  <2>3. \/ pc' = Goto(p, "flushLock")
        \/ pc' = Goto(p, "tx") /\ writes[p] = 0
    BY <1>4, <2>2 DEF RecheckFlush, Flush, FlushMustWait, TypeInv, DataOK
  <2>4. UNCHANGED <<begun, plan, currentPub, completedPub, pubInProgress,
                    pubStreamEnded, canceledTx, pubBarrier, publishers, writes>>
    BY <1>4 DEF RecheckFlush, client, registry, pubSide, status
  <2> QED
    BY <2>1, <2>3, <2>4, StayRound DEF InRound
<1> QED
  BY <1>1, <1>2, <1>3, <1>4, OpenRound, BeginRound, EndRound, CommitRound,
     LeaveRound, CloseLastRound
  DEF PubStep

\* Subscribers leave the publishers alone.
LEMMA SubLeavesPubs ==
  ASSUME TypeInv, NEW s \in Subs, SubStep(s)
  PROVE  /\ \A p \in Pubs : pc'[p] = pc[p] /\ begun'[p] = begun[p]
         /\ UNCHANGED <<completedPub, currentPub, pubInProgress, plan, canceledTx,
                        pubStreamEnded, pubBarrier, publishers, writes>>
<1>0. s \in Actors /\ \A p \in Pubs : p # s /\ p \in Actors
  BY Sides
<1>1. \A p \in Pubs : pc'[p] = pc[p]
  <2>1. ASSUME NEW to, pc' = Goto(s, to)
        PROVE  \A p \in Pubs : pc'[p] = pc[p]
    BY <1>0, <2>1 DEF Goto, TypeInv, PlacesOK
  <2>2. CASE CloseSub(s)
    <3>1. CASE Arrive(s, Subs, subBarrier, "closeBarrier", "closeLast")
      <4> DEFINE waiting == {b \in Subs : pc[b] \in AtBarrier}
      <4>1. CASE pc' = Goto(s, "closeBarrier")
        BY <2>1, <4>1
      <4>2. CASE pc' = [b \in Actors |-> IF b = s THEN "closeLast"
                                         ELSE IF b \in waiting THEN Resumed(pc[b])
                                         ELSE pc[b]]
        <5>1. \A p \in Pubs : p \notin waiting
          BY Sides
        <5> HIDE DEF waiting
        <5> QED
          BY <1>0, <4>2, <5>1
      <4> QED
        BY <3>1, <4>1, <4>2 DEF Arrive
    <3> QED
      BY <2>1, <2>2, <3>1 DEF CloseSub, ArriveToClose
  <2>3. CASE ~CloseSub(s)
    <3>1. \E to : pc' = Goto(s, to)
      BY <2>3
      DEF SubStep, Open, BeginSub, AwaitCompleted, Get, EndSub, LockToRead,
          AwaitWritten, ReadAborted, ReadOver, CountRead, EvictRead, CloseLastSub,
          StartReads, AbortSub
    <3> QED
      BY <2>1, <3>1
  <2> QED
    BY <2>2, <2>3
<1>2. \A p \in Pubs : begun'[p] = begun[p]
  BY <1>0
  DEF SubStep, Open, BeginSub, Begins, AwaitCompleted, Get, EndSub, LockToRead,
      AwaitWritten, ReadAborted, ReadOver, CountRead, EvictRead, CloseSub,
      CloseLastSub, client, TypeInv, DataOK
<1>3. UNCHANGED <<completedPub, currentPub, pubInProgress, plan, canceledTx,
                  pubStreamEnded, pubBarrier, publishers, writes>>
  BY <1>0
  DEF SubStep, Open, BeginSub, AwaitCompleted, Get, EndSub, LockToRead,
      AwaitWritten, ReadAborted, ReadOver, CountRead, EvictRead, CloseSub,
      CloseLastSub, client, registry, pubSide, status, transport
<1> QED
  BY <1>1, <1>2, <1>3

\* Time wakes actors and ends reads.
Drifts(s) == \/ pc'[s] = pc[s]
             \/ Wakes(pc[s], pc'[s])
             \/ pc[s] = "read" /\ pc'[s] = "readOver"

LEMMA TimeWakes ==
  ASSUME TypeInv, TimeStep
  PROVE  /\ \A p \in Pubs : /\ pc'[p] = pc[p] \/ Wakes(pc[p], pc'[p])
                            /\ writes[p] = 0 => writes'[p] = 0
         /\ \A s \in Subs : Drifts(s)
         /\ UNCHANGED <<begun, completedPub, currentPub, pubInProgress, plan,
                        canceledTx, pubStreamEnded, pubBarrier, publishers,
                        currentSub>>
<1>1. PICK written \in SUBSET Pubs, read \in SUBSET Subs : Advance(written, read)
  BY DEF TimeStep
<1> DEFINE f == [a \in Actors |-> IF a \in read THEN "readOver" ELSE pc[a]]
<1>2. pc' = f \/ pc' = Notify(f, WriteWakes)
  BY <1>1 DEF Advance
<1>3. /\ \A p \in Pubs : f[p] = pc[p]
      /\ \A s \in Subs : f[s] = pc[s] \/ (pc[s] = "read" /\ f[s] = "readOver")
  BY <1>1, Sides DEF Advance
<1>4. PlacesOK(f)
  <2>1. \A s \in Subs : f[s] \in SubPlaces
    BY Sides DEF TypeInv, PlacesOK, SubPlaces
  <2> QED
    BY <1>3, <2>1 DEF TypeInv, PlacesOK, Actors
<1> HIDE DEF f
<1>5. \A a \in Actors : pc'[a] = f[a] \/ Wakes(f[a], pc'[a])
  <2>1. WriteWakes \in SUBSET CondVars
    BY DEF WriteWakes, CondVars
  <2> QED
    BY <1>2, <1>4, <2>1, NotifyPlaces
<1>7. ASSUME NEW s \in Subs
      PROVE  Drifts(s)
  <2>1. CASE f[s] = pc[s]
    BY <1>5, <2>1, Sides DEF Drifts
  <2>2. CASE pc[s] = "read" /\ f[s] = "readOver"
    BY <1>5, <2>2, Sides DEF Drifts, Wakes
  <2> QED
    BY <1>3, <2>1, <2>2
<1>6. \A p \in Pubs : writes[p] = 0 => writes'[p] = 0
  BY <1>1 DEF Advance, InFlight
<1> QED
  BY <1>1, <1>3, <1>5, <1>6, <1>7, Sides
  DEF Advance, client, registry, pubSide, subSide, status

\* Opening is over when the first transaction begins.
LEMMA NextOpened ==
  ASSUME Regular, TypeInv, Opened, [Next]_vars
  PROVE  Opened'
<1>1. \A b \in Actors : pc'[b] = "new" => pc[b] = "new"
  <2>1. ASSUME NEW b, Freed(b)
        PROVE  pc'[b] = "new" => pc[b] = "new"
    BY <2>1 DEF Freed, Waits, Wakes, Resumes
  <2>2. ASSUME NEW p \in Pubs, PubStep(p)
        PROVE  \A b \in Actors : pc'[b] = "new" => pc[b] = "new"
    BY <2>1, <2>2, PubMoves, OthersPassive DEF TypeInv
  <2>3. ASSUME NEW s \in Subs, SubStep(s)
        PROVE  \A b \in Actors : pc'[b] = "new" => pc[b] = "new"
    BY <2>1, <2>3, SubMoves, OthersPassive DEF TypeInv
  <2>4. CASE TimeStep \/ \E tx \in 0..MaxTx : CancelTransaction(tx)
    BY <2>1, <2>4, TimeMoves, CancelMoves DEF TypeInv
  <2>5. CASE UNCHANGED vars
    BY <2>5 DEF vars
  <2> QED
    BY <2>2, <2>3, <2>4, <2>5 DEF Next, Terminated
<1>2. begun' = begun \/ \A b \in Actors : pc[b] # "new"
  <2>1. ASSUME NEW p \in Pubs, PubStep(p)
        PROVE  begun' = begun \/ \A b \in Actors : pc[b] # "new"
    BY <2>1
    DEF PubStep, Open, BeginPub, Begins, LockToFlush, RecheckFlush, Put, EndPub,
        Commit, ClosePub, LockToClose, CloseLastPub, client, Regular
  <2>2. ASSUME NEW s \in Subs, SubStep(s)
        PROVE  begun' = begun \/ \A b \in Actors : pc[b] # "new"
    BY <2>2
    DEF SubStep, Open, BeginSub, Begins, AwaitCompleted, Get, EndSub,
        LockToRead, AwaitWritten, ReadAborted, ReadOver, CountRead, EvictRead,
        CloseSub, CloseLastSub, client, Regular
  <2>3. CASE TimeStep \/ \E tx \in 0..MaxTx : CancelTransaction(tx)
    BY <2>3 DEF TimeStep, Advance, CancelTransaction, client
  <2>4. CASE UNCHANGED vars
    BY <2>4 DEF vars, client
  <2> QED
    BY <2>1, <2>2, <2>3, <2>4 DEF Next, Terminated
<1> QED
  BY <1>1, <1>2 DEF Opened

RegularInv == TypeInv /\ Opened /\ RoundInv

LEMMA NextRegular ==
  ASSUME Regular, RegularInv, [Next]_vars
  PROVE  RegularInv'
<1> USE DEF RegularInv
<1>1. TypeInv' /\ Opened'
  BY NextType, NextOpened
<1>2. CASE \E p \in Pubs : PubStep(p)
  BY <1>1, <1>2, PubRound
<1>3. CASE \E s \in Subs : SubStep(s)
  BY <1>1, <1>3, SubLeavesPubs, Undisturbed DEF TypeInv
<1>4. CASE TimeStep
  BY <1>1, <1>4, TimeWakes, Undisturbed DEF TypeInv
<1>5. ~(\E tx \in 0..MaxTx : CancelTransaction(tx))
  BY DEF Regular, CancelTransaction
<1>6. CASE UNCHANGED vars
  BY <1>1, <1>6, Undisturbed
  DEF TypeInv, vars, client, registry, pubSide, status, transport
<1> QED
  BY <1>2, <1>3, <1>4, <1>5, <1>6 DEF Next, Terminated

LEMMA InitRegular ==
  ASSUME Regular, Init
  PROVE  RegularInv
<1>1. /\ \A p \in Pubs : pc[p] = "new" /\ begun[p] = 0 /\ writes[p] = 0
      /\ \A a \in Actors : begun[a] = 0
  BY Sides DEF Init
<1>2. Quotas
  <2>1. PICK n \in MinTx..MaxTx : \A p \in Pubs : plan[p] = n
    BY DEF Init
  <2>2. n \in 1..MaxTx
    BY TxAssumption DEF Regular
  <2> QED
    BY <1>1, <2>1, <2>2 DEF Init, Quotas
<1>3. ~Committing
  BY <1>1 DEF Committing
<1>4. Rounds /\ Current /\ OneLast /\ Ending /\ Registered /\ Written
  BY <1>1, <1>3
  DEF Init, Regular, Rounds, InStep, InRound, Departing, Current, OneLast,
      Ending, Registered, Written
<1>5. Opened
  BY <1>1 DEF Opened
<1> QED
  BY <1>2, <1>4, <1>5, InitType DEF RegularInv, RoundInv

LEMMA RoundsInvariant ==
  ASSUME Regular
  PROVE  Spec => []RegularInv
<1>1. Init => RegularInv
  BY InitRegular
<1>2. RegularInv /\ [Next]_vars => RegularInv'
  BY NextRegular
<1> QED
  BY <1>1, <1>2, PTL DEF Spec

\* Any number of publishers move together, whatever the subscribers do: the
\* n-th put of each of them belongs to transaction n.
THEOREM FilePublishersInStep ==
  ASSUME Regular
  PROVE  Spec => []PublishersInStep
<1>1. RegularInv => PublishersInStep
  BY DEF RegularInv, RoundInv, Rounds, InStep, InRound, Current, PublishersInStep
<1> QED
  BY <1>1, RoundsInvariant, PTL

\* Nothing is put in a transaction while a write of an earlier one is pending.
THEOREM FilePreviousWritten ==
  ASSUME Regular
  PROVE  Spec => []PreviousWritten
<1>1. RegularInv => PreviousWritten
  BY DEF RegularInv, RoundInv, Written, PreviousWritten
<1> QED
  BY <1>1, RoundsInvariant, PTL

-----------------------------------------------------------------------------
(* One subscriber                                                           *)

Inside == InTransaction \ Asking

\* Where the subscriber is in the stream: it is inside a transaction that was
\* completed, asks for the one after it or was told that there is none.
Reads(s) ==
  /\ currentSub = begun[s] /\ pc[s] \notin {"canceled", "aborted"}
  /\ pc[s] \in Asking => begun[s] <= completedPub + 1
  /\ pc[s] \in InTransaction => begun[s] > 0
  /\ pc[s] \in {"new", "idle"} \cup Inside => begun[s] <= completedPub
  /\ pc[s] = "eos" => pubStreamEnded /\ begun[s] = completedPub + 1
  /\ pc[s] \in Gone /\ begun[s] > completedPub =>
       pubStreamEnded /\ begun[s] = completedPub + 1

ReaderInv == \A s \in Subs : Reads(s)

\* A subscriber that does not act stays in the same part of the stream.
LEMMA SamePart ==
  ASSUME NEW s \in Subs, PlacesOK(pc),
         Drifts(s) \/ Resumes(pc[s], pc'[s])
  PROVE  /\ pc'[s] \in Asking <=> pc[s] \in Asking
         /\ pc'[s] \in Inside <=> pc[s] \in Inside
         /\ pc'[s] \in InTransaction <=> pc[s] \in InTransaction
         /\ pc'[s] \in Gone <=> pc[s] \in Gone
         /\ \A place \in {"new", "idle", "eos", "canceled", "aborted", "evict"} :
              pc'[s] = place <=> pc[s] = place
<1> DEFINE Kin(x, y) == \/ y = x
                        \/ x = "cvCompleted" /\ y = "await"
                        \/ x = "cvWritten" /\ y = "written"
                        \/ x = "closeBarrier" /\ y = "closed"
                        \/ x = "read" /\ y = "readOver"
<1>1. Kin(pc[s], pc'[s])
  BY DEF Drifts, Wakes, Resumes, PlacesOK, SubPlaces
<1> QED
  BY <1>1 DEF Asking, Inside, InTransaction, Gone

\* When the registry is empty, and the last publisher is not about to close,
\* the stream has ended.
LEMMA EmptyMeansEnded ==
  ASSUME Regular, RoundInv, publishers = {},
         \A p \in Pubs : pc[p] \notin {"new", "closeLast"}
  PROVE  pubStreamEnded
<1>1. \A p \in Pubs : pc[p] \in {"closeBarrier", "closed"}
  BY DEF RoundInv, Registered, Gone
<1>2. PICK p \in Pubs : pc[p] = "closed"
  BY <1>1 DEF RoundInv, Ending
<1>3. \A q \in Pubs : pc[q] = "closed"
  BY <1>1, <1>2 DEF RoundInv, OneLast
<1> QED
  BY <1>3 DEF RoundInv, Ending

\* The steps of the abstract specification, when there is one subscriber.
LEMMA Stutters ==
  ASSUME NEW s, Subs = {s}, UNCHANGED <<completedPub, pubStreamEnded>>,
         Entered(s)' = Entered(s), WasTold(s)' <=> WasTold(s)
  PROVE  UNCHANGED Stream!streamVars
<1>1. [r \in Subs |-> Entered(r)]' = [r \in Subs |-> Entered(r)]
  OBVIOUS
<1>2. {r \in Subs : WasTold(r)}' = {r \in Subs : WasTold(r)}
  OBVIOUS
<1> QED
  BY <1>1, <1>2 DEF Stream!streamVars

LEMMA Consumes ==
  ASSUME NEW s, Subs = {s}, UNCHANGED <<completedPub, pubStreamEnded>>,
         Entered(s) < completedPub, Entered(s)' = Entered(s) + 1,
         WasTold(s)' <=> WasTold(s)
  PROVE  Stream!StreamNext
<1>1. [r \in Subs |-> Entered(r)]'
        = [[r \in Subs |-> Entered(r)] EXCEPT ![s] = Entered(s) + 1]
  OBVIOUS
<1>2. {r \in Subs : WasTold(r)}' = {r \in Subs : WasTold(r)}
  OBVIOUS
<1>3. s \in Subs /\ [r \in Subs |-> Entered(r)][s] = Entered(s)
  OBVIOUS
<1>4. Stream!Consume(s)
  BY <1>1, <1>2, <1>3 DEF Stream!Consume
<1> QED
  BY <1>3, <1>4 DEF Stream!StreamNext

LEMMA IsTold ==
  ASSUME NEW s, Subs = {s}, UNCHANGED <<completedPub, pubStreamEnded>>,
         pubStreamEnded, Entered(s) = completedPub,
         Entered(s)' = Entered(s), WasTold(s)'
  PROVE  Stream!StreamNext
<1>1. [r \in Subs |-> Entered(r)]' = [r \in Subs |-> Entered(r)]
  OBVIOUS
<1>2. {r \in Subs : WasTold(r)}' = {r \in Subs : WasTold(r)} \cup {s}
  OBVIOUS
<1>3. s \in Subs /\ [r \in Subs |-> Entered(r)][s] = Entered(s)
  OBVIOUS
<1>4. Stream!TellEnd(s)
  BY <1>1, <1>2, <1>3 DEF Stream!TellEnd
<1> QED
  BY <1>3, <1>4 DEF Stream!StreamNext

LEMMA Produces ==
  ASSUME NEW s, Subs = {s}, completedPub' = completedPub + 1,
         pubStreamEnded' = pubStreamEnded, ~pubStreamEnded,
         completedPub < Entered(s) + (MaxTx + 1),
         Entered(s)' = Entered(s), WasTold(s)' <=> WasTold(s)
  PROVE  Stream!StreamNext
<1>1. [r \in Subs |-> Entered(r)]' = [r \in Subs |-> Entered(r)]
  OBVIOUS
<1>2. {r \in Subs : WasTold(r)}' = {r \in Subs : WasTold(r)}
  OBVIOUS
<1>3. \A r \in Subs : completedPub < [q \in Subs |-> Entered(q)][r] + (MaxTx + 1)
  OBVIOUS
<1>4. Stream!Produce
  BY <1>1, <1>2, <1>3 DEF Stream!Produce
<1> QED
  BY <1>4 DEF Stream!StreamNext

LEMMA Ends ==
  ASSUME NEW s, Subs = {s}, completedPub' = completedPub,
         ~pubStreamEnded, pubStreamEnded' = TRUE,
         Entered(s)' = Entered(s), WasTold(s)' <=> WasTold(s)
  PROVE  Stream!StreamNext
<1>1. [r \in Subs |-> Entered(r)]' = [r \in Subs |-> Entered(r)]
  OBVIOUS
<1>2. {r \in Subs : WasTold(r)}' = {r \in Subs : WasTold(r)}
  OBVIOUS
<1>3. Stream!EndStream
  BY <1>1, <1>2 DEF Stream!EndStream
<1> QED
  BY <1>3 DEF Stream!StreamNext

-----------------------------------------------------------------------------
(* Each step keeps ReaderInv, and is a step of the abstract specification   *)
(* or does not change what it is about                                      *)

Simulates == Stream!StreamNext \/ UNCHANGED Stream!streamVars

\* What was told and entered depends on the part of the stream, on the calls
\* of begin and on the number of completed transactions.
LEMMA SameStanding ==
  ASSUME NEW s \in Subs, begun'[s] = begun[s],
         pc'[s] \in Asking <=> pc[s] \in Asking,
         WasTold(s)' <=> WasTold(s)
  PROVE  Entered(s)' = Entered(s)
BY DEF Entered

\* Publishers may wake the subscriber, and leave it where it stands.
LEMMA PubLeavesReader ==
  ASSUME RegularInv, ReaderInv, NEW s, Subs = {s}, NEW p \in Pubs, PubStep(p)
  PROVE  /\ begun'[s] = begun[s] /\ UNCHANGED currentSub
         /\ pc'[s] \in Asking <=> pc[s] \in Asking
         /\ pc'[s] \in Inside <=> pc[s] \in Inside
         /\ pc'[s] \in InTransaction <=> pc[s] \in InTransaction
         /\ pc'[s] \in Gone <=> pc[s] \in Gone
         /\ \A place \in {"new", "idle", "eos", "canceled", "aborted", "evict"} :
              pc'[s] = place <=> pc[s] = place
         /\ WasTold(s)' <=> WasTold(s)
<1>0. s \in Subs /\ s \in Actors /\ s # p /\ p \in Actors
      /\ completedPub \in Nat /\ begun[s] \in Nat
  BY Sides DEF RegularInv, TypeInv, DataOK
<1>1. UNCHANGED currentSub /\ begun'[s] = begun[s]
  BY <1>0
  DEF PubStep, Open, BeginPub, Begins, LockToFlush, RecheckFlush, Put, EndPub,
      Commit, ClosePub, LockToClose, CloseLastPub, client, subSide,
      RegularInv, TypeInv, DataOK
<1>2. /\ pc'[s] \in Asking <=> pc[s] \in Asking
      /\ pc'[s] \in Inside <=> pc[s] \in Inside
      /\ pc'[s] \in InTransaction <=> pc[s] \in InTransaction
      /\ pc'[s] \in Gone <=> pc[s] \in Gone
      /\ \A place \in {"new", "idle", "eos", "canceled", "aborted", "evict"} :
           pc'[s] = place <=> pc[s] = place
  <2>1. PlacesOK(pc)
    BY DEF RegularInv, TypeInv
  <2>2. Drifts(s) \/ Resumes(pc[s], pc'[s])
    BY <1>0, <2>1, PubMoves DEF Others, Waits, Drifts
  <2> QED
    BY <1>0, <2>1, <2>2, SamePart
<1>3. Gone = Leaving
  BY DEF Gone, Leaving
<1>4. WasTold(s)' <=> WasTold(s)
  <2>1. CASE Commit(p)
    <3>1. completedPub' = completedPub + 1 /\ ~pubStreamEnded /\ Reads(s)
      BY <1>0, <2>1 DEF Commit, RegularInv, RoundInv, Ending, ReaderInv
    <3>2. pc[s] # "eos" /\ (pc[s] \in Gone => begun[s] <= completedPub)
      BY <1>0, <3>1 DEF Reads
    <3>3. pc'[s] # "eos" /\ (pc'[s] \in Gone => begun'[s] <= completedPub')
      BY <1>0, <1>1, <1>2, <3>1, <3>2
    <3> QED
      BY <1>0, <1>1, <1>3, <3>1, <3>2, <3>3 DEF WasTold
  <2>2. CASE ~Commit(p)
    <3>1. UNCHANGED completedPub
      BY <2>2
      DEF PubStep, Open, BeginPub, LockToFlush, RecheckFlush, Put, EndPub,
          ClosePub, LockToClose, CloseLastPub, pubSide
    <3> QED
      BY <1>1, <1>2, <1>3, <3>1 DEF WasTold
  <2> QED
    BY <2>1, <2>2
<1> QED
  BY <1>1, <1>2, <1>4

\* Publishers: the one that completes a transaction produces it, the one that
\* closes the stream ends it.
LEMMA PubSimulates ==
  ASSUME RegularInv, ReaderInv, NEW s, Subs = {s}, NEW p \in Pubs, PubStep(p)
  PROVE  ReaderInv' /\ Simulates
<1>0. s \in Subs /\ s \in Actors /\ s # p /\ completedPub \in Nat
      /\ begun[s] \in Nat
  BY Sides DEF RegularInv, TypeInv, DataOK
<1>1. UNCHANGED currentSub /\ begun'[s] = begun[s]
  BY PubLeavesReader
<1>2. /\ pc'[s] \in Asking <=> pc[s] \in Asking
      /\ pc'[s] \in Inside <=> pc[s] \in Inside
      /\ pc'[s] \in InTransaction <=> pc[s] \in InTransaction
      /\ pc'[s] \in Gone <=> pc[s] \in Gone
      /\ \A place \in {"new", "idle", "eos", "canceled", "aborted", "evict"} :
           pc'[s] = place <=> pc[s] = place
      /\ WasTold(s)' <=> WasTold(s)
  BY PubLeavesReader
<1>3. Gone = Leaving
  BY DEF Gone, Leaving
<1>4. Reads(s)
  BY <1>0 DEF ReaderInv
<1>5. CASE Commit(p)
  <2>1. /\ completedPub' = completedPub + 1 /\ pubStreamEnded' = pubStreamEnded
        /\ pc[p] = "commit"
    BY <1>5 DEF Commit, status
  <2>2. ~pubStreamEnded
    BY <2>1 DEF RegularInv, RoundInv, Ending
  <2>3. completedPub + 1 <= MaxTx
    <3>1. begun[p] = completedPub + 1
      BY <2>1 DEF RegularInv, RoundInv, Rounds, InStep, Round, Committing
    <3>2. begun[p] <= plan[p] /\ plan[p] \in 1..MaxTx
      BY DEF RegularInv, RoundInv, Quotas
    <3> QED
      BY <1>0, <3>1, <3>2, TxAssumption
  <2>4. Reads(s)'
    BY <1>0, <1>1, <1>2, <1>4, <2>1, <2>2 DEF Reads
  <2>5. ~WasTold(s) /\ ~WasTold(s)'
    <3>1. pc[s] # "eos" /\ (pc[s] \in Gone => begun[s] <= completedPub)
      BY <1>0, <1>4, <2>2 DEF Reads
    <3>2. pc'[s] # "eos" /\ (pc'[s] \in Gone => begun'[s] <= completedPub')
      BY <1>0, <1>1, <1>2, <2>1, <3>1
    <3>3. begun'[s] \in Nat /\ completedPub' \in Nat
      BY <1>0, <1>1, <2>1
    <3> QED
      BY <1>0, <1>3, <3>1, <3>2, <3>3 DEF WasTold
  <2>6. Entered(s)' = Entered(s)
    BY <1>0, <1>1, <1>2, <2>5, SameStanding
  <2>7. completedPub < Entered(s) + (MaxTx + 1)
    <3>1. Entered(s) \in Nat
      <4>1. CASE pc[s] \in Asking
        <5>1. begun[s] > 0
          BY <1>4, <4>1, <2>2 DEF Reads, Asking, InTransaction
        <5> QED
          BY <1>0, <4>1, <5>1 DEF Entered
      <4>2. CASE pc[s] \notin Asking
        BY <1>0, <2>5, <4>2 DEF Entered
      <4> QED
        BY <4>1, <4>2
    <3> QED
      BY <1>0, <2>3, <3>1, TxAssumption
  <2>8. Stream!StreamNext
    BY <2>1, <2>2, <2>5, <2>6, <2>7, Produces
  <2> QED
    BY <2>4, <2>8 DEF ReaderInv, Simulates
<1>6. CASE CloseLastPub(p)
  <2>1. completedPub' = completedPub /\ pubStreamEnded' = TRUE /\ pc[p] = "closeLast"
    BY <1>6 DEF CloseLastPub, pubSide
  <2>2. ~pubStreamEnded
    BY <2>1 DEF RegularInv, RoundInv, Ending
  <2>3. Reads(s)'
    BY <1>0, <1>1, <1>2, <1>4, <2>1 DEF Reads
  <2>4. Entered(s)' = Entered(s)
    BY <1>0, <1>1, <1>2, SameStanding
  <2>5. Stream!StreamNext
    BY <1>2, <2>1, <2>2, <2>4, Ends
  <2> QED
    BY <2>3, <2>5 DEF ReaderInv, Simulates
<1>7. CASE ~(Commit(p) \/ CloseLastPub(p))
  <2>1. UNCHANGED <<completedPub, pubStreamEnded>>
    BY <1>7
    DEF PubStep, Open, BeginPub, LockToFlush, RecheckFlush, Put, EndPub,
        ClosePub, LockToClose, pubSide, status
  <2>2. Reads(s)'
    BY <1>0, <1>1, <1>2, <1>4, <2>1 DEF Reads
  <2>3. Entered(s)' = Entered(s)
    BY <1>0, <1>1, <1>2, SameStanding
  <2>4. UNCHANGED Stream!streamVars
    BY <1>2, <2>1, <2>3, Stutters
  <2> QED
    BY <2>2, <2>4 DEF ReaderInv, Simulates
<1> QED
  BY <1>5, <1>6, <1>7

\* The subscriber enters a transaction that is completed, waits for it, or is
\* told that there is none.
LEMMA BeginSimulates ==
  ASSUME Regular, RegularInv, ReaderInv, SubFlagNeverSticks,
         NEW s, Subs = {s}, BeginSub(s)
  PROVE  ReaderInv' /\ Simulates
<1>0. /\ s \in Subs /\ s \in Actors /\ completedPub \in Nat
      /\ begun \in [Actors -> Nat] /\ begun[s] \in Nat
  BY Sides DEF RegularInv, TypeInv, DataOK
<1>1. Reads(s)
  BY <1>0 DEF ReaderInv
<1>2. /\ pc[s] = "idle" /\ begun'[s] = begun[s] + 1
      /\ \A b \in Actors : pc[b] \notin {"new", "closeLast"}
  BY <1>0, <1>1 DEF BeginSub, Begins, Reads, Regular
<1>3. /\ currentSub = begun[s] /\ begun[s] <= completedPub
  BY <1>1, <1>2 DEF Reads
<1>4. ~subInProgress
  BY <1>2 DEF SubFlagNeverSticks, InTransaction
<1>5. ~Canceled(currentSub + 1)
  BY <1>0, <1>3 DEF Canceled, RegularInv, RoundInv, Quotas
<1> DEFINE ended == publishers = {} /\ pubStreamEnded /\ completedPub < begun'[s]
<1>6. /\ currentSub' = begun'[s]
      /\ pc' = Goto(s, IF publishers # {} THEN "await"
                       ELSE IF ended THEN "eos" ELSE "tx")
      /\ UNCHANGED <<completedPub, pubStreamEnded>>
  BY <1>2, <1>3, <1>4, <1>5 DEF BeginSub, pubSide, status
<1>7. pc'[s] = IF publishers # {} THEN "await" ELSE IF ended THEN "eos" ELSE "tx"
  BY <1>0, <1>6 DEF Goto, RegularInv, TypeInv, PlacesOK
<1>8. Entered(s) = begun[s] /\ ~WasTold(s)
  BY <1>2 DEF Entered, WasTold, Asking, Leaving
<1>9. CASE publishers # {}
  <2>1. pc'[s] = "await"
    BY <1>7, <1>9
  <2>2. Reads(s)'
    BY <1>0, <1>2, <1>3, <1>6, <2>1 DEF Reads, Asking, Inside, InTransaction, Gone
  <2>3. Entered(s)' = begun[s] /\ ~WasTold(s)'
    BY <1>0, <1>2, <2>1 DEF Entered, WasTold, Asking, Leaving
  <2>4. UNCHANGED Stream!streamVars
    BY <1>6, <1>8, <2>3, Stutters
  <2> QED
    BY <2>2, <2>4 DEF ReaderInv, Simulates
<1>10. CASE publishers = {}
  <2>1. pubStreamEnded
    BY <1>2, <1>10, EmptyMeansEnded, Sides DEF RegularInv
  <2>2. CASE ended
    <3>1. pc'[s] = "eos" /\ begun[s] = completedPub
      BY <1>0, <1>2, <1>3, <1>7, <1>10, <2>2
    <3>2. Reads(s)'
      BY <1>0, <1>2, <1>6, <2>1, <3>1
      DEF Reads, Asking, Inside, InTransaction, Gone
    <3>3. Entered(s)' = begun[s] /\ WasTold(s)'
      BY <1>0, <1>2, <3>1 DEF Entered, WasTold, Asking, Leaving
    <3>4. Stream!StreamNext
      BY <1>6, <1>8, <2>1, <3>1, <3>3, IsTold
    <3> QED
      BY <3>2, <3>4 DEF ReaderInv, Simulates
  <2>3. CASE ~ended
    <3>1. pc'[s] = "tx" /\ begun[s] < completedPub
      BY <1>0, <1>2, <1>3, <1>7, <1>10, <2>1, <2>3
    <3>2. Reads(s)'
      BY <1>0, <1>2, <1>6, <3>1 DEF Reads, Asking, Inside, InTransaction, Gone
    <3>3. Entered(s)' = Entered(s) + 1 /\ ~WasTold(s)'
      BY <1>2, <1>8, <3>1 DEF Entered, WasTold, Asking, Leaving
    <3>4. Stream!StreamNext
      BY <1>6, <1>8, <3>1, <3>3, Consumes
    <3> QED
      BY <3>2, <3>4 DEF ReaderInv, Simulates
  <2> QED
    BY <2>2, <2>3
<1> QED
  BY <1>9, <1>10

\* The same, after the wait.
LEMMA AwaitSimulates ==
  ASSUME RegularInv, ReaderInv, NEW s, Subs = {s}, AwaitCompleted(s)
  PROVE  ReaderInv' /\ Simulates
<1>0. /\ s \in Subs /\ s \in Actors /\ completedPub \in Nat
      /\ begun[s] \in Nat
  BY Sides DEF RegularInv, TypeInv, DataOK
<1>1. Reads(s)
  BY <1>0 DEF ReaderInv
<1>2. /\ pc[s] = "await" /\ pc' = Goto(s, AwaitOutcome)
      /\ UNCHANGED <<begun, currentSub, completedPub, pubStreamEnded>>
  BY DEF AwaitCompleted, client, pubSide, status
<1>3. pc'[s] = AwaitOutcome
  BY <1>0, <1>2 DEF Goto, RegularInv, TypeInv, PlacesOK
<1>4. /\ currentSub = begun[s] /\ begun[s] > 0 /\ begun[s] <= completedPub + 1
  BY <1>1, <1>2 DEF Reads, Asking, InTransaction
<1>5. ~Canceled(currentSub)
  BY <1>0, <1>4 DEF Canceled, RegularInv, RoundInv, Quotas
<1>6. Entered(s) = begun[s] - 1 /\ ~WasTold(s)
  BY <1>2 DEF Entered, WasTold, Asking, Leaving
<1>7. CASE completedPub >= currentSub
  <2>1. pc'[s] = "tx"
    BY <1>3, <1>5, <1>7 DEF AwaitOutcome
  <2>2. begun[s] <= completedPub
    BY <1>0, <1>4, <1>7
  <2>3. Reads(s)'
    BY <1>2, <1>4, <2>1, <2>2 DEF Reads, Asking, Inside, InTransaction, Gone
  <2>4. Entered(s)' = begun[s] /\ ~WasTold(s)'
    BY <1>2, <2>1 DEF Entered, WasTold, Asking, Leaving
  <2>5. Entered(s) < completedPub /\ Entered(s)' = Entered(s) + 1
    BY <1>0, <1>4, <1>6, <2>2, <2>4
  <2>6. Stream!StreamNext
    BY <1>2, <1>6, <2>4, <2>5, Consumes
  <2> QED
    BY <2>3, <2>6 DEF ReaderInv, Simulates
<1>8. CASE ~(completedPub >= currentSub) /\ pubStreamEnded
  <2>1. pc'[s] = "eos"
    BY <1>3, <1>5, <1>8 DEF AwaitOutcome
  <2>2. begun[s] = completedPub + 1
    BY <1>0, <1>4, <1>8
  <2>3. Reads(s)'
    BY <1>2, <1>4, <1>8, <2>1, <2>2
    DEF Reads, Asking, Inside, InTransaction, Gone
  <2>4. Entered(s)' = Entered(s) /\ WasTold(s)'
    BY <1>2, <1>6, <2>1 DEF Entered, WasTold, Asking, Leaving
  <2>5. Entered(s) = completedPub
    BY <1>0, <1>6, <2>2
  <2>6. Stream!StreamNext
    BY <1>2, <1>8, <2>4, <2>5, IsTold
  <2> QED
    BY <2>3, <2>6 DEF ReaderInv, Simulates
<1>9. CASE ~(completedPub >= currentSub) /\ ~pubStreamEnded
  <2>1. pc'[s] = "cvCompleted"
    BY <1>3, <1>5, <1>9 DEF AwaitOutcome
  <2>2. Reads(s)'
    BY <1>2, <1>4, <2>1 DEF Reads, Asking, Inside, InTransaction, Gone
  <2>3. Entered(s)' = Entered(s) /\ ~WasTold(s)'
    BY <1>2, <1>6, <2>1 DEF Entered, WasTold, Asking, Leaving
  <2>4. UNCHANGED Stream!streamVars
    BY <1>2, <1>6, <2>3, Stutters
  <2> QED
    BY <2>2, <2>4 DEF ReaderInv, Simulates
<1> QED
  BY <1>7, <1>8, <1>9

\* The subscriber closes after a transaction, or after it was told of the end.
LEMMA SubCloses ==
  ASSUME TypeInv, NEW s \in Subs, Reads(s), CloseSub(s) \/ CloseLastSub(s)
  PROVE  /\ pc[s] \in {"idle", "eos", "closeLast"} /\ pc'[s] \in Gone
         /\ UNCHANGED <<begun, currentSub>>
<1>0. s \in Actors
  BY Sides
<1>1. pc[s] \in {"idle", "eos", "closeLast"}
  BY DEF CloseSub, Closes, CloseLastSub, Reads
<1>2. \/ pc' = Goto(s, "closed")
      \/ Arrive(s, Subs, subBarrier, "closeBarrier", "closeLast")
  BY DEF CloseSub, ArriveToClose, CloseLastSub
<1>3. pc'[s] \in Gone
  <2>1. CASE pc' = Goto(s, "closed")
    BY <1>0, <2>1 DEF Goto, TypeInv, PlacesOK, Gone
  <2>2. CASE Arrive(s, Subs, subBarrier, "closeBarrier", "closeLast")
    <3>1. {"closeBarrier", "closeLast"} \subseteq SubPlaces
      BY DEF SubPlaces
    <3>2. pc'[s] \in {"closeBarrier", "closeLast"}
      BY <1>0, <2>2, <3>1, ArrivePlaces, Sides DEF TypeInv
    <3> QED
      BY <3>2 DEF Gone
  <2> QED
    BY <1>2, <2>1, <2>2
<1> QED
  BY <1>1, <1>3 DEF CloseSub, CloseLastSub, client, subSide

\* Everything else that the subscriber does changes nothing of it.
LEMMA SubSimulates ==
  ASSUME Regular, RegularInv, ReaderInv, SubFlagNeverSticks,
         NEW s, Subs = {s}, SubStep(s)
  PROVE  ReaderInv' /\ Simulates
<1>0. /\ s \in Subs /\ s \in Actors /\ completedPub \in Nat
      /\ begun[s] \in Nat
  BY Sides DEF RegularInv, TypeInv, DataOK
<1>1. Reads(s)
  BY <1>0 DEF ReaderInv
<1>2. UNCHANGED <<completedPub, pubStreamEnded>>
  BY <1>0, SubLeavesPubs DEF RegularInv
<1>3. \A to : pc' = Goto(s, to) => pc'[s] = to
  BY <1>0 DEF Goto, RegularInv, TypeInv, PlacesOK
<1>4. ASSUME UNCHANGED <<begun, currentSub>>,
             \/ pc[s] \in {"new", "idle"} \cup Inside /\ pc'[s] \in {"idle"} \cup Inside
             \/ pc[s] \in {"idle", "eos"} \cup Gone /\ pc'[s] \in Gone,
             pc'[s] # "aborted", pc'[s] \in InTransaction => pc[s] \in InTransaction
      PROVE  ReaderInv' /\ Simulates
  <2>1. pc[s] # "eos" => pc[s] \notin Asking
    BY <1>4 DEF Asking, Inside, Gone
  <2>2. pc'[s] \notin Asking
    BY <1>4 DEF Asking, Inside, Gone
  <2>3. CASE pc'[s] \in Gone
    <3>1. Reads(s)'
      BY <1>0, <1>1, <1>2, <1>4, <2>3
      DEF Reads, Asking, Inside, InTransaction, Gone
    <3>2. WasTold(s)' <=> WasTold(s)
      BY <1>0, <1>1, <1>2, <1>4, <2>3
      DEF WasTold, Reads, Inside, InTransaction, Gone, Leaving
    <3>3. Entered(s)' = Entered(s)
      BY <1>4, <2>1, <2>2, <3>2 DEF Entered, Asking, WasTold
    <3>4. UNCHANGED Stream!streamVars
      BY <1>2, <3>2, <3>3, Stutters
    <3> QED
      BY <3>1, <3>4 DEF ReaderInv, Simulates
  <2>4. CASE pc'[s] \notin Gone
    <3>1. Reads(s)'
      BY <1>0, <1>1, <1>2, <1>4, <2>4
      DEF Reads, Asking, Inside, InTransaction, Gone
    <3>2. ~WasTold(s)' /\ ~WasTold(s)
      BY <1>4, <2>4 DEF WasTold, Inside, InTransaction, Gone, Leaving
    <3>3. Entered(s)' = Entered(s)
      BY <1>4, <2>1, <2>2, <3>2 DEF Entered, WasTold
    <3>4. UNCHANGED Stream!streamVars
      BY <1>2, <3>2, <3>3, Stutters
    <3> QED
      BY <3>1, <3>4 DEF ReaderInv, Simulates
  <2> QED
    BY <2>3, <2>4
<1>5. CASE Open(s)
  BY <1>3, <1>4, <1>5 DEF Open, client, subSide, InTransaction
<1>6. CASE (\E wanted \in SUBSET Pubs : Get(s, wanted)) \/ LockToRead(s)
  BY <1>3, <1>4, <1>6
  DEF Get, LockToRead, client, subSide, Inside, InTransaction, Asking
<1>7. CASE \/ EndSub(s) \/ AwaitWritten(s)
           \/ ReadOver(s) \/ CountRead(s) \/ EvictRead(s)
  <2>1. pc[s] \in {"get", "written", "readOver", "count", "evict"}
    BY <1>7 DEF EndSub, AwaitWritten, ReadOver, CountRead, EvictRead
  <2>2. ~Canceled(currentSub)
    <3>1. currentSub > 0
      BY <1>0, <1>1, <2>1 DEF Reads, InTransaction
    <3> QED
      BY <1>0, <3>1 DEF Canceled, RegularInv, RoundInv, Quotas
  <2>3. \E to \in {"readLock", "readOver", "read", "count", "evict", "idle"} :
          pc' = Goto(s, to)
    BY <1>7, <2>2
    DEF EndSub, AwaitWritten, ReadOver, CountRead, EvictRead, StartReads
  <2>4. UNCHANGED <<begun, currentSub>>
    BY <1>7 DEF EndSub, AwaitWritten, ReadOver, CountRead, EvictRead, client
  <2> QED
    BY <1>3, <1>4, <2>1, <2>3, <2>4 DEF Inside, InTransaction, Asking
<1>8. CASE ReadAborted(s)
  BY <1>1, <1>8 DEF ReadAborted, Reads
<1>9. CASE CloseSub(s) \/ CloseLastSub(s)
  <2>1. /\ pc[s] \in {"idle", "eos", "closeLast"} /\ pc'[s] \in Gone
        /\ UNCHANGED <<begun, currentSub>>
    BY <1>0, <1>1, <1>9, SubCloses DEF RegularInv
  <2> QED
    BY <1>4, <2>1 DEF Gone, InTransaction
<1> QED
  BY <1>5, <1>6, <1>7, <1>8, <1>9, BeginSimulates, AwaitSimulates DEF SubStep

LEMMA PassiveSimulates ==
  ASSUME RegularInv, ReaderInv, NEW s, Subs = {s}, Drifts(s),
         UNCHANGED <<begun, currentSub, completedPub, pubStreamEnded>>
  PROVE  ReaderInv' /\ Simulates
<1>1. s \in Subs /\ Reads(s) /\ PlacesOK(pc)
  BY DEF ReaderInv, RegularInv, TypeInv
<1>2. /\ pc'[s] \in Asking <=> pc[s] \in Asking
      /\ pc'[s] \in Inside <=> pc[s] \in Inside
      /\ pc'[s] \in InTransaction <=> pc[s] \in InTransaction
      /\ pc'[s] \in Gone <=> pc[s] \in Gone
      /\ \A place \in {"new", "idle", "eos", "canceled", "aborted", "evict"} :
           pc'[s] = place <=> pc[s] = place
  BY <1>1, SamePart
<1>3. Reads(s)'
  BY <1>1, <1>2 DEF Reads
<1>4. WasTold(s)' <=> WasTold(s)
  BY <1>2 DEF WasTold, Gone, Leaving
<1>5. Entered(s)' = Entered(s)
  BY <1>1, <1>2, <1>4, SameStanding
<1> QED
  BY <1>3, <1>4, <1>5, Stutters DEF ReaderInv, Simulates

LEMMA NextSimulates ==
  ASSUME Regular, RegularInv, ReaderInv, SubFlagNeverSticks,
         NEW s, Subs = {s}, [Next]_vars
  PROVE  ReaderInv' /\ Simulates
<1>0. s \in Subs
  OBVIOUS
<1>1. CASE \E p \in Pubs : PubStep(p)
  BY <1>1, PubSimulates
<1>2. CASE \E r \in Subs : SubStep(r)
  <2>1. SubStep(s)
    BY <1>2
  <2> QED
    BY <1>0, <2>1, SubSimulates
<1>3. CASE TimeStep
  BY <1>0, <1>3, TimeWakes, PassiveSimulates DEF RegularInv
<1>4. ~(\E tx \in 0..MaxTx : CancelTransaction(tx))
  BY DEF Regular, CancelTransaction
<1>5. CASE UNCHANGED vars
  <2>1. UNCHANGED <<pc, begun, currentSub, completedPub, pubStreamEnded>>
    BY <1>5 DEF vars, client, pubSide, subSide, status
  <2> QED
    BY <2>1, PassiveSimulates DEF Drifts
<1> QED
  BY <1>1, <1>2, <1>3, <1>4, <1>5 DEF Next, Terminated

LEMMA InitSimulates ==
  ASSUME NEW s, Subs = {s}, Init
  PROVE  ReaderInv /\ Stream!StreamInit
<1>1. \A r \in Subs : pc[r] = "new" /\ begun[r] = 0
  BY Sides DEF Init
<1>2. completedPub = 0 /\ currentSub = 0 /\ pubStreamEnded = FALSE
  BY DEF Init
<1>3. ReaderInv
  BY <1>1, <1>2 DEF ReaderInv, Reads, Asking, Inside, InTransaction, Gone
<1>4. \A r \in Subs : Entered(r) = 0 /\ ~WasTold(r)
  BY <1>1 DEF Entered, WasTold, Asking, Leaving
<1>5. /\ [r \in Subs |-> Entered(r)] = [r \in Subs |-> 0]
      /\ {r \in Subs : WasTold(r)} = {}
  BY <1>4
<1> QED
  BY <1>2, <1>3, <1>5 DEF Stream!StreamInit

\* For any number of publishers and of transactions, the only subscriber of a
\* File engine enters every transaction once, in order, after the publishers
\* have completed it, and is told that the stream has ended when it asks for
\* one more than there are, and never before.
THEOREM FileImplementsStream ==
  ASSUME Regular, NEW s, Subs = {s}
  PROVE  Spec => ImplementsStream
<1>1. Init => ReaderInv /\ Stream!StreamInit
  BY InitSimulates
<1>2. RegularInv /\ ReaderInv /\ SubFlagNeverSticks /\ [Next]_vars
        => ReaderInv' /\ [Stream!StreamNext]_(Stream!streamVars)
  BY NextSimulates DEF Simulates
<1> QED
  BY <1>1, <1>2, RoundsInvariant, FileFlagNeverSticks, PTL
  DEF Spec, ImplementsStream, Stream!StreamSpec

-----------------------------------------------------------------------------
(* The metadata, with one subscriber                                        *)

\* How many transactions the subscriber has finished, and which blocks the
\* publishers have put: those of the completed transactions, and those of the
\* ones that are past their put in the next.
Done(s) == IF pc[s] \in InTransaction \/ WasTold(s) THEN begun[s] - 1 ELSE begun[s]
HasPut(p) == pc[p] \in {"put", "endBarrier"} \/ Committing
Recorded(t, p) == \/ t \in 1..completedPub
                  \/ t = completedPub + 1 /\ HasPut(p)

\* In memory is what was put and the subscriber has not finished, no more.
InMemory(s) ==
  /\ infos = {t \in Nat : t > Done(s) /\ \E p \in Pubs : Recorded(t, p)}
  /\ blocks = {b \in Nat \X Pubs : b[1] > Done(s) /\ Recorded(b[1], b[2])}

\* The progress file has what the subscriber has finished, in order, until the
\* last publisher exports both.
Progress(s) ==
  /\ Len(flushed) <= Done(s) /\ \A i \in 1..Len(flushed) : flushed[i] = i
  /\ ~pubStreamEnded => Len(flushed) = Done(s)
  /\ pubStreamEnded => exported = 1..completedPub

\* The subscriber counts its own completions only, and so evicts what it read.
Alone(s) ==
  /\ subsCompleted = 0
  /\ evicting[s] = IF pc[s] = "evict" THEN begun[s] ELSE 0
  /\ subscribers = IF pc[s] \in {"new"} \cup Gone THEN {} ELSE {s}
  /\ (\E p \in Pubs : pc[p] # "new") => pubEverPresent

MetaInv(s) == InMemory(s) /\ Progress(s) /\ Alone(s)

LEMMA DoneIs ==
  ASSUME RegularInv, ReaderInv, NEW s, Subs = {s}
  PROVE  /\ Done(s) \in Nat /\ Done(s) <= completedPub /\ completedPub \in Nat
         /\ pc[s] \in Inside => begun[s] = Done(s) + 1 /\ begun[s] <= completedPub
<1>1. /\ completedPub \in Nat /\ begun[s] \in Nat /\ Reads(s)
      /\ pc[s] \in SubPlaces
  BY Sides DEF RegularInv, TypeInv, PlacesOK, DataOK, ReaderInv
<1>2. /\ pc[s] \in InTransaction => pc[s] \in Asking \/ pc[s] \in Inside
      /\ pc[s] \notin InTransaction \cup {"eos", "new", "idle", "canceled"} =>
           pc[s] \in Gone
      /\ Gone = Leaving
  BY <1>1 DEF SubPlaces, Inside, InTransaction, Gone, Leaving
<1>3. CASE pc[s] \in InTransaction
  <2>1. begun[s] > 0 /\ begun[s] <= completedPub + 1
    BY <1>1, <1>2, <1>3 DEF Reads
  <2>2. pc[s] \in Inside => begun[s] <= completedPub
    BY <1>1 DEF Reads
  <2>3. Done(s) = begun[s] - 1
    BY <1>3 DEF Done
  <2> QED
    BY <1>1, <2>1, <2>2, <2>3
<1>4. CASE pc[s] \notin InTransaction /\ WasTold(s)
  <2>1. begun[s] = completedPub + 1 /\ Done(s) = begun[s] - 1
    BY <1>1, <1>2, <1>4 DEF Done, WasTold, Reads
  <2> QED
    BY <1>1, <1>4, <2>1 DEF Inside
<1>5. CASE pc[s] \notin InTransaction /\ ~WasTold(s)
  <2>1. begun[s] <= completedPub
    BY <1>1, <1>2, <1>5 DEF WasTold, Reads
  <2> QED
    BY <1>1, <1>5, <2>1 DEF Done, Inside
<1> QED
  BY <1>3, <1>4, <1>5

\* Where a publisher has put the block of a transaction that is not completed.
HasBlock == {"put", "endBarrier", "commit"}

LEMMA SameRecords ==
  ASSUME UNCHANGED completedPub,
         \A q \in Pubs, at \in HasBlock : pc'[q] = at <=> pc[q] = at
  PROVE  \A t, q : q \in Pubs => (Recorded(t, q)' <=> Recorded(t, q))
<1>1. Committing' <=> Committing
  BY DEF Committing, HasBlock
<1>2. \A q \in Pubs : HasPut(q)' <=> HasPut(q)
  BY <1>1 DEF HasPut, HasBlock
<1> QED
  BY <1>2 DEF Recorded

\* Other steps of publishers than a put, the end and the completion of a
\* transaction happen before the put, or when nobody is past it.
LEMMA OtherRecords ==
  ASSUME RegularInv, NEW p \in Pubs, PubStep(p), ~Put(p), ~EndPub(p), ~Commit(p)
  PROVE  /\ UNCHANGED completedPub
         /\ \A q \in Pubs, at \in HasBlock : pc'[q] = at <=> pc[q] = at
<1>0. /\ p \in Actors /\ completedPub \in Nat
      /\ \A q \in Pubs : q \in Actors /\ begun[q] \in Nat
  BY Sides DEF RegularInv, TypeInv, DataOK
<1>1. UNCHANGED completedPub
  BY DEF PubStep, Open, BeginPub, LockToFlush, RecheckFlush, ClosePub, LockToClose,
         CloseLastPub, pubSide
<1>2. ASSUME NEW to, to \notin HasBlock, pc[p] \notin HasBlock, pc' = Goto(p, to)
      PROVE  \A q \in Pubs, at \in HasBlock : pc'[q] = at <=> pc[q] = at
  <2>1. \A q \in Pubs : pc'[q] = IF q = p THEN to ELSE pc[q]
    BY <1>0, <1>2 DEF Goto, RegularInv, TypeInv, PlacesOK
  <2> QED
    BY <1>2, <2>1
<1>3. CASE Open(p) \/ LockToFlush(p) \/ LockToClose(p)
  <2>1. /\ pc[p] \notin HasBlock
        /\ \E to : to \notin HasBlock /\ pc' = Goto(p, to)
    BY <1>3 DEF Open, LockToFlush, LockToClose, HasBlock
  <2> QED
    BY <1>1, <1>2, <2>1
<1>4. CASE BeginPub(p) \/ RecheckFlush(p)
  <2>1. pc[p] \notin HasBlock
    BY <1>4 DEF BeginPub, Begins, RecheckFlush, HasBlock
  <2>2. \E to \in {"canceled", "flushLock", "tx"} : pc' = Goto(p, to)
    BY <1>4 DEF BeginPub, RecheckFlush, Flush
  <2> QED
    BY <1>1, <1>2, <2>1, <2>2 DEF HasBlock
<1>5. CASE CloseLastPub(p)
  <2>1. pc[p] = "closeLast" /\ pc' = Notify(Goto(p, "closed"), {"cvCompleted"})
    BY <1>5 DEF CloseLastPub, EndWakes
  <2>2. \A q \in Pubs : Goto(p, "closed")[q] = IF q = p THEN "closed" ELSE pc[q]
    BY <1>0 DEF Goto, RegularInv, TypeInv, PlacesOK
  <2>3. \A q \in Pubs : pc'[q] = IF q = p THEN "closed" ELSE pc[q]
    BY <1>0, <2>1, <2>2 DEF Notify, RegularInv, TypeInv, PlacesOK, PubPlaces
  <2> QED
    BY <1>1, <2>1, <2>3 DEF HasBlock
<1>6. CASE ClosePub(p)
  <2>1. /\ pc[p] \in {"idle", "closing"} /\ begun[p] = plan[p] /\ begun[p] = Round
    BY <1>6
    DEF ClosePub, Closes, RegularInv, RoundInv, Rounds, InStep, Departing, TypeInv,
        PlacesOK, PubPlaces
  <2>2. \A q \in Pubs : pc[q] # "endBarrier"
    <3> SUFFICES ASSUME NEW q \in Pubs, pc[q] = "endBarrier" PROVE FALSE
      OBVIOUS
    <3>1. begun[q] = completedPub + 1 /\ ~Committing
      BY DEF RegularInv, RoundInv, Rounds, InStep, InRound
    <3>2. begun[q] <= plan[q] /\ plan[q] = plan[p]
      BY DEF RegularInv, RoundInv, Quotas
    <3>3. Round = completedPub
      BY <3>1 DEF Round
    <3>4. plan[q] = completedPub
      BY <2>1, <3>2, <3>3
    <3>5. completedPub + 1 <= completedPub
      BY <3>1, <3>2, <3>4
    <3> QED
      BY <1>0, <3>5
  <2>3. \/ pc' = Goto(p, "closeLock")
        \/ pc' = Goto(p, "closed")
        \/ Arrive(p, Pubs, pubBarrier, "closeBarrier", "closeLast")
    BY <1>6 DEF ClosePub, LeavePub, ArriveToClose
  <2>4. CASE \E to \in {"closeLock", "closed", "closeBarrier"} : pc' = Goto(p, to)
    BY <1>1, <1>2, <2>1, <2>4 DEF HasBlock
  <2>5. CASE pc' = [b \in Actors |->
                      IF b = p THEN "closeLast"
                      ELSE IF b \in {c \in Pubs : pc[c] \in AtBarrier}
                           THEN Resumed(pc[b]) ELSE pc[b]]
    <3>1. \A q \in Pubs : \/ q = p /\ pc'[q] = "closeLast"
                          \/ pc'[q] = pc[q] /\ q # p
                          \/ pc[q] = "closeBarrier" /\ pc'[q] = "closed"
      BY <1>0, <2>2, <2>5 DEF AtBarrier, Resumed
    <3> QED
      BY <1>1, <2>1, <3>1 DEF HasBlock
  <2> QED
    BY <2>3, <2>4, <2>5 DEF Arrive
<1> QED
  BY <1>1, <1>3, <1>4, <1>5, <1>6 DEF PubStep

\* A put records the block of its publisher in the open transaction, and no
\* other step of publishers changes what is recorded.
LEMMA PubRecords ==
  ASSUME Regular, RegularInv, NEW p \in Pubs, PubStep(p)
  PROVE  /\ ~Put(p) => \A t, q : q \in Pubs => (Recorded(t, q)' <=> Recorded(t, q))
         /\ Put(p) => /\ UNCHANGED completedPub
                      /\ currentPub = completedPub + 1
                      /\ \A t, q : q \in Pubs =>
                           (Recorded(t, q)' <=>
                              Recorded(t, q) \/ (t = completedPub + 1 /\ q = p))
<1>0. /\ p \in Actors /\ completedPub \in Nat
      /\ \A q \in Pubs : q \in Actors
  BY Sides DEF RegularInv, TypeInv, DataOK
<1>1. \A to, q : q \in Pubs /\ pc' = Goto(p, to) =>
        pc'[q] = IF q = p THEN to ELSE pc[q]
  BY <1>0 DEF Goto, RegularInv, TypeInv, PlacesOK
<1>2. CASE Put(p)
  <2>1. pc[p] = "tx" /\ pc' = Goto(p, "put") /\ UNCHANGED completedPub
    BY <1>2 DEF Put, pubSide
  <2>2. ~Committing /\ currentPub = completedPub + 1
    BY <2>1 DEF RegularInv, RoundInv, Rounds, InStep, InRound, Current
  <2>3. ~Committing'
    BY <1>1, <2>1, <2>2 DEF Committing
  <2>4. \A q \in Pubs : HasPut(q)' <=> HasPut(q) \/ q = p
    BY <1>1, <2>1, <2>2, <2>3 DEF HasPut
  <2> QED
    BY <1>0, <1>2, <2>1, <2>2, <2>4 DEF Recorded, Put
<1>3. CASE EndPub(p)
  <2>1. /\ pc[p] = "put" /\ UNCHANGED completedPub
        /\ Arrive(p, Pubs, pubBarrier', "endBarrier", "commit")
    BY <1>3 DEF EndPub, pubSide
  <2>2. /\ ~Committing /\ pc[p] \in InRound
        /\ \A q \in Pubs : pc[q] # "commit" /\ pc[q] \notin Departing
    BY <2>1, NobodyLeft DEF RegularInv, RoundInv, Rounds, InStep, InRound
  <2>3. \A q \in Pubs : HasPut(q)' <=> HasPut(q)
    <3>1. CASE pc' = Goto(p, "endBarrier")
      <4>1. ~Committing'
        BY <1>1, <2>2, <3>1 DEF Committing
      <4> QED
        BY <1>1, <2>1, <2>2, <3>1, <4>1 DEF HasPut
    <3>2. CASE pc' # Goto(p, "endBarrier")
      <4> DEFINE waiting == {b \in Pubs : pc[b] \in AtBarrier}
      <4>1. /\ ~(Cardinality(waiting) + 1 < pubBarrier')
            /\ pc' = [b \in Actors |-> IF b = p THEN "commit"
                                       ELSE IF b \in waiting THEN Resumed(pc[b])
                                       ELSE pc[b]]
        BY <2>1, <3>2 DEF Arrive
      <4>2. Committing'
        BY <1>0, <4>1 DEF Committing
      <4>3. waiting = Pubs \ {p}
        <5>1. waiting \in SUBSET (Pubs \ {p})
          BY <2>1 DEF AtBarrier
        <5>2. pubBarrier' = Cardinality(Pubs)
          <6>1. Cardinality(Pubs) # 0 /\ publishers = Pubs
            BY <2>2, ActorsAssumption, FS_EmptySet, NobodyLeft DEF Regular, RegularInv
          <6> QED
            BY <1>3, <6>1 DEF EndPub, BarrierFor, RegularInv, RoundInv, Registered
        <5> QED
          BY <4>1, <5>1, <5>2, BarrierFull
      <4>4. \A q \in Pubs : q # p => pc[q] = "endBarrier"
        BY <2>2, <4>3 DEF AtBarrier, Departing
      <4> QED
        BY <2>1, <4>2, <4>4 DEF HasPut
    <3> QED
      BY <3>1, <3>2
  <2>4. ~Put(p)
    BY <2>1 DEF Put
  <2> QED
    BY <2>1, <2>3, <2>4 DEF Recorded
<1>4. CASE Commit(p)
  <2>1. /\ pc[p] = "commit" /\ completedPub' = completedPub + 1
        /\ pc' = Notify(Goto(p, "idle"), {"cvCompleted"})
    BY <1>4 DEF Commit, CommitWakes
  <2>2. Committing /\ \A q \in Pubs : pc[q] \notin InRound /\ (q # p => pc[q] # "commit")
    BY <2>1 DEF Committing, RegularInv, RoundInv, Rounds, InStep, OneLast
  <2>3. \A q \in Pubs : pc'[q] = IF q = p THEN "idle" ELSE pc[q]
    <3>1. \A q \in Pubs : Goto(p, "idle")[q] = IF q = p THEN "idle" ELSE pc[q]
      BY <1>0 DEF Goto, RegularInv, TypeInv, PlacesOK
    <3>2. \A q \in Pubs : Goto(p, "idle")[q] # "cvCompleted"
      BY <3>1 DEF RegularInv, TypeInv, PlacesOK, PubPlaces
    <3> QED
      BY <1>0, <2>1, <3>1, <3>2 DEF Notify
  <2>4. \A q \in Pubs : HasPut(q) /\ ~HasPut(q)'
    BY <2>2, <2>3 DEF HasPut, Committing, InRound
  <2>5. ~Put(p)
    BY <2>1 DEF Put
  <2> QED
    BY <1>0, <2>1, <2>4, <2>5 DEF Recorded
<1> QED
  BY <1>2, <1>3, <1>4, OtherRecords, SameRecords

LEMMA PubKeepsMeta ==
  ASSUME Regular, RegularInv, ReaderInv, NEW s, Subs = {s}, MetaInv(s),
         NEW p \in Pubs, PubStep(p)
  PROVE  MetaInv(s)'
<1>0. /\ Done(s) \in Nat /\ Done(s) <= completedPub /\ completedPub \in Nat
      /\ p \in Actors
  BY DoneIs, Sides
<1>1. /\ Done(s)' = Done(s) /\ begun'[s] = begun[s]
      /\ pc'[s] \in {"new"} \cup Gone <=> pc[s] \in {"new"} \cup Gone
      /\ pc'[s] = "evict" <=> pc[s] = "evict"
  BY PubLeavesReader DEF Done
<1>2. InMemory(s)'
  <2>1. CASE Put(p)
    <3>1. /\ blocks' = blocks \cup {<<completedPub + 1, p>>}
          /\ infos' = infos \cup {completedPub + 1}
      BY <2>1, PubRecords DEF Put, AddTransaction
    <3>2. \A t, q : q \in Pubs =>
            (Recorded(t, q)' <=> Recorded(t, q) \/ (t = completedPub + 1 /\ q = p))
      BY <2>1, PubRecords
    <3>3. infos' = {t \in Nat : t > Done(s) /\ \E q \in Pubs : Recorded(t, q)'}
      BY <1>0, <3>1, <3>2 DEF MetaInv, InMemory
    <3>4. blocks' = {b \in Nat \X Pubs : b[1] > Done(s) /\ Recorded(b[1], b[2])'}
      BY <1>0, <3>1, <3>2 DEF MetaInv, InMemory
    <3> QED
      BY <1>1, <3>3, <3>4 DEF InMemory
  <2>2. CASE ~Put(p)
    <3>1. UNCHANGED <<blocks, infos>>
      BY <2>2
      DEF PubStep, Open, BeginPub, LockToFlush, RecheckFlush, EndPub, Commit,
          ClosePub, LockToClose, CloseLastPub, ExportMetadata, metadata
    <3>2. \A t, q : q \in Pubs => (Recorded(t, q)' <=> Recorded(t, q))
      BY <2>2, PubRecords
    <3>3. infos' = {t \in Nat : t > Done(s) /\ \E q \in Pubs : Recorded(t, q)'}
      BY <3>1, <3>2 DEF MetaInv, InMemory
    <3>4. blocks' = {b \in Nat \X Pubs : b[1] > Done(s) /\ Recorded(b[1], b[2])'}
      BY <3>1, <3>2 DEF MetaInv, InMemory
    <3> QED
      BY <1>1, <3>3, <3>4 DEF InMemory
  <2> QED
    BY <2>1, <2>2
<1>3. Progress(s)'
  <2>1. UNCHANGED flushed
    BY DEF PubStep, Open, BeginPub, LockToFlush, RecheckFlush, Put, EndPub, Commit,
           ClosePub, LockToClose, CloseLastPub, ExportMetadata, metadata
  <2>2. CASE CloseLastPub(p)
    <3>1. /\ exported' = Listing /\ UNCHANGED completedPub
          /\ pubStreamEnded' = TRUE /\ pc[p] = "closeLast"
      BY <2>2 DEF CloseLastPub, ExportMetadata, pubSide
    <3>2. \A q \in Pubs : q # p => pc[q] = "closed"
      BY <3>1 DEF RegularInv, RoundInv, OneLast
    <3>3. \A q \in Pubs : ~HasPut(q)
      BY <3>1, <3>2 DEF HasPut, Committing
    <3>4. infos = {t \in Nat : t > Done(s) /\ t \in 1..completedPub}
      BY <3>3 DEF MetaInv, InMemory, Recorded
    <3>5. ~pubStreamEnded
      BY <3>1 DEF RegularInv, RoundInv, Ending
    <3>6. {flushed[i] : i \in 1..Len(flushed)} = 1..Done(s)
      BY <1>0, <3>5 DEF MetaInv, Progress
    <3>7. Listing = 1..completedPub
      <4>1. Listing = (1..Done(s)) \cup infos
        BY <3>6 DEF Listing
      <4>2. \A t : t \in Listing <=> t \in 1..completedPub
        BY <1>0, <3>4, <4>1
      <4> QED
        BY <4>2
    <3> QED
      BY <1>1, <2>1, <3>1, <3>7 DEF MetaInv, Progress
  <2>3. CASE ~CloseLastPub(p)
    <3>1. UNCHANGED <<exported, pubStreamEnded>>
      BY <2>3
      DEF PubStep, Open, BeginPub, LockToFlush, RecheckFlush, Put, EndPub, Commit,
          ClosePub, LockToClose, metadata, status
    <3>2. pubStreamEnded => UNCHANGED completedPub
      <4>1. pubStreamEnded => ~Commit(p)
        BY DEF RegularInv, RoundInv, Ending, Commit
      <4> QED
        BY <2>3, <4>1
        DEF PubStep, Open, BeginPub, LockToFlush, RecheckFlush, Put, EndPub,
            ClosePub, LockToClose, pubSide
    <3> QED
      BY <1>1, <2>1, <3>1, <3>2 DEF MetaInv, Progress
  <2> QED
    BY <2>2, <2>3
<1>4. Alone(s)'
  <2>1. UNCHANGED <<subsCompleted, evicting, subscribers>>
    BY Sides
    DEF PubStep, Open, BeginPub, LockToFlush, RecheckFlush, Put, EndPub, Commit,
        ClosePub, LeavePub, LockToClose, CloseLastPub, subSide, registry
  <2>2. pubEverPresent'
    <3>1. CASE Open(p)
      BY <3>1 DEF Open
    <3>2. CASE ~Open(p)
      <4>1. UNCHANGED pubEverPresent
        BY <3>2
        DEF PubStep, BeginPub, LockToFlush, RecheckFlush, Put, EndPub, Commit,
            ClosePub, LeavePub, LockToClose, CloseLastPub, registry
      <4>2. pc[p] # "new"
        BY <3>2
        DEF PubStep, BeginPub, Begins, LockToFlush, RecheckFlush, Put, EndPub,
            Commit, ClosePub, Closes, LockToClose, CloseLastPub
      <4> QED
        BY <4>1, <4>2 DEF MetaInv, Alone
    <3> QED
      BY <3>1, <3>2
  <2> QED
    BY <1>1, <2>1, <2>2 DEF MetaInv, Alone
<1> QED
  BY <1>2, <1>3, <1>4 DEF MetaInv

\* Who leaves the metadata and what is recorded alone keeps the invariant, when
\* the subscriber finishes nothing.
LEMMA SameMemory ==
  ASSUME NEW s, MetaInv(s), Done(s)' = Done(s),
         \A q \in Pubs, at \in HasBlock : pc'[q] = at <=> pc[q] = at,
         UNCHANGED <<blocks, infos, flushed, exported, completedPub, pubStreamEnded>>
  PROVE  InMemory(s)' /\ Progress(s)'
<1>1. \A t, q : q \in Pubs => (Recorded(t, q)' <=> Recorded(t, q))
  BY SameRecords
<1>2. infos' = {t \in Nat : t > Done(s) /\ \E q \in Pubs : Recorded(t, q)'}
  BY <1>1 DEF MetaInv, InMemory
<1>3. blocks' = {b \in Nat \X Pubs : b[1] > Done(s) /\ Recorded(b[1], b[2])'}
  BY <1>1 DEF MetaInv, InMemory
<1>4. InMemory(s)'
  BY <1>2, <1>3 DEF InMemory
<1>5. Progress(s)'
  BY DEF MetaInv, Progress
<1> QED
  BY <1>4, <1>5

\* Inside a transaction, the metadata has an entry for it.
LEMMA KnowsItsTransaction ==
  ASSUME Regular, RegularInv, ReaderInv, NEW s, Subs = {s}, MetaInv(s),
         pc[s] \in Inside
  PROVE  begun[s] \in infos /\ pubEverPresent
<1>1. /\ Done(s) \in Nat /\ completedPub \in Nat
      /\ begun[s] = Done(s) + 1 /\ begun[s] <= completedPub
  BY DoneIs
<1>2. PICK p \in Pubs : TRUE
  BY DEF Regular
<1>3. Recorded(begun[s], p)
  BY <1>1 DEF Recorded
<1>4. begun[s] \in infos
  BY <1>1, <1>3 DEF MetaInv, InMemory
<1>5. pc[p] # "new"
  BY <1>1 DEF RegularInv, RoundInv, Rounds, InStep
<1> QED
  BY <1>4, <1>5 DEF MetaInv, Alone

\* The subscriber looks up a transaction that the metadata knows.
LEMMA LastTxKnown ==
  ASSUME RegularInv, infos # {}
  PROVE  LastTx \in infos
<1>1. currentPub \in Nat /\ infos \in SUBSET (0..currentPub)
  BY DEF RegularInv, TypeInv, DataOK
<1>2. \E t \in infos : \A u \in infos : u <= t
  BY <1>1, Greatest
<1> QED
  BY <1>2 DEF LastTx

\* When its reads are over it counts itself, alone, and so decides to evict the
\* transaction that it is in.
LEMMA CountReadKeepsMeta ==
  ASSUME Regular, RegularInv, ReaderInv, NEW s, Subs = {s}, MetaInv(s), CountRead(s)
  PROVE  MetaInv(s)'
<1>0. /\ s \in Subs /\ s \in Actors /\ evicting \in [Subs -> Nat]
      /\ \A p \in Pubs : pc'[p] = pc[p]
      /\ UNCHANGED <<completedPub, pubStreamEnded>>
  BY Sides, SubLeavesPubs DEF RegularInv, TypeInv, DataOK, SubStep
<1>1. pc[s] = "count" /\ pc[s] \in InTransaction /\ currentSub = begun[s]
  BY <1>0 DEF CountRead, InTransaction, ReaderInv, Reads
<1>2. subscribers = {s} /\ Cardinality(subscribers) = 1 /\ subsCompleted = 0
  BY <1>1, FS_Singleton DEF MetaInv, Alone, Gone
<1>3. /\ pc'[s] = "evict" /\ subsCompleted' = 0 /\ evicting'[s] = begun[s]
      /\ UNCHANGED <<begun, metadata, registry>>
  BY <1>0, <1>1, <1>2
  DEF CountRead, TxToEvict, Goto, RegularInv, TypeInv, PlacesOK, client
<1>4. Done(s)' = Done(s)
  BY <1>1, <1>3 DEF Done, InTransaction
<1>5. InMemory(s)' /\ Progress(s)'
  BY <1>0, <1>3, <1>4, SameMemory DEF metadata
<1>6. Alone(s)'
  BY <1>0, <1>1, <1>2, <1>3 DEF MetaInv, Alone, Gone, registry
<1> QED
  BY <1>5, <1>6 DEF MetaInv

\* It finishes its transaction: the metadata goes to the progress file.
LEMMA EvictReadKeepsMeta ==
  ASSUME Regular, RegularInv, ReaderInv, NEW s, Subs = {s}, MetaInv(s), EvictRead(s)
  PROVE  MetaInv(s)'
<1>0. /\ s \in Subs /\ s \in Actors /\ completedPub \in Nat /\ Done(s) \in Nat
      /\ flushed \in Seq(Nat) /\ evicting \in [Subs -> Nat]
      /\ \A p \in Pubs : pc'[p] = pc[p]
      /\ UNCHANGED <<completedPub, pubStreamEnded>>
  BY Sides, DoneIs, SubLeavesPubs DEF RegularInv, TypeInv, DataOK, SubStep
<1>1. pc[s] = "evict" /\ pc[s] \in Inside
  BY DEF EvictRead, Inside, InTransaction, Asking
<1>2. /\ begun[s] = Done(s) + 1 /\ begun[s] <= completedPub
      /\ begun[s] \in infos /\ pubEverPresent
  BY <1>0, <1>1, DoneIs, KnowsItsTransaction
<1>4. subscribers = {s} /\ subsCompleted = 0 /\ evicting[s] = begun[s]
  BY <1>1 DEF MetaInv, Alone, Gone
<1>5. /\ pc' = Goto(s, "idle")
      /\ UNCHANGED <<begun, subscribers, pubEverPresent, subsCompleted>>
  BY DEF EvictRead, client, registry
<1>6. Evict(begun[s]) /\ evicting'[s] = 0
  BY <1>0, <1>2, <1>4 DEF EvictRead
<1>7. pc'[s] = "idle"
  BY <1>0, <1>5 DEF Goto, RegularInv, TypeInv, PlacesOK
<1>8. Done(s)' = Done(s) + 1
  BY <1>2, <1>5, <1>7 DEF Done, InTransaction, WasTold, Leaving
<1>9. \A t, q : q \in Pubs => (Recorded(t, q)' <=> Recorded(t, q))
  BY <1>0, SameRecords
<1>10. InMemory(s)'
  <2>1. infos' = {t \in Nat : t > Done(s) + 1 /\ \E q \in Pubs : Recorded(t, q)'}
    BY <1>0, <1>2, <1>6, <1>9 DEF Evict, MetaInv, InMemory
  <2>2. blocks' = {b \in Nat \X Pubs : b[1] > Done(s) + 1 /\ Recorded(b[1], b[2])'}
    BY <1>0, <1>2, <1>6, <1>9 DEF Evict, MetaInv, InMemory
  <2> QED
    BY <1>8, <2>1, <2>2 DEF InMemory
<1>11. Progress(s)'
  <2>1. exported' = exported /\ flushed' = Flushed(begun[s])
    BY <1>6 DEF Evict
  <2>2. CASE pubStreamEnded
    <3>1. flushed' = flushed
      BY <2>1, <2>2 DEF Flushed
    <3> QED
      BY <1>0, <1>8, <2>1, <2>2, <3>1 DEF MetaInv, Progress
  <2>3. CASE ~pubStreamEnded
    <3>1. flushed' = Append(flushed, Done(s) + 1)
      BY <1>2, <2>1, <2>3 DEF Flushed
    <3>2. Len(flushed) = Done(s) /\ \A i \in 1..Len(flushed) : flushed[i] = i
      BY <2>3 DEF MetaInv, Progress
    <3>3. /\ Len(flushed') = Done(s) + 1
          /\ \A i \in 1..Len(flushed') : flushed'[i] = i
      BY <1>0, <3>1, <3>2
    <3> QED
      BY <1>0, <1>8, <2>3, <3>3 DEF Progress
  <2> QED
    BY <2>2, <2>3
<1>12. Alone(s)'
  BY <1>0, <1>2, <1>4, <1>5, <1>6, <1>7 DEF Alone, Gone
<1> QED
  BY <1>10, <1>11, <1>12 DEF MetaInv

LEMMA SubKeepsMeta ==
  ASSUME Regular, RegularInv, ReaderInv, NEW s, Subs = {s}, MetaInv(s), SubStep(s)
  PROVE  MetaInv(s)'
<1>0. /\ s \in Subs /\ s \in Actors /\ s \notin Pubs /\ completedPub \in Nat
      /\ begun \in [Actors -> Nat] /\ \A p \in Pubs : pc'[p] = pc[p]
      /\ UNCHANGED <<completedPub, pubStreamEnded>>
  BY Sides, SubLeavesPubs DEF RegularInv, TypeInv, DataOK
<1>1. Reads(s) /\ \A to : pc' = Goto(s, to) => pc'[s] = to
  BY <1>0 DEF ReaderInv, Goto, RegularInv, TypeInv, PlacesOK
<1>2. ~Canceled(currentSub + 1) /\ (pc[s] \in InTransaction => ~Canceled(currentSub))
  BY <1>0, <1>1 DEF Reads, Canceled, RegularInv, RoundInv, Quotas
<1>3. ASSUME ~CountRead(s), ~EvictRead(s)
      PROVE  UNCHANGED <<blocks, infos, flushed, exported, subsCompleted, evicting,
                         pubEverPresent>>
  <2>1. CASE Open(s)
    <3>1. pubEverPresent \in BOOLEAN
      BY DEF RegularInv, TypeInv, DataOK
    <3>2. pubEverPresent' = pubEverPresent
      BY <1>0, <2>1, <3>1 DEF Open
    <3> QED
      BY <2>1, <3>2 DEF Open, subSide, metadata
  <2>2. CASE \E wanted \in SUBSET Pubs : Get(s, wanted)
    <3>1. pc[s] \in Inside
      BY <2>2 DEF Get, Inside, InTransaction, Asking
    <3>2. LastTx \in infos
      BY <3>1, KnowsItsTransaction, LastTxKnown
    <3> QED
      BY <2>2, <3>2 DEF Get, registry, subSide
  <2>3. CASE BeginSub(s) \/ AwaitCompleted(s) \/ CloseSub(s) \/ CloseLastSub(s)
    BY <2>3 DEF BeginSub, AwaitCompleted, CloseSub, CloseLastSub, registry, subSide,
                metadata
  <2>4. CASE \/ EndSub(s) \/ LockToRead(s) \/ AwaitWritten(s) \/ ReadAborted(s)
             \/ ReadOver(s)
    BY <2>4 DEF EndSub, LockToRead, AwaitWritten, ReadAborted, ReadOver, registry,
                subSide, metadata
  <2> QED
    BY <1>3, <2>1, <2>2, <2>3, <2>4 DEF SubStep
<1>4. ASSUME pc[s] \notin {"count", "evict"}, pc'[s] # "evict", Done(s)' = Done(s),
             subscribers' = IF pc'[s] \in {"new"} \cup Gone THEN {} ELSE {s}
      PROVE  MetaInv(s)'
  <2>0. ~CountRead(s) /\ ~EvictRead(s)
    BY <1>4 DEF CountRead, EvictRead
  <2>1. InMemory(s)' /\ Progress(s)'
    BY <1>0, <1>3, <1>4, <2>0, SameMemory
  <2>2. Alone(s)'
    BY <1>0, <1>3, <1>4, <2>0 DEF MetaInv, Alone
  <2> QED
    BY <2>1, <2>2 DEF MetaInv
<1>5. CASE Open(s)
  <2>1. /\ pc[s] = "new" /\ pc'[s] = "idle" /\ UNCHANGED begun
        /\ subscribers' = subscribers \cup {s}
    BY <1>0, <1>1, <1>5 DEF Open, client
  <2>2. Done(s)' = Done(s)
    BY <2>1 DEF Done, InTransaction, WasTold, Leaving
  <2>3. subscribers' = IF pc'[s] \in {"new"} \cup Gone THEN {} ELSE {s}
    BY <2>1 DEF MetaInv, Alone, Gone
  <2> QED
    BY <1>4, <2>1, <2>2, <2>3
<1>6. CASE BeginSub(s)
  <2>1. /\ pc[s] = "idle" /\ begun'[s] = begun[s] + 1 /\ UNCHANGED subscribers
        /\ pc'[s] \in {"await", "eos", "tx"}
    BY <1>0, <1>1, <1>2, <1>6 DEF BeginSub, Begins, Reads, registry
  <2>2. Done(s) = begun[s] /\ Done(s)' = begun'[s] - 1
    BY <2>1 DEF Done, InTransaction, WasTold, Leaving
  <2>3. subscribers' = IF pc'[s] \in {"new"} \cup Gone THEN {} ELSE {s}
    BY <2>1 DEF MetaInv, Alone, Gone
  <2> QED
    BY <1>0, <1>4, <2>1, <2>2, <2>3
<1>7. CASE AwaitCompleted(s)
  <2>1. /\ pc[s] = "await" /\ UNCHANGED <<begun, subscribers>>
        /\ pc'[s] \in {"tx", "eos", "cvCompleted"}
    BY <1>1, <1>2, <1>7 DEF AwaitCompleted, AwaitOutcome, InTransaction, client,
                            registry
  <2>2. Done(s)' = Done(s)
    BY <2>1 DEF Done, InTransaction, WasTold
  <2>3. subscribers' = IF pc'[s] \in {"new"} \cup Gone THEN {} ELSE {s}
    BY <2>1 DEF MetaInv, Alone, Gone
  <2> QED
    BY <1>4, <2>1, <2>2, <2>3
<1>8. CASE \/ \E wanted \in SUBSET Pubs : Get(s, wanted)
           \/ EndSub(s) \/ LockToRead(s) \/ AwaitWritten(s) \/ ReadOver(s)
  <2>1. /\ pc[s] \in {"tx", "get", "readLock", "written", "readOver"}
        /\ pc[s] \in InTransaction
    BY <1>8 DEF Get, EndSub, LockToRead, AwaitWritten, ReadOver, InTransaction
  <2>0. ReadOver(s) => pubEverPresent
    BY KnowsItsTransaction DEF ReadOver, Inside, InTransaction, Asking
  <2>2. /\ UNCHANGED <<begun, subscribers>>
        /\ pc'[s] \in {"get", "readLock", "cvWritten", "readOver", "read", "count"}
    BY <1>1, <1>2, <1>8, <2>0, <2>1
    DEF Get, EndSub, LockToRead, AwaitWritten, ReadOver, StartReads, client, registry
  <2>3. Done(s)' = Done(s)
    BY <2>1, <2>2 DEF Done, InTransaction
  <2>4. subscribers' = IF pc'[s] \in {"new"} \cup Gone THEN {} ELSE {s}
    BY <2>1, <2>2 DEF MetaInv, Alone, Gone
  <2> QED
    BY <1>4, <2>1, <2>2, <2>3, <2>4
<1>9. CASE CloseSub(s) \/ CloseLastSub(s)
  <2>1. /\ pc[s] \in {"idle", "eos", "closeLast"} /\ pc'[s] \in Gone
        /\ UNCHANGED begun
    BY <1>0, <1>1, <1>9, SubCloses DEF RegularInv
  <2>2. WasTold(s)' <=> WasTold(s)
    BY <1>0, <1>1, <2>1 DEF WasTold, Reads, Gone, Leaving
  <2>3. Done(s)' = Done(s)
    BY <2>1, <2>2 DEF Done, InTransaction, Gone
  <2>4. subscribers' = {}
    BY <1>9 DEF CloseSub, CloseLastSub, registry, MetaInv, Alone, Gone
  <2> QED
    BY <1>4, <2>1, <2>3, <2>4 DEF Gone
<1>10. ~ReadAborted(s)
  BY <1>1 DEF ReadAborted, Reads
<1> QED
  BY <1>5, <1>6, <1>7, <1>8, <1>9, <1>10, CountReadKeepsMeta, EvictReadKeepsMeta
  DEF SubStep

\* Time, and stuttering.
LEMMA PassiveKeepsMeta ==
  ASSUME RegularInv, NEW s, Subs = {s}, MetaInv(s), Drifts(s),
         \A p \in Pubs : pc'[p] = pc[p] \/ Wakes(pc[p], pc'[p]),
         UNCHANGED <<begun, completedPub, pubStreamEnded, registry, subsCompleted,
                     evicting, metadata>>
  PROVE  MetaInv(s)'
<1>0. s \in Subs /\ PlacesOK(pc)
  BY DEF RegularInv, TypeInv
<1>1. /\ pc'[s] \in InTransaction <=> pc[s] \in InTransaction
      /\ pc'[s] \in Gone <=> pc[s] \in Gone
      /\ \A place \in {"new", "idle", "eos", "canceled", "aborted", "evict"} :
           pc'[s] = place <=> pc[s] = place
  BY <1>0, SamePart
<1>2. Done(s)' = Done(s)
  BY <1>1 DEF Done, WasTold, Gone, Leaving
<1>3. \A q \in Pubs, at \in HasBlock \cup {"new"} : pc'[q] = at <=> pc[q] = at
  BY <1>0 DEF Wakes, HasBlock, PlacesOK, PubPlaces
<1>4. InMemory(s)' /\ Progress(s)'
  BY <1>2, <1>3, SameMemory DEF metadata
<1>5. Alone(s)'
  BY <1>1, <1>3 DEF MetaInv, Alone, registry
<1> QED
  BY <1>4, <1>5 DEF MetaInv

LEMMA NextMeta ==
  ASSUME Regular, RegularInv, ReaderInv, NEW s, Subs = {s}, MetaInv(s), [Next]_vars
  PROVE  MetaInv(s)'
<1>0. s \in Subs
  OBVIOUS
<1>1. CASE \E p \in Pubs : PubStep(p)
  BY <1>1, PubKeepsMeta
<1>2. CASE \E r \in Subs : SubStep(r)
  <2>1. SubStep(s)
    BY <1>2
  <2> QED
    BY <2>1, SubKeepsMeta
<1>3. CASE TimeStep
  <2>1. /\ Drifts(s) /\ UNCHANGED <<begun, completedPub, pubStreamEnded>>
        /\ \A p \in Pubs : pc'[p] = pc[p] \/ Wakes(pc[p], pc'[p])
    BY <1>0, <1>3, TimeWakes DEF RegularInv
  <2>2. UNCHANGED <<registry, subsCompleted, evicting, metadata>>
    BY <1>3 DEF TimeStep, Advance, subSide
  <2> QED
    BY <2>1, <2>2, PassiveKeepsMeta
<1>4. ~(\E tx \in 0..MaxTx : CancelTransaction(tx))
  BY DEF Regular, CancelTransaction
<1>5. CASE UNCHANGED vars
  <2>1. /\ UNCHANGED <<pc, begun, completedPub, pubStreamEnded, registry,
                       subsCompleted, evicting, metadata>>
    BY <1>5 DEF vars, client, pubSide, subSide, status
  <2> QED
    BY <2>1, PassiveKeepsMeta DEF Drifts
<1> QED
  BY <1>1, <1>2, <1>3, <1>4, <1>5 DEF Next, Terminated

LEMMA InitMeta ==
  ASSUME NEW s, Subs = {s}, Init
  PROVE  MetaInv(s)
<1>1. /\ s \in Subs /\ pc[s] = "new" /\ begun[s] = 0 /\ completedPub = 0
      /\ \A p \in Pubs : pc[p] = "new"
  BY Sides DEF Init
<1>2. Done(s) = 0
  BY <1>1 DEF Done, InTransaction, WasTold, Leaving
<1>3. \A t, p : p \in Pubs => ~Recorded(t, p)
  BY <1>1 DEF Recorded, HasPut, Committing
<1>4. InMemory(s)
  BY <1>3 DEF Init, InMemory
<1>5. Progress(s)
  BY <1>2 DEF Init, Progress
<1>6. Alone(s)
  BY <1>1 DEF Init, Alone
<1> QED
  BY <1>4, <1>5, <1>6 DEF MetaInv

LEMMA MetaInvariant ==
  ASSUME Regular, NEW s, Subs = {s}
  PROVE  Spec => [](RegularInv /\ ReaderInv /\ MetaInv(s))
<1>1. Init => ReaderInv /\ MetaInv(s)
  BY InitSimulates, InitMeta
<1>2. RegularInv /\ SubFlagNeverSticks /\ (ReaderInv /\ MetaInv(s)) /\ [Next]_vars
        => (ReaderInv /\ MetaInv(s))'
  BY NextSimulates, NextMeta
<1> QED
  BY <1>1, <1>2, RoundsInvariant, FileFlagNeverSticks, PTL DEF Spec

\* For any number of publishers and of transactions: what the publishers have
\* put of a completed transaction stays in memory until the subscriber has
\* finished that transaction.
THEOREM FileEvictedWhenRead ==
  ASSUME Regular, NEW s, Subs = {s}
  PROVE  Spec => []EvictedWhenRead
<1>1. RegularInv /\ ReaderInv /\ MetaInv(s) => EvictedWhenRead
  <2> SUFFICES ASSUME RegularInv, ReaderInv, MetaInv(s),
                      NEW t \in 1..completedPub, ~({t} \X Pubs \subseteq blocks),
                      NEW r \in Subs
               PROVE  begun[r] > t \/ (begun[r] = t /\ pc[r] \notin ReadsAhead)
    BY DEF EvictedWhenRead
  <2>1. /\ r = s /\ s \in Actors /\ Done(s) \in Nat /\ completedPub \in Nat
        /\ begun \in [Actors -> Nat]
    BY DoneIs, Sides DEF RegularInv, TypeInv, DataOK
  <2>2. t <= Done(s)
    <3>1. PICK p \in Pubs : <<t, p>> \notin blocks
      OBVIOUS
    <3>2. Recorded(t, p)
      BY DEF Recorded
    <3> QED
      BY <2>1, <3>1, <3>2 DEF MetaInv, InMemory
  <2> QED
    BY <2>1, <2>2 DEF Done, ReadsAhead
<1> QED
  BY <1>1, MetaInvariant, PTL

\* And the exported metadata lists every transaction, once and in order: what
\* was evicted before the export went to the progress file, and the rest was
\* in memory.
THEOREM FileExportComplete ==
  ASSUME Regular, NEW s, Subs = {s}
  PROVE  Spec => []ExportComplete
<1>1. RegularInv /\ ReaderInv /\ MetaInv(s) => ExportComplete
  <2> SUFFICES ASSUME RegularInv, ReaderInv, MetaInv(s)
               PROVE  ExportComplete
    OBVIOUS
  <2>1. /\ Done(s) \in Nat /\ flushed \in Seq(Nat)
        /\ Len(flushed) <= Done(s) /\ \A i \in 1..Len(flushed) : flushed[i] = i
    BY DoneIs DEF MetaInv, Progress, RegularInv, TypeInv, DataOK
  <2>2. \A t \in infos : t \in Nat /\ Done(s) < t
    BY <2>1 DEF MetaInv, InMemory
  <2>3. Len(flushed) \in Nat
    BY <2>1
  <2> QED
    BY <2>1, <2>2, <2>3 DEF ExportComplete, MetaInv, Progress
<1> QED
  BY <1>1, MetaInvariant, PTL
=============================================================================
