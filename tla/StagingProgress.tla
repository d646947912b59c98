--------------------------- MODULE StagingProgress ---------------------------
(***************************************************************************)
(* Nobody is stuck: for clients that are Gathered and Prompt, when nobody  *)
(* cancels, and for any number of actors, a Staging engine has no          *)
(* deadlock.  Actors wait for each other in seven ways (three condition    *)
(* variables, a mutex, three barriers), for put requests and for           *)
(* communications; the invariant below says of each of these why somebody  *)
(* is left who ends the wait.                                              *)
(***************************************************************************)
EXTENDS StagingRounds

-----------------------------------------------------------------------------
(* The invariant                                                            *)

\* Where an actor has left for good, or is about to.
Ended == {"closeLast", "closed"}

\* Neither side is blocked at its barrier as a whole: the last one to arrive
\* goes on.
NotAllWait == /\ \E p \in Pubs : pc[p] \notin AtBarrier
              /\ \E s \in Subs : pc[s] \notin AtBarrier

\* A side closes together, and the last publisher ends the stream.
ClosedTogether ==
  /\ (\E p \in Pubs : pc[p] \in Ended) => \A p \in Pubs : pc[p] \in Ended
  /\ (\E s \in Subs : pc[s] \in Ended) => \A s \in Subs : pc[s] \in Ended
  /\ (\A p \in Pubs : pc[p] = "closed") => pubStreamEnded

\* The stream is not closed before everybody has opened it.
StillOpen == streamOpen \/ currentPub > 0

\* A subscriber that has been at a barrier, in this transaction or an earlier
\* one, has made it.
HasMet(s) == \/ begun[s] > 1
             \/ /\ begun[s] > 0
                /\ pc[s] \notin First \cup Awaiting \cup {"tx", "get", "eos"}
SubSized == \A s \in Subs : HasMet(s) => subBarrier # 0

\* A subscriber that a sleeping publisher waits for.
Missing(p, s) == begun[s] < begun[p] \/ pc[s] \in First

\* What is asked for is received before its subscriber goes on.
AskedWithin == \A x \in Pairs : pc[x[2]] \notin Got => gets[x] = 0

\* A reception that has no put yet is a message, the only one of its kind, in
\* the queue of the publisher that has to put.
Wanting(p, s, i) == requests[p][i] = [from |-> s, wants |-> TRUE]
Asks(p, s) == \E i \in 1..Len(requests[p]) : Wanting(p, s, i)
AsksOnce(p, s) ==
  \A i, j \in 1..Len(requests[p]) : Wanting(p, s, i) /\ Wanting(p, s, j) => i = j
MatchedAt(p, s) ==
  /\ gets[<<p, s>>] <= 1
  /\ gets[<<p, s>>] = IF Asks(p, s) THEN puts[<<p, s>>] + 1 ELSE puts[<<p, s>>]
  /\ AsksOnce(p, s)
Matched == \A p \in Pubs, s \in Subs : MatchedAt(p, s)

LiveInv == /\ NotAllWait /\ ClosedTogether /\ StillOpen /\ SubSized
           /\ PublishersSleepForAReason /\ AskedWithin /\ Matched

\* What other modules prove of every state, and this one builds on.
Known == /\ RegularInv /\ MutexHolderFlushes /\ SubscribersSleepForAReason
         /\ StartingBalanced /\ EndInv

-----------------------------------------------------------------------------
(* Where the invariant holds, somebody can move until everybody has closed  *)

\* Nobody is between two transactions of a state in which nobody can move.
LEMMA StuckInside ==
  ASSUME Regular, Known, LiveInv,
         \A p \in Pubs : ~PubMayStep(p), \A s \in Subs : ~SubMayStep(s)
  PROVE  /\ currentPub > 0
         /\ \A p \in Pubs : Turn(p) /\ pc[p] \notin Returning \cup {"new"}
         /\ \A s \in Subs : Turn(s) /\ pc[s] \notin Returning \cup {"new"}
<1>0. /\ TypeOK /\ RoundInv /\ currentPub \in Nat
      /\ \A p \in Pubs : begun[p] \in Nat /\ plan[p] \in Nat /\ begun[p] <= plan[p]
                         /\ plan[p] > 0
      /\ \A s \in Subs : begun[s] <= plan[s]
  BY PubsAndSubs DEF Known, RegularInv, TypeOK, RoundInv, MeetInv, Quotas, Regular
<1>1. ASSUME NEW s \in Subs
      PROVE  pc[s] \notin Returning
  BY <1>0, <1>1 DEF SubMayStep, Turn, Returning
<1>2. \A s \in Subs : Turn(s)
  BY <1>1, PubsAndSubs DEF Turn, Side
<1>3. ASSUME NEW p \in Pubs
      PROVE  pc[p] # "clearFlag" /\ pc[p] # "release"
  <2>1. pc[p] # "clearFlag"
    BY <1>3 DEF PubMayStep, Turn, Returning
  <2> QED
    BY <1>0, <2>1 DEF TypeOK, PlacesOK, PubPlaces
<1>4. currentPub # 0
  <2> SUFFICES ASSUME currentPub = 0
               PROVE  FALSE
    OBVIOUS
  <2>1. /\ \A p \in Pubs : pc[p] \in {"new", "idle"}
        /\ \A s \in Subs : pc[s] \in {"new", "idle", "first", "cvFirst"}
    BY <1>0 DEF RoundInv, MeetInv, Opened
  <2>2. streamOpen
    BY DEF LiveInv, StillOpen
  <2>3. \A p \in Pubs : pc[p] = "idle"
    BY <2>1, <2>2 DEF PubMayStep, Turn
  <2>4. \A s \in Subs : pc[s] = "cvFirst"
    BY <1>1, <1>2, <2>1, <2>2 DEF SubMayStep, Returning
  <2>5. publishers = Pubs
    BY <1>0, <2>3 DEF RoundInv, PubInv, PubRegistered, Gone
  <2>6. \A p \in Pubs : begun[p] < plan[p]
    <3>1. completedPub = 0 /\ Round = completedPub
      BY <1>0, <2>3, <2>4, NothingYet DEF Round, Committing, Regular
    <3> QED
      BY <1>0, <2>3, <3>1 DEF RoundInv, PubInv, PubRounds, InStep
  <2>7. PICK p \in Pubs : TRUE
    BY DEF Regular
  <2> QED
    BY <2>3, <2>4, <2>5, <2>6, <2>7 DEF PubMayStep, Turn, Returning
<1>5. ASSUME NEW p \in Pubs
      PROVE  pc[p] \notin Returning
  <2>1. pc[p] # "idle"
    <3>1. pc[p] = "idle" => begun[p] < plan[p] \/ begun[p] = plan[p]
      BY <1>0
    <3> QED
      BY <1>4, <3>1 DEF PubMayStep, Turn, Returning
  <2> QED
    BY <1>3, <2>1 DEF Returning
<1>6. \A p \in Pubs : Turn(p)
  BY <1>5 DEF Turn, Side
<1>7. \A a \in Actors : pc[a] # "new"
  BY <1>0, <1>4 DEF RoundInv, MeetInv, Opened
<1> QED
  BY <1>0, <1>1, <1>2, <1>4, <1>5, <1>6, <1>7, PubsAndSubs

\* Nor does anybody wait for data that has not been put or asked for.
LEMMA StuckArrived ==
  ASSUME Regular, Known, LiveInv, currentPub > 0, \A p \in Pubs : Turn(p),
         \A p \in Pubs : ~PubMayStep(p), \A x \in Pairs : ~InFlight(x)
  PROVE  AllOver(puts) /\ AllOver(gets)
<1>0. TypeOK /\ RoundInv
  BY DEF Known, RegularInv
<1>1. ASSUME NEW p \in Pubs, NEW s \in Subs
      PROVE  puts[<<p, s>>] = 0 /\ gets[<<p, s>>] = 0
  <2> DEFINE x == <<p, s>>
  <2>1. x \in Pairs /\ puts[x] \in Nat /\ gets[x] \in Nat /\ ~InFlight(x)
        /\ requests[p] \in Seq(Request)
    BY <1>0 DEF Pairs, TypeOK
  <2>2. gets[x] = IF Asks(p, s) THEN puts[x] + 1 ELSE puts[x]
    BY DEF LiveInv, Matched, MatchedAt
  <2>3. ~Asks(p, s)
    <3> SUFFICES ASSUME Asks(p, s)
                 PROVE  FALSE
      OBVIOUS
    <3>1. requests[p] # <<>>
      BY <2>1 DEF Asks
    <3>2. pc[p] = "serve"
      BY <1>0, <3>1 DEF RoundInv, MeetInv, Balance, Published
    <3> QED
      BY <3>1, <3>2 DEF PubMayStep
  <2> QED
    BY <2>1, <2>2, <2>3 DEF InFlight
<1> QED
  BY <1>1 DEF AllOver, Pairs

\* Who is left waits for somebody else.
LEMMA StuckPlaces ==
  ASSUME Regular, Known, LiveInv,
         \A p \in Pubs : ~PubMayStep(p), \A s \in Subs : ~SubMayStep(s),
         \A x \in Pairs : ~InFlight(x)
  PROVE  /\ \A p \in Pubs : pc[p] \in {"cvStarted", "serve", "closed"} \cup AtBarrier
         /\ \A s \in Subs : pc[s] \in {"cvCompleted", "closed"} \cup AtBarrier
         /\ \A p \in Pubs : pc[p] = "serve" => Owing # {}
<1>0. /\ TypeOK /\ RoundInv /\ currentPub > 0 /\ AllOver(puts) /\ AllOver(gets)
      /\ \A p \in Pubs : Turn(p) /\ pc[p] \notin Returning \cup {"new"}
      /\ \A s \in Subs : Turn(s) /\ pc[s] \notin Returning \cup {"new"}
  BY StuckInside, StuckArrived DEF Known, RegularInv
<1>1. \A p \in Pubs : pc[p] # "flush"
  BY <1>0 DEF PubMayStep, PreviousOver
<1>2. pubMutex = Free
  BY <1>0, <1>1 DEF Known, MutexHolderFlushes, TypeOK
<1>3. ASSUME NEW p \in Pubs
      PROVE  pc[p] \in {"cvStarted", "serve", "closed"} \cup AtBarrier
  <2>1. pc[p] \in PubPlaces /\ pc[p] \notin {"canceled", "crashed"}
    BY <1>0 DEF TypeOK, PlacesOK, RoundInv, PubInv, PubRounds, InStep
  <2>2. pc[p] \notin {"lock", "recheck", "closeFlush", "tx", "put", "commit",
                      "clearFlag", "closeLast"}
    BY <1>0, <1>2 DEF PubMayStep, PubCloseOver
  <2> QED
    BY <1>0, <1>1, <2>1, <2>2 DEF PubPlaces, AtBarrier, Returning
<1>4. ASSUME NEW s \in Subs
      PROVE  pc[s] \in {"cvCompleted", "closed"} \cup AtBarrier
  <2>1. pc[s] \in SubPlaces /\ pc[s] \notin {"canceled", "crashed"}
    BY <1>0 DEF TypeOK, PlacesOK, RoundInv, SubInv, SubRounds, KeepsPace
  <2>2. pc[s] # "cvFirst"
    BY <1>0 DEF Known, SubscribersSleepForAReason, TypeOK
  <2>3. pc[s] \notin {"collect", "closeFlush", "first", "start", "await", "tx",
                      "get", "over", "eos", "closeLast"}
    BY <1>0 DEF SubMayStep, ReceptionsOver
  <2> QED
    BY <1>0, <2>1, <2>2, <2>3 DEF SubPlaces, AtBarrier, Returning
<1>5. ASSUME NEW p \in Pubs, pc[p] = "serve"
      PROVE  Owing # {}
  <2>1. pending[p] # 0 /\ requests[p] = <<>>
    BY <1>0, <1>5 DEF PubMayStep
  <2>2. ~Committing
    BY <1>3 DEF Committing, AtBarrier
  <2>3. pending[p] = Len(requests[p]) + Cardinality(Owing)
    BY <1>0, <1>5, <2>2 DEF RoundInv, MeetInv, Balance
  <2>4. Cardinality({}) = 0
    BY FS_EmptySet
  <2>5. Len(requests[p]) = 0
    BY <2>1
  <2>6. Owing = {} => pending[p] = 0
    BY <2>3, <2>4, <2>5
  <2> QED
    BY <2>1, <2>6
<1> QED
  BY <1>3, <1>4, <1>5

\* If nobody could move, both sides would wait for each other's round; but the
\* rounds are at most one apart, so that one of them has what it waits for.
LEMMA NobodyWaitsInVain ==
  ASSUME Regular, Known, LiveInv
  PROVE  NeverStuck
<1> SUFFICES ASSUME \A p \in Pubs : ~PubMayStep(p), \A s \in Subs : ~SubMayStep(s),
                    \A x \in Pairs : ~InFlight(x)
             PROVE  AllClosed
  BY DEF NeverStuck
<1>0. TypeOK /\ RoundInv
  BY DEF Known, RegularInv
<1>1. /\ \A p \in Pubs : pc[p] \in {"cvStarted", "serve", "closed"} \cup AtBarrier
      /\ \A s \in Subs : pc[s] \in {"cvCompleted", "closed"} \cup AtBarrier
      /\ \A p \in Pubs : pc[p] = "serve" => Owing # {}
  BY StuckPlaces
<1>2. /\ Received \in Nat /\ completedPub \in Nat
      /\ \A p \in Pubs : begun[p] \in Nat /\ begun[p] <= plan[p]
      /\ \A s \in Subs : begun[s] \in Nat
  BY <1>0, Bounds, PubsAndSubs DEF TypeOK, RoundInv, MeetInv, Quotas
<1>3. PICK q \in Pubs : pc[q] \notin AtBarrier
  BY DEF LiveInv, NotAllWait
<1>4. PICK r \in Subs : pc[r] \notin AtBarrier
  BY DEF LiveInv, NotAllWait
<1>5. pc[q] \in {"cvStarted", "serve", "closed"} /\ pc[r] \in {"cvCompleted", "closed"}
  BY <1>1, <1>3, <1>4
<1>6. completedPub = Received
  <2>1. CASE pc[r] = "closed"
    BY <1>0, <2>1 DEF RoundInv, SubInv, SubRounds, KeepsPace, Leaving
  <2>2. CASE pc[r] = "cvCompleted"
    <3>1. completedPub < currentSub /\ currentSub = Received + 1
      BY <1>0, <2>2 DEF Known, SubscribersSleepForAReason, RoundInv, SubInv,
                        SubRounds, KeepsPace
    <3> QED
      BY <1>0, <1>2, <3>1, Bounds
  <2> QED
    BY <1>5, <2>1, <2>2
<1>7. pc[q] # "serve"
  BY <1>1, <1>6 DEF Owing
<1>8. CASE pc[q] = "cvStarted"
  <2>1. begun[q] = completedPub + 1 /\ plan[q] # completedPub
    <3>1. begun[q] = completedPub + 1
      BY <1>0, <1>8 DEF RoundInv, PubInv, PubRounds, InStep, InRound
    <3> QED
      BY <1>2, <3>1
  <2>2. PICK s \in Subs : begun[s] < begun[q] \/ pc[s] \in First
    BY <1>8 DEF LiveInv, PublishersSleepForAReason, First
  <2>3. pc[s] \notin First
    BY <1>1 DEF First, AtBarrier
  <2>4. pc[s] \notin Leaving
    BY <1>0, <2>1 DEF RoundInv, SubInv, SubRounds, KeepsPace
  <2>5. pc[s] \in Awaiting \cup Within
    BY <1>1, <2>4 DEF Awaiting, Within, Got, Mid, Leaving, AtBarrier
  <2>6. begun[s] = Received + 1
    BY <1>0, <2>5 DEF RoundInv, SubInv, SubRounds, KeepsPace
  <2> QED
    BY <1>2, <1>6, <2>1, <2>2, <2>3, <2>6
<1>9. CASE pc[q] = "closed"
  <2>1. \A p \in Pubs : pc[p] = "closed"
    <3>1. \A p \in Pubs : pc[p] \in Ended
      BY <1>9 DEF LiveInv, ClosedTogether, Ended
    <3> QED
      BY <1>1, <3>1 DEF Ended, AtBarrier
  <2>2. pubStreamEnded
    BY <2>1 DEF LiveInv, ClosedTogether
  <2>3. pc[r] = "closed"
    BY <1>5, <2>2 DEF Known, SubscribersSleepForAReason
  <2>4. \A s \in Subs : pc[s] = "closed"
    <3>1. \A s \in Subs : pc[s] \in Ended
      BY <2>3 DEF LiveInv, ClosedTogether, Ended
    <3> QED
      BY <1>1, <3>1 DEF Ended, AtBarrier
  <2> QED
    BY <2>1, <2>4 DEF AllClosed, Actors
<1> QED
  BY <1>5, <1>7, <1>8, <1>9

-----------------------------------------------------------------------------
(* Barriers and closing                                                     *)

\* The first of a side to arrive at its barrier is not the last one to move.
LEMMA ArriveLeavesOne ==
  ASSUME TypeOK, NEW side \in {Pubs, Subs}, NEW a \in side, pc[a] \notin AtBarrier,
         NEW at, NEW last, Arrive(a, side, Cardinality(side), at, last),
         pc'[a] = at, at # last
  PROVE  \E b \in side : b # a /\ pc[b] \notin AtBarrier
<1> SUFFICES ASSUME \A b \in side : b # a => pc[b] \in AtBarrier
             PROVE  FALSE
  OBVIOUS
<1> DEFINE W == {b \in side : pc[b] \in AtBarrier}
<1>1. W = side \ {a} /\ IsFiniteSet(side) /\ a \in Actors
  BY ActorsAssumption, PubsAndSubs
<1>2. Cardinality(W) = Cardinality(side) - 1 /\ Cardinality(side) \in Nat
  BY <1>1, FS_RemoveElement, FS_CardinalityType
<1>3. ~(Cardinality(W) + 1 < Cardinality(side))
  BY <1>2
<1>4. pc' = [b \in Actors |-> IF b = a THEN last
                              ELSE IF b \in W THEN Resumed(b) ELSE pc[b]]
  BY <1>3 DEF Arrive
<1> QED
  BY <1>1, <1>4

\* How actor a may leave its side: moved alone, all at a barrier of the
\* transaction, at the closing barrier as the first or the last one, closed.
AloneAtWork(a, side) ==
  /\ pc[a] \notin Ended /\ pc'[a] \notin AtBarrier \cup Ended
  /\ \A b \in side : b # a => pc'[b] = pc[b]
AtTransactionBarrier(side) ==
  /\ \A b \in side : pc'[b] \notin Ended \cup {"cvStarted"} \/ pc'[b] = pc[b]
  /\ \A b \in side : pc'[b] \notin Ended
  /\ \E b \in side : pc'[b] \notin AtBarrier
FirstToClose(a, side) ==
  /\ pc[a] \notin Ended /\ pc'[a] = "closeBarrier"
  /\ \A b \in side : b # a => pc'[b] = pc[b]
  /\ \E b \in side : b # a /\ pc[b] \notin AtBarrier
LastToClose(a, side) ==
  pc'[a] = "closeLast" /\ \A b \in side : b # a => pc'[b] = "closed"
Closing(a, side) ==
  /\ pc[a] = "closeLast" /\ pc'[a] = "closed"
  /\ \A b \in side : b # a => pc'[b] = pc[b]

\* These moves keep a side together, and somebody of it away from a barrier.
LEMMA SideMoves ==
  ASSUME NEW side, NEW a \in side,
         \E b \in side : pc[b] \notin AtBarrier,
         (\E b \in side : pc[b] \in Ended) => \A b \in side : pc[b] \in Ended,
         \/ AloneAtWork(a, side) \/ AtTransactionBarrier(side)
         \/ FirstToClose(a, side) \/ LastToClose(a, side) \/ Closing(a, side)
  PROVE  /\ \E b \in side : pc'[b] \notin AtBarrier
         /\ (\E b \in side : pc'[b] \in Ended) => \A b \in side : pc'[b] \in Ended
         /\ (\A b \in side : pc'[b] = "closed") => Closing(a, side)
<1>1. CASE AloneAtWork(a, side)
  BY <1>1 DEF AloneAtWork, Ended
<1>2. CASE AtTransactionBarrier(side)
  BY <1>2 DEF AtTransactionBarrier, Ended
<1>3. CASE FirstToClose(a, side)
  BY <1>3 DEF FirstToClose, Ended
<1>4. CASE LastToClose(a, side)
  BY <1>4 DEF LastToClose, Ended, AtBarrier
<1>5. CASE Closing(a, side)
  BY <1>5 DEF Closing, Ended, AtBarrier
<1> QED
  BY <1>1, <1>2, <1>3, <1>4, <1>5

\* Closing, on a side whose barrier expects everybody.
LEMMA ArrivesToClose ==
  ASSUME TypeOK, NEW side \in {Pubs, Subs}, NEW a \in side,
         pc[a] \in {"idle", "eos", "closeFlush"},
         ArriveToClose(a, side, Cardinality(side)), Cardinality(side) # 0,
         \A b \in side : pc[b] \in AtBarrier => pc[b] = "closeBarrier"
  PROVE  FirstToClose(a, side) \/ LastToClose(a, side)
<1>1. /\ Arrive(a, side, Cardinality(side), "closeBarrier", "closeLast")
      /\ pc[a] \notin AtBarrier \cup Ended
  BY DEF ArriveToClose, AtBarrier, Ended
<1>2. \/ pc'[a] = "closeBarrier" /\ \A b \in side : b # a => pc'[b] = pc[b]
      \/ /\ pc'[a] = "closeLast"
         /\ \A b \in side : b # a => pc[b] \in AtBarrier /\ pc'[b] = Resumed(b)
  BY <1>1, ArriveAllOf
<1>3. \A b \in side : pc[b] = "closeBarrier" => Resumed(b) = "closed"
  BY DEF Resumed
<1>4. CASE pc'[a] = "closeBarrier" /\ \A b \in side : b # a => pc'[b] = pc[b]
  BY <1>1, <1>4, ArriveLeavesOne DEF FirstToClose
<1> QED
  BY <1>2, <1>3, <1>4 DEF LastToClose

\* Every step of a publisher is one of these moves.
LEMMA PubPositions ==
  ASSUME Regular, RegularInv, NEW p \in Pubs, PubStep(p)
  PROVE  \/ AloneAtWork(p, Pubs) \/ AtTransactionBarrier(Pubs)
         \/ FirstToClose(p, Pubs) \/ LastToClose(p, Pubs)
         \/ Closing(p, Pubs) /\ pubStreamEnded'
<1>0. TypeOK /\ AbortedOnlyByCancel /\ RoundInv /\ Cardinality(Pubs) # 0
      /\ pc[p] \notin {"canceled", "crashed", "eos"}
  BY ActorsAssumption, FS_EmptySet
  DEF RegularInv, Regular, RoundInv, PubInv, PubRounds, InStep, TypeOK, PlacesOK, PubPlaces
<1>1. ASSUME pc[p] \notin Ended,
             NEW to \in PubPlaces \ (AtBarrier \cup Ended \cup {"cvFirst", "cvCompleted"}),
             \/ pc' = Goto(p, to)
             \/ \E cvs \in SUBSET {"cvFirst", "cvCompleted"} : pc' = Notify(Goto(p, to), cvs)
      PROVE  AloneAtWork(p, Pubs)
  BY <1>0, <1>1, GotoPub, NotifyPub DEF AloneAtWork
<1>2. CASE Open(p)
  BY <1>1, <1>2 DEF Open, At, Ended, PubPlaces, AtBarrier
<1>3. CASE BeginPub(p)
  BY <1>0, <1>3, BeginRound DEF AloneAtWork, AtBarrier, Ended
<1>4. CASE LockPub(p) \/ Recheck(p) \/ Flush(p)
  <2>1. PubWaitOutcome \in PubPlaces \ (AtBarrier \cup Ended \cup {"cvFirst", "cvCompleted"})
    BY DEF PubWaitOutcome, PubPlaces, AtBarrier, Ended
  <2>2. /\ pc[p] \notin Ended
        /\ \/ pc' = Goto(p, PubWaitOutcome)
           \/ pc' = Goto(p, "flush") \/ pc' = Goto(p, "canceled")
    BY <1>4 DEF LockPub, Recheck, Flush, At, AwaitSubs, Ended
  <2> QED
    BY <1>1, <2>1, <2>2 DEF PubPlaces, AtBarrier, Ended
<1>5. CASE Put(p) \/ ClearPub(p)
  BY <1>1, <1>5 DEF Put, ClearPub, At, Ended, PubPlaces, AtBarrier
<1>6. CASE Commit(p)
  <2>1. pc[p] = "commit" /\ (pc' = Goto(p, "serve")
                             \/ pc' = Notify(Goto(p, "serve"), {"cvCompleted"}))
    BY <1>6 DEF Commit, At
  <2> QED
    BY <1>1, <2>1 DEF Ended, PubPlaces, AtBarrier
<1>7. CASE Serve(p)
  <2>1. pc[p] = "serve" /\ (pc' = pc \/ pc' = Goto(p, "crashed"))
    BY <1>7 DEF Serve, At
  <2>2. CASE pc' = pc
    BY <2>1, <2>2 DEF AloneAtWork, Ended, AtBarrier
  <2> QED
    BY <1>1, <2>1, <2>2 DEF Ended, PubPlaces, AtBarrier
<1>8. CASE EndPub(p)
  <2>1. \/ /\ pc[p] = "put" /\ pc'[p] = "endBarrier"
           /\ \A q \in Pubs : q # p => pc'[q] = pc[q]
        \/ pc'[p] = "commit" /\ \A q \in Pubs : q # p => pc'[q] = "serve"
    BY <1>0, <1>8, EndRound
  <2>2. CASE /\ pc[p] = "put" /\ pc'[p] = "endBarrier"
             /\ \A q \in Pubs : q # p => pc'[q] = pc[q]
    <3>1. \A q \in Pubs : pc[q] \notin Departing
      BY <1>0, <2>2, InsideRound DEF InRound
    <3>2. publishers = Pubs /\ pc[p] \notin AtBarrier
      BY <1>0, <2>2, InsideRound DEF InRound, AtBarrier
    <3>3. Arrive(p, Pubs, Cardinality(Pubs), "endBarrier", "commit")
      BY <1>0, <1>8, <3>2 DEF EndPub, BarrierFor, RoundInv, PubInv, PubRegistered
    <3>4. \E q \in Pubs : q # p /\ pc[q] \notin AtBarrier
      BY <1>0, <2>2, <3>2, <3>3, ArriveLeavesOne
    <3> QED
      BY <2>2, <3>1, <3>4 DEF AtTransactionBarrier, Ended, Departing
  <2>3. CASE pc'[p] = "commit" /\ \A q \in Pubs : q # p => pc'[q] = "serve"
    BY <2>3 DEF AtTransactionBarrier, Ended, AtBarrier
  <2> QED
    BY <2>1, <2>2, <2>3
<1>9. CASE EndServe(p)
  <2>1. /\ pc[p] = "serve" /\ \A q \in Pubs : pc[q] \in {"serve", "overBarrier"}
        /\ \/ /\ pc'[p] = "overBarrier"
              /\ \A q \in Pubs : q # p => pc'[q] = pc[q]
           \/ /\ pc'[p] = "clearFlag"
              /\ \A q \in Pubs : q # p => pc[q] = "overBarrier" /\ pc'[q] = "idle"
    BY <1>0, <1>9, EndServeRound
  <2>2. CASE /\ pc'[p] = "overBarrier"
             /\ \A q \in Pubs : q # p => pc'[q] = pc[q]
    <3>1. pubBarrier = Cardinality(Pubs)
      BY <1>0, <2>1 DEF RoundInv, PubInv, PubRegistered, Serving
    <3>2. Arrive(p, Pubs, Cardinality(Pubs), "overBarrier", "clearFlag")
          /\ pc[p] \notin AtBarrier
      BY <1>9, <2>1, <3>1 DEF EndServe, AtBarrier
    <3>3. \E q \in Pubs : q # p /\ pc[q] \notin AtBarrier
      BY <1>0, <2>2, <3>2, ArriveLeavesOne
    <3> QED
      BY <2>1, <2>2, <3>3 DEF AtTransactionBarrier, Ended
  <2>3. CASE /\ pc'[p] = "clearFlag"
             /\ \A q \in Pubs : q # p => pc[q] = "overBarrier" /\ pc'[q] = "idle"
    BY <2>3 DEF AtTransactionBarrier, Ended, AtBarrier
  <2> QED
    BY <2>1, <2>2, <2>3
<1>10. CASE CloseLastPub(p)
  <2>1. pc[p] = "closeLast" /\ pc' = Notify(Goto(p, "closed"), EndWakes) /\ pubStreamEnded'
    BY <1>10 DEF CloseLastPub, At
  <2>2. pc'[p] = "closed" /\ \A q \in Pubs : q # p => pc'[q] = pc[q]
    BY <1>0, <2>1, NotifyPub DEF EndWakes, PubPlaces
  <2> QED
    BY <2>1, <2>2 DEF Closing
<1>11. CASE ClosePub(p) \/ CloseFlushPub(p)
  <2>1. /\ (pc[p] = "idle" /\ begun[p] = plan[p]) \/ pc[p] = "closeFlush"
        /\ pc' = Goto(p, "closeFlush") \/ ArriveToClose(p, Pubs, pubBarrier)
    BY <1>0, <1>11 DEF ClosePub, CloseFlushPub, Closes, At, LeavePub
  <2>2. CASE pc' = Goto(p, "closeFlush")
    BY <1>1, <2>1, <2>2 DEF Ended, PubPlaces, AtBarrier
  <2>3. CASE ArriveToClose(p, Pubs, pubBarrier)
    <3>1. /\ completedPub > 0
          /\ \A q \in Pubs : pc[q] \in {"idle", "clearFlag"} \cup Departing
      BY <1>0, <1>11, Departs
    <3>2. pubBarrier = Cardinality(Pubs)
      BY <1>0, <3>1 DEF RoundInv, PubInv, PubRegistered
    <3>3. \A q \in Pubs : pc[q] \in AtBarrier => pc[q] = "closeBarrier"
      BY <3>1 DEF Departing, AtBarrier
    <3> QED
      BY <1>0, <2>1, <2>3, <3>2, <3>3, ArrivesToClose
  <2> QED
    BY <2>1, <2>2, <2>3
<1> QED
  BY <1>2, <1>3, <1>4, <1>5, <1>6, <1>7, <1>8, <1>9, <1>10, <1>11 DEF PubStep

\* Who closes has a barrier that expects its whole side.
LEMMA ClosesSized ==
  ASSUME Regular, RegularInv, SubSized, NEW s \in Subs,
         \/ pc[s] = "idle" /\ begun[s] = plan[s]
         \/ pc[s] \in {"eos"} \cup Leaving
  PROVE  /\ subBarrier = Cardinality(Subs) /\ Cardinality(Subs) # 0
         /\ currentPub > 0 /\ (pc[s] = "eos" => begun[s] > 1) /\ begun[s] > 0
         /\ \A r \in Subs : pc[r] \notin Within
<1>0. /\ TypeOK /\ RoundInv /\ Cardinality(Subs) # 0
      /\ begun[s] \in Nat /\ completedPub \in Nat
  BY ActorsAssumption, FS_EmptySet, PubsAndSubs DEF RegularInv, Regular, TypeOK
<1>1. /\ completedPub = Received /\ begun[s] = plan[s] /\ currentPub > 0
      /\ begun[s] = Received \/ (begun[s] = Received + 1 /\ pubStreamEnded)
      /\ \A p \in Pubs : plan[p] = completedPub
  BY <1>0, Finished
<1>2. Received > 0
  BY <1>1 DEF RegularInv, RoundInv, MeetInv, Quotas, Regular
<1>3. begun[s] > 1 \/ (begun[s] > 0 /\ pc[s] # "eos")
  <2>1. pc[s] = "eos" => begun[s] = Received + 1
    BY <1>0 DEF RoundInv, SubInv, SubRounds, KeepsPace
  <2> QED
    BY <1>0, <1>1, <1>2, <2>1
<1>4. subBarrier # 0
  <2>1. pc[s] # "eos" => pc[s] \notin First \cup Awaiting \cup {"tx", "get", "eos"}
    BY DEF First, Awaiting, Leaving
  <2> QED
    BY <1>3, <2>1 DEF SubSized, HasMet
<1>5. \A r \in Subs : pc[r] \notin Within
  BY <1>0, <1>1, Bounds DEF RoundInv, SubInv, SubRounds, KeepsPace
<1> QED
  BY <1>0, <1>1, <1>3, <1>4, <1>5 DEF RoundInv, SubInv, SubRegistered

\* Every step of a subscriber is one of these moves.
LEMMA SubPositions ==
  ASSUME Regular, RegularInv, SubSized, NEW s \in Subs, SubStep(s)
  PROVE  \/ AloneAtWork(s, Subs) \/ AtTransactionBarrier(Subs)
         \/ FirstToClose(s, Subs) \/ LastToClose(s, Subs) \/ Closing(s, Subs)
<1>0. TypeOK /\ AbortedOnlyByCancel /\ RoundInv
      /\ pc[s] \notin {"canceled", "crashed"}
  BY DEF RegularInv, RoundInv, SubInv, SubRounds, KeepsPace
<1>1. ASSUME pc[s] \notin Ended, NEW to, to \notin AtBarrier \cup Ended, pc' = Goto(s, to)
      PROVE  AloneAtWork(s, Subs)
  BY <1>0, <1>1, GotoSub DEF AloneAtWork
<1>2. CASE Open(s) \/ ReleaseSub(s)
  BY <1>1, <1>2 DEF Open, ReleaseSub, At, Ended, AtBarrier
<1>3. JoinTransaction(s) /\ pc[s] \notin Ended => AloneAtWork(s, Subs)
  BY <1>0, JoinAlone DEF AloneAtWork, AtBarrier, Ended
<1>4. CASE BeginSub(s)
  <2>1. pc[s] \in {"idle", "canceled"}
        /\ (JoinTransaction(s) \/ pc' \in {Goto(s, "canceled"), Goto(s, "first")})
    BY <1>4 DEF BeginSub, Begins, At
  <2> QED
    BY <1>1, <1>3, <2>1 DEF Ended, AtBarrier
<1>5. CASE StartSub(s)
  BY <1>3, <1>5 DEF StartSub, At, Ended
<1>6. CASE AwaitFirst(s)
  <2>1. pc[s] = "first" /\ \E to \in {"canceled", "start", "eos", "cvFirst"} : pc' = Goto(s, to)
    BY <1>6 DEF AwaitFirst, At
  <2> QED
    BY <1>1, <2>1 DEF Ended, AtBarrier
<1>7. CASE AwaitCompleted(s)
  <2>1. /\ pc[s] = "await" /\ pc' = Goto(s, AwaitOutcome)
        /\ AwaitOutcome \in {"canceled", "tx", "eos", "cvCompleted"}
    BY <1>7 DEF AwaitCompleted, At, AwaitOutcome
  <2> QED
    BY <1>1, <2>1 DEF Ended, AtBarrier
<1>8. CASE \E wanted \in SUBSET Pubs : Get(s, wanted)
  <2>1. pc[s] = "tx" /\ pc' \in {Goto(s, "get"), Goto(s, "crashed")}
    BY <1>8 DEF Get, At
  <2> QED
    BY <1>1, <2>1 DEF Ended, AtBarrier
<1>9. CASE Collect(s)
  <2>1. pc[s] = "collect" /\ pc' \in {Goto(s, "canceled"), Goto(s, "over")}
    BY <1>9 DEF Collect, At
  <2> QED
    BY <1>1, <2>1 DEF Ended, AtBarrier
<1>10. CASE EndSub(s)
  <2>1. pc[s] = "get" /\ pc[s] \notin AtBarrier
    BY <1>10 DEF EndSub, At, AtBarrier
  <2>2. /\ subscribers = Subs
        /\ \A r \in Subs : pc[r] \notin {"new"} \cup Returning \cup Leaving
    BY <1>0, <2>1, WithinTogether DEF Within, Got
  <2>3. Arrive(s, Subs, Cardinality(Subs), "endBarrier", "collect")
    BY <1>0, <1>10, <2>2 DEF EndSub, BarrierFor, RoundInv, SubInv, SubRegistered
  <2>4. \/ pc'[s] = "endBarrier" /\ \A r \in Subs : r # s => pc'[r] = pc[r]
        \/ /\ pc'[s] = "collect"
           /\ \A r \in Subs : r # s => pc[r] \in AtBarrier /\ pc'[r] = Resumed(r)
    BY <1>0, <2>1, <2>3, ArriveAllOf
  <2>5. CASE pc'[s] = "endBarrier" /\ \A r \in Subs : r # s => pc'[r] = pc[r]
    <3>1. \E r \in Subs : r # s /\ pc[r] \notin AtBarrier
      BY <1>0, <2>1, <2>3, <2>5, ArriveLeavesOne
    <3> QED
      BY <2>2, <2>5, <3>1 DEF AtTransactionBarrier, Ended, Leaving
  <2>6. CASE /\ pc'[s] = "collect"
             /\ \A r \in Subs : r # s => pc[r] \in AtBarrier /\ pc'[r] = Resumed(r)
    <3>1. \A r \in Subs : r # s => pc'[r] \in {"over", "release"}
      BY <2>2, <2>6, PubsAndSubs DEF AtBarrier, Leaving, Resumed
    <3> QED
      BY <2>6, <3>1 DEF AtTransactionBarrier, Ended, AtBarrier
  <2> QED
    BY <2>4, <2>5, <2>6
<1>11. CASE Over(s)
  <2>1. pc[s] = "over" /\ pc[s] \notin AtBarrier
    BY <1>11 DEF Over, At, AtBarrier
  <2>2. \A r \in Subs : pc[r] \in Mid
    BY <1>0, <2>1 DEF RoundInv, SubInv, SubTogether, Mid
  <2>3. Arrive(s, Subs, Cardinality(Subs), "overBarrier", "clearFlag")
    BY <1>0, <1>11, <2>2 DEF Over, RoundInv, SubInv, SubRegistered
  <2>4. \/ pc'[s] = "overBarrier" /\ \A r \in Subs : r # s => pc'[r] = pc[r]
        \/ /\ pc'[s] = "clearFlag"
           /\ \A r \in Subs : r # s => pc[r] \in AtBarrier /\ pc'[r] = Resumed(r)
    BY <1>0, <2>1, <2>3, ArriveAllOf
  <2>5. CASE pc'[s] = "overBarrier" /\ \A r \in Subs : r # s => pc'[r] = pc[r]
    <3>1. \E r \in Subs : r # s /\ pc[r] \notin AtBarrier
      BY <1>0, <2>1, <2>3, <2>5, ArriveLeavesOne
    <3> QED
      BY <2>2, <2>5, <3>1 DEF AtTransactionBarrier, Ended, Mid
  <2>6. CASE /\ pc'[s] = "clearFlag"
             /\ \A r \in Subs : r # s => pc[r] \in AtBarrier /\ pc'[r] = Resumed(r)
    <3>1. \A r \in Subs : r # s => pc'[r] = "release"
      BY <2>2, <2>6, PubsAndSubs DEF AtBarrier, Mid, Resumed
    <3> QED
      BY <2>6, <3>1 DEF AtTransactionBarrier, Ended, AtBarrier
  <2> QED
    BY <2>4, <2>5, <2>6
<1>12. CASE CloseSub(s) \/ CloseFlushSub(s)
  <2>1. /\ pc[s] \in {"idle", "eos", "closeFlush"} /\ (pc[s] = "idle" => begun[s] = plan[s])
        /\ pc' = Goto(s, "closeFlush") \/ ArriveToClose(s, Subs, subBarrier)
    BY <1>0, <1>12 DEF CloseSub, CloseFlushSub, Closes, At, LeaveSub
  <2>2. CASE pc' = Goto(s, "closeFlush")
    BY <1>1, <2>1, <2>2 DEF Ended, AtBarrier
  <2>3. CASE ArriveToClose(s, Subs, subBarrier)
    <3>1. /\ subBarrier = Cardinality(Subs) /\ Cardinality(Subs) # 0
          /\ \A r \in Subs : pc[r] \notin Within
      BY <2>1, ClosesSized DEF Leaving
    <3>2. \A r \in Subs : pc[r] \in AtBarrier => pc[r] = "closeBarrier"
      BY <3>1 DEF Within, Got, Mid, AtBarrier
    <3> QED
      BY <1>0, <2>1, <2>3, <3>1, <3>2, ArrivesToClose
  <2> QED
    BY <2>1, <2>2, <2>3
<1>13. CASE CloseLastSub(s)
  BY <1>0, <1>13, GotoSub DEF CloseLastSub, At, Closing
<1> QED
  BY <1>2, <1>4, <1>5, <1>6, <1>7, <1>8, <1>9, <1>10, <1>11, <1>12, <1>13 DEF SubStep

\* One side does not move the other one from a barrier, nor close it.
LEMMA WaitsElsewhere ==
  ASSUME NEW a, Waits(a)
  PROVE  /\ pc'[a] \in AtBarrier <=> pc[a] \in AtBarrier
         /\ pc'[a] \in Ended <=> pc[a] \in Ended
         /\ pc'[a] = "closed" <=> pc[a] = "closed"
BY DEF Waits, Wakes, AtBarrier, Ended

\* Both sides stay together, whoever moves.
LEMMA PubGathers ==
  ASSUME Regular, RegularInv, NotAllWait, ClosedTogether, NEW p \in Pubs, PubStep(p)
  PROVE  NotAllWait' /\ ClosedTogether'
<1>1. /\ \A s \in Subs : Waits(s)
      /\ pubStreamEnded => pubStreamEnded'
  BY PubFrame DEF RegularInv
<1>2. \/ AloneAtWork(p, Pubs) \/ AtTransactionBarrier(Pubs)
      \/ FirstToClose(p, Pubs) \/ LastToClose(p, Pubs)
      \/ Closing(p, Pubs) /\ pubStreamEnded'
  BY PubPositions
<1>3. /\ \E q \in Pubs : pc'[q] \notin AtBarrier
      /\ (\E q \in Pubs : pc'[q] \in Ended) => \A q \in Pubs : pc'[q] \in Ended
      /\ (\A q \in Pubs : pc'[q] = "closed") => Closing(p, Pubs)
  BY <1>2, SideMoves DEF NotAllWait, ClosedTogether
<1>4. Closing(p, Pubs) => pubStreamEnded'
  <2>1. AloneAtWork(p, Pubs) \/ FirstToClose(p, Pubs) \/ LastToClose(p, Pubs)
          \/ AtTransactionBarrier(Pubs) => ~Closing(p, Pubs)
    BY DEF AloneAtWork, FirstToClose, LastToClose, AtTransactionBarrier, Closing,
           Ended, AtBarrier
  <2> QED
    BY <1>2, <2>1
<1> QED
  BY <1>1, <1>3, <1>4, WaitsElsewhere DEF NotAllWait, ClosedTogether

LEMMA SubGathers ==
  ASSUME Regular, RegularInv, SubSized, NotAllWait, ClosedTogether,
         NEW s \in Subs, SubStep(s)
  PROVE  NotAllWait' /\ ClosedTogether'
<1>1. /\ \A p \in Pubs : Waits(p)
      /\ pubStreamEnded' = pubStreamEnded
  BY SubFrame DEF RegularInv
<1>2. /\ \E r \in Subs : pc'[r] \notin AtBarrier
      /\ (\E r \in Subs : pc'[r] \in Ended) => \A r \in Subs : pc'[r] \in Ended
  BY SubPositions, SideMoves DEF NotAllWait, ClosedTogether
<1> QED
  BY <1>1, <1>2, WaitsElsewhere DEF NotAllWait, ClosedTogether

-----------------------------------------------------------------------------
(* The stream and the barrier of the subscribers                            *)

\* What the position of a subscriber says about its step.
LEMMA SubStepOf ==
  ASSUME NEW s \in Subs, SubStep(s)
  PROVE  /\ pc[s] = "get" => EndSub(s)
         /\ BeginSub(s) => pc[s] \in {"idle", "canceled"}
         /\ pc[s] = "tx" <=> \E wanted \in SUBSET Pubs : Get(s, wanted)
BY DEF SubStep, At, Open, BeginSub, Begins, AwaitFirst, StartSub, AwaitCompleted, Get,
       EndSub, Collect, Over, ReleaseSub, CloseSub, Closes, CloseFlushSub, CloseLastSub

\* The stream closes after it was used.
LEMMA PubKeepsOpen ==
  ASSUME Regular, RegularInv, StillOpen, NEW p \in Pubs, PubStep(p)
  PROVE  StillOpen'
<1>0. TypeOK /\ RoundInv /\ currentPub \in Nat
  BY DEF RegularInv, TypeOK
<1>1. CASE BeginPub(p)
  BY <1>0, <1>1, BeginRound DEF StillOpen
<1>2. CASE ClosePub(p) \/ CloseFlushPub(p) \/ CloseLastPub(p)
  BY <1>0, <1>2, Departs DEF StillOpen
<1>3. CASE \/ Open(p) \/ LockPub(p) \/ Recheck(p) \/ Flush(p) \/ Put(p) \/ EndPub(p)
           \/ Commit(p) \/ Serve(p) \/ EndServe(p) \/ ClearPub(p)
  <2>1. streamOpen' = streamOpen /\ currentPub' = currentPub
    BY <1>3 DEF Open, LockPub, Recheck, Flush, Put, EndPub, Commit, Serve, EndServe,
                ClearPub, status, pubSide
  <2> QED
    BY <2>1 DEF StillOpen
<1> QED
  BY <1>1, <1>2, <1>3 DEF PubStep

LEMMA SubKeepsOpen ==
  ASSUME Regular, RegularInv, SubSized, StillOpen, NEW s \in Subs, SubStep(s)
  PROVE  StillOpen'
<1>1. currentPub' = currentPub
  BY SubFrame DEF RegularInv, pubSide
<1>2. CASE CloseLastSub(s)
  <2>1. pc[s] \in Leaving
    BY <1>2 DEF CloseLastSub, At, Leaving
  <2> QED
    BY <1>1, <2>1, ClosesSized DEF StillOpen
<1>3. CASE ~CloseLastSub(s)
  <2>1. streamOpen' = streamOpen
    BY <1>3 DEF SubStep, Open, BeginSub, AwaitFirst, StartSub, AwaitCompleted, Get,
                EndSub, Collect, Over, ReleaseSub, CloseSub, CloseFlushSub, status
  <2> QED
    BY <1>1, <2>1 DEF StillOpen
<1> QED
  BY <1>2, <1>3

\* The first end of a transaction makes the barrier, and it stays.
LEMMA PubKeepsSized ==
  ASSUME Regular, RegularInv, SubSized, NEW p \in Pubs, PubStep(p)
  PROVE  SubSized'
<1>1. /\ \A s \in Subs : Waits(s) /\ begun'[s] = begun[s]
      /\ subBarrier' = subBarrier
  BY PubFrame DEF RegularInv
<1>2. \A s \in Subs : HasMet(s)' => HasMet(s)
  BY <1>1 DEF HasMet, Waits, Wakes, First, Awaiting
<1> QED
  BY <1>1, <1>2 DEF SubSized, HasMet

LEMMA SubKeepsSized ==
  ASSUME Regular, RegularInv, RegularInv', SubSized, NEW s \in Subs, SubStep(s)
  PROVE  SubSized'
<1>0. /\ TypeOK /\ RoundInv /\ Listed
      /\ \A r \in Subs : begun[r] \in Nat
  BY PubsAndSubs DEF RegularInv, TypeOK, RoundInv, SubInv, SubRegistered, Listed, Outside, Gone
<1>1. /\ EndSub(s) => subBarrier' # 0
      /\ ~EndSub(s) => subBarrier' = subBarrier
  BY <1>0, SubRegistry
<1> SUFFICES ASSUME ~EndSub(s), NEW r \in Subs, HasMet(r)'
             PROVE  HasMet(r)
  BY <1>1 DEF SubSized, HasMet
<1>2. begun' = begun \/ BeginSub(s)
  BY <1>0, SubFrame
<1>3. CASE r # s
  <2>1. begun'[r] = begun[r]
    BY <1>0, <1>2, <1>3, PubsAndSubs DEF BeginSub, Begins, TypeOK
  <2>2. Waits(r) \/ Resumes(r)
    BY <1>0, <1>3, SubSpares
  <2> QED
    BY <2>1, <2>2 DEF HasMet, Waits, Wakes, Resumes, First, Awaiting
<1>4. CASE r = s /\ BeginSub(s)
  <2>1. /\ pc[s] = "idle" /\ begun'[s] = begun[s] + 1
        /\ pc'[s] \in {"first", "await"}
    <3>1. pc'[s] \in {"canceled", "first", "await"}
      BY <1>0, <1>4, BeginGoes DEF TypeOK
    <3>2. pc[s] \in {"idle", "canceled"} /\ begun' = [begun EXCEPT ![s] = @ + 1]
      BY <1>4 DEF BeginSub, Begins, At
    <3>3. pc[s] # "canceled" /\ pc'[s] # "canceled"
      BY DEF RegularInv, RoundInv, SubInv, SubRounds, KeepsPace
    <3> QED
      BY <1>0, <3>1, <3>2, <3>3, PubsAndSubs DEF TypeOK
  <2> QED
    BY <1>0, <1>4, <2>1 DEF HasMet, First, Awaiting
<1>5. CASE r = s /\ ~BeginSub(s)
  <2>1. begun'[s] = begun[s] /\ Goes(pc[s], pc'[s]) /\ pc[s] # "get"
        /\ pc[s] # "canceled" /\ pc'[s] # "canceled"
        /\ pc[s] # "crashed" /\ pc'[s] # "crashed"
    BY <1>0, <1>2, <1>5, SubGoes, SubStepOf
    DEF TypeOK, RegularInv, RoundInv, SubInv, SubRounds, KeepsPace
  <2>2. pc[s] = "new" => begun[s] = 0
    BY <1>0 DEF RoundInv, SubInv, SubRounds, KeepsPace
  <2>3. pc[s] = "eos" => begun[s] > 1
    BY ClosesSized
  <2> QED
    BY <1>5, <2>1, <2>2, <2>3 DEF HasMet, Goes, First, Awaiting
<1> QED
  BY <1>3, <1>4, <1>5

-----------------------------------------------------------------------------
(* Publishers asleep                                                        *)

\* A publisher goes to sleep when a subscriber has not joined the transaction.
LEMMA FallsAsleep ==
  ASSUME Regular, RegularInv, NEW p \in Pubs, pc[p] \in {"lock", "recheck", "flush"},
         Turn(p), PubWaitOutcome = "cvStarted"
  PROVE  \E s \in Subs : Missing(p, s)
<1>0. /\ TypeOK /\ RoundInv /\ begun[p] \in Nat
      /\ \A s \in Subs : begun[s] \in Nat /\ pc[s] \in SubPlaces
  BY PubsAndSubs DEF RegularInv, TypeOK, PlacesOK
<1>1. \A q \in Pubs : pc[q] \in Returning => begun[q] = 0
  BY PubTurn DEF Returning
<1>2. /\ currentPub = completedPub + 1 /\ begun[p] = completedPub + 1
      /\ begun[p] <= plan[p] /\ currentPub > 0
  BY <1>0, <1>1, InsideRound, Bounds DEF InRound
<1>3. /\ Received \in Nat /\ (currentSub = Received \/ currentSub = Received + 1)
      /\ completedPub \in Nat /\ completedPub \in {Received, Received + 1}
      /\ plan[p] \in Nat /\ plan[p] # completedPub
  BY <1>0, <1>2, Bounds
<1>4. \A s \in Subs : KeepsPace(s) /\ pc[s] \notin Leaving /\ pc[s] # "eos"
  <2>1. ASSUME NEW s \in Subs
        PROVE  KeepsPace(s) /\ pc[s] \notin Leaving
    BY <1>0, <1>3 DEF RoundInv, SubInv, SubRounds, KeepsPace
  <2>2. ~pubStreamEnded
    BY <1>0, <1>3 DEF RoundInv, MeetInv, Meeting
  <2> QED
    BY <2>1, <2>2 DEF KeepsPace
<1>5. PICK s \in Subs : TRUE
  BY DEF Regular
<1>6. \A r \in Subs : pc[r] # "new"
  BY <1>0, <1>2, PubsAndSubs DEF RoundInv, MeetInv, Opened, TypeOK
<1>7. currentPub > currentSub
  <2>1. subscribers # {}
    <3>1. s \in subscribers
      BY <1>0, <1>4, <1>6 DEF RoundInv, SubInv, SubRegistered, Gone, Leaving
    <3> QED
      BY <3>1
  <2>2. ~Canceled(currentPub)
    BY <1>0, <1>2, Bounds DEF Canceled
  <2> QED
    BY <2>1, <2>2 DEF PubWaitOutcome, MustAwaitSubs
<1>8. CASE pc[s] \in Within
  <2>1. completedPub = currentSub /\ begun[s] = currentSub
    BY <1>4, <1>8 DEF KeepsPace
  <2> QED
    BY <1>2, <1>3, <2>1 DEF Missing
<1>9. CASE \A r \in Subs : pc[r] \notin Within
  <2>1. completedPub = Received
    <3>1. \A r \in Subs : pc[r] \notin Got
      BY <1>9 DEF Within
    <3> QED
      BY <1>0, <3>1 DEF RoundInv, MeetInv, Meeting, Regular
  <2>2. currentSub = Received
    BY <1>2, <1>3, <1>7, <2>1
  <2>3. pc[s] # "cvCompleted"
    BY <1>3, <1>4, <2>2 DEF KeepsPace
  <2>4. CASE pc[s] \in First
    BY <2>4 DEF Missing
  <2>5. CASE pc[s] \in Returning
    <3>1. begun[s] = Received
      BY <1>4, <2>5 DEF KeepsPace
    <3> QED
      BY <1>2, <1>3, <2>1, <3>1 DEF Missing
  <2>6. CASE pc[s] = "await"
    <3>1. \E r \in Subs : pc[r] \in Returning
      <4>1. CASE subInProgress
        BY <1>3, <2>1, <2>2, <4>1 DEF Received, Clearing, Returning
      <4>2. CASE ~subInProgress
        BY <1>0, <1>3, <2>1, <2>2, <2>6, <4>2
        DEF RoundInv, SubInv, SubFlag, Returning
      <4> QED
        BY <4>1, <4>2
    <3>2. PICK r \in Subs : pc[r] \in Returning
      BY <3>1
    <3>3. begun[r] = Received
      BY <1>4, <3>2 DEF KeepsPace
    <3> QED
      BY <1>2, <1>3, <2>1, <3>3 DEF Missing
  <2>7. pc[s] \in First \cup Returning \cup {"await"}
    <3>1. pc[s] \notin {"canceled", "crashed"}
      BY <1>4 DEF KeepsPace
    <3> QED
      BY <1>0, <1>4, <1>6, <1>9, <2>3, <3>1
      DEF SubPlaces, Leaving, Within, Got, Mid, First, Returning
  <2> QED
    BY <2>4, <2>5, <2>6, <2>7
<1>10. CASE \E r \in Subs : pc[r] \in Within
  <2>1. PICK r \in Subs : pc[r] \in Within
    BY <1>10
  <2>2. completedPub = currentSub /\ begun[r] = Received + 1 /\ currentSub = Received + 1
    BY <1>4, <2>1 DEF KeepsPace
  <2> QED
    BY <1>2, <1>3, <2>1, <2>2 DEF Missing
<1> QED
  BY <1>9, <1>10

\* No other step of a publisher puts one to sleep.
LEMMA PubKeepsSleep ==
  ASSUME Regular, RegularInv, PublishersSleepForAReason, NEW p \in Pubs, PubStep(p)
  PROVE  PublishersSleepForAReason'
<1>0. TypeOK /\ RoundInv
  BY DEF RegularInv
<1>1. /\ \A s \in Subs : Waits(s) /\ begun'[s] = begun[s]
      /\ ~BeginPub(p) => begun' = begun
  BY <1>0, PubFrame
<1>2. \A s \in Subs : pc'[s] \in First <=> pc[s] \in First
  BY <1>1 DEF Waits, Wakes, First
<1> SUFFICES ASSUME NEW q \in Pubs, pc'[q] = "cvStarted"
             PROVE  \E s \in Subs : Missing(q, s)'
  BY DEF PublishersSleepForAReason, Missing, First
<1>3. CASE q # p
  <2>1. pc[q] = "cvStarted"
    BY <1>3, PubPositions
    DEF AloneAtWork, AtTransactionBarrier, FirstToClose, LastToClose, Closing, Ended
  <2>2. begun'[q] = begun[q]
    BY <1>0, <1>1, <1>3, BeginRound
  <2>3. \E s \in Subs : Missing(q, s)
    BY <2>1 DEF PublishersSleepForAReason, Missing, First
  <2> QED
    BY <1>1, <1>2, <2>2, <2>3 DEF Missing
<1>4. CASE q = p
  <2>1. /\ pc[p] \in {"lock", "recheck", "flush"} /\ Turn(p)
        /\ PubWaitOutcome = "cvStarted" /\ ~BeginPub(p)
    <3>1. CASE LockPub(p) \/ Recheck(p) \/ Flush(p)
      <4>1. /\ pc[p] \in {"lock", "recheck", "flush"} /\ Turn(p)
            /\ pc' \in {Goto(p, "flush"), Goto(p, "canceled"), Goto(p, PubWaitOutcome)}
        BY <3>1 DEF LockPub, Recheck, Flush, At, AwaitSubs
      <4>2. ~BeginPub(p)
        BY <4>1 DEF BeginPub, Begins, At
      <4> QED
        BY <1>0, <1>4, <4>1, <4>2, GotoPub
    <3>2. CASE ~(LockPub(p) \/ Recheck(p) \/ Flush(p))
      <4>1. pc'[p] # "cvStarted"
        <5>1. CASE Open(p) \/ Put(p) \/ ClearPub(p)
          BY <1>0, <5>1, GotoPub DEF Open, Put, ClearPub
        <5>2. CASE BeginPub(p)
          BY <1>0, <5>2, BeginRound
        <5>3. CASE EndPub(p)
          BY <1>0, <5>3, EndRound
        <5>4. CASE EndServe(p)
          BY <1>0, <5>4, EndServeRound
        <5>5. CASE Commit(p)
          BY <1>0, <5>5, CommitRound
        <5>6. CASE Serve(p)
          <6>1. pc[p] = "serve" /\ (pc' = pc \/ pc' = Goto(p, "crashed"))
            BY <5>6 DEF Serve, At
          <6> QED
            BY <1>0, <6>1, GotoPub
        <5>7. CASE ClosePub(p) \/ CloseFlushPub(p) \/ CloseLastPub(p)
          BY <1>0, <5>7, Departs DEF Departing
        <5> QED
          BY <3>2, <5>1, <5>2, <5>3, <5>4, <5>5, <5>6, <5>7 DEF PubStep
      <4> QED
        BY <1>4, <4>1
    <3> QED
      BY <3>1, <3>2
  <2>2. \E s \in Subs : Missing(p, s)
    BY <2>1, FallsAsleep
  <2> QED
    BY <1>1, <1>2, <1>4, <2>1, <2>2 DEF Missing
<1> QED
  BY <1>3, <1>4

\* The last subscriber to join wakes the publishers.
LEMMA LastJoins ==
  ASSUME Regular, RegularInv, RegularInv', StartingBalanced', NEW s \in Subs,
         SubStep(s), BeginSub(s) \/ StartSub(s), JoinTransaction(s),
         NEW p \in Pubs, pc[p] = "cvStarted",
         \A r \in Subs : ~Missing(p, r)'
  PROVE  pc'[p] # "cvStarted"
<1>0. /\ TypeOK /\ RoundInv /\ TypeOK' /\ RoundInv'
      /\ UNCHANGED <<plan, currentPub, completedPub, subscribers>>
      /\ Waits(p) /\ begun'[p] = begun[p]
  BY SubFrame DEF RegularInv, pubSide, BeginSub, StartSub, registry
<1>1. /\ currentPub = completedPub + 1 /\ begun[p] = completedPub + 1
      /\ begun[p] <= plan[p] /\ completedPub \in Nat /\ plan[p] \in Nat
      /\ Received' \in Nat /\ completedPub \in {Received', Received' + 1}
      /\ currentSub' \in Nat
  <2>1. /\ currentPub = completedPub + 1 /\ begun[p] = completedPub + 1
        /\ begun[p] <= plan[p] /\ completedPub \in Nat /\ plan[p] \in Nat
    BY <1>0, InsideRound, Bounds DEF InRound
  <2>2. completedPub \in {Received', Received' + 1}
    BY <1>0 DEF RoundInv, MeetInv, Meeting
  <2>3. currentSub' \in Nat /\ currentSub' > 0
    <3>1. subInProgress'
      BY DEF JoinTransaction
    <3> QED
      BY <1>0, <3>1 DEF TypeOK, RoundInv, SubInv, SubFlag
  <2>4. Received' = currentSub' \/ Received' = currentSub' - 1
    BY DEF Received
  <2> QED
    BY <2>1, <2>2, <2>3, <2>4
<1>k. PICK k \in Nat : k = Received'
  BY <1>1
<1>c. completedPub = k \/ completedPub = k + 1
  BY <1>1, <1>k
<1>u. completedPub' = completedPub /\ plan' = plan
  BY <1>0
<1>2. ASSUME NEW r \in Subs
      PROVE  /\ pc'[r] \in Awaiting \cup Within
             /\ begun'[r] = k + 1 /\ k = completedPub
  <2>1. KeepsPace(r)'
    BY <1>0 DEF RoundInv, SubInv, SubRounds
  <2>2. /\ pc'[r] \in Returning \cup {"new"} => begun'[r] = k
        /\ pc'[r] \in First \cup Awaiting \cup Within \cup {"eos"} => begun'[r] = k + 1
        /\ pc'[r] \notin {"canceled", "crashed"}
        /\ pc'[r] = "eos" => pubStreamEnded'
        /\ pc'[r] \in Leaving => plan'[p] = completedPub'
    BY <1>k, <2>1 DEF KeepsPace
  <2>3. begun'[r] \in Nat
    BY <1>0, PubsAndSubs DEF TypeOK
  <2>4. ~(begun'[r] < begun'[p]) /\ pc'[r] \notin First
    BY DEF Missing
  <2>5. begun'[r] >= completedPub + 1
    BY <1>0, <1>1, <2>3, <2>4
  <2>6. pc'[r] \in SubPlaces
    BY <1>0 DEF TypeOK, PlacesOK
  <2>7. pc'[r] \notin Returning \cup {"new"}
    BY <1>c, <1>1, <2>2, <2>5
  <2>8. plan'[p] # completedPub'
    BY <1>1, <1>u
  <2>9. ~pubStreamEnded'
    BY <1>0, <2>8 DEF RoundInv, MeetInv, Meeting
  <2>10. pc'[r] \in Awaiting \cup Within
    BY <2>2, <2>4, <2>6, <2>7, <2>8, <2>9
    DEF SubPlaces, First, Awaiting, Within, Got, Mid, Returning, Leaving
  <2>11. begun'[r] = k + 1
    BY <2>2, <2>10
  <2> QED
    BY <1>1, <1>c, <2>5, <2>10, <2>11
<1>3. subscribers = Subs
  BY <1>0, <1>2 DEF RoundInv, SubInv, SubRegistered, Awaiting, Within, Got, Mid, Gone
<1>4. numStarting' = Cardinality(subscribers)
  <2>1. \A r \in Subs : pc'[r] \in Counted
    BY <1>2 DEF Awaiting, Within, Got, Mid, Counted
  <2>2. {r \in Subs : pc'[r] \in Counted} = Subs
    BY <2>1
  <2> QED
    BY <1>3, <2>2 DEF StartingBalanced
<1>5. currentSub' = currentPub
  <2>1. ~Clearing'
    BY <1>2 DEF Clearing, Awaiting, Within, Got, Mid
  <2>2. subInProgress'
    BY DEF JoinTransaction
  <2>3. currentSub' > 0
    BY <1>0, <2>2 DEF RoundInv, SubInv, SubFlag
  <2>4. PICK m \in Nat : m = currentSub'
    BY <1>1
  <2>5. k = m - 1 /\ m > 0
    BY <1>k, <2>1, <2>2, <2>3, <2>4 DEF Received
  <2>6. m = k + 1
    BY <2>5
  <2> QED
    BY <1>1, <1>2, <2>4, <2>6
<1>6. pc' = Notify(Goto(s, "await"), {"cvStarted"})
  BY <1>4, <1>5 DEF JoinTransaction, TellsPublishers
<1>7. Goto(s, "await")[p] = "cvStarted" /\ p \in Actors
  BY <1>0, PubsAndSubs DEF Goto, TypeOK, PlacesOK
<1> QED
  BY <1>6, <1>7 DEF Notify, Woken

\* No other step of a subscriber ends what a publisher waits for.
LEMMA SubKeepsSleep ==
  ASSUME Regular, RegularInv, RegularInv', StartingBalanced', PublishersSleepForAReason,
         NEW s \in Subs, SubStep(s)
  PROVE  PublishersSleepForAReason'
<1>0. /\ TypeOK /\ RoundInv /\ TypeOK' /\ RoundInv'
      /\ \A r \in Subs : begun[r] \in Nat
  BY PubsAndSubs DEF RegularInv, TypeOK
<1>1. /\ \A q \in Pubs : Waits(q) /\ begun'[q] = begun[q]
      /\ ~BeginSub(s) => begun' = begun
  BY <1>0, SubFrame
<1> SUFFICES ASSUME NEW p \in Pubs, pc'[p] = "cvStarted"
             PROVE  \E r \in Subs : Missing(p, r)'
  BY DEF PublishersSleepForAReason, Missing, First
<1>2. pc[p] = "cvStarted"
  BY <1>1 DEF Waits, Wakes
<1>3. CASE JoinTransaction(s) /\ (BeginSub(s) \/ StartSub(s))
  BY <1>2, <1>3, LastJoins
<1>4. CASE ~(JoinTransaction(s) /\ (BeginSub(s) \/ StartSub(s)))
  <2>1. PICK r \in Subs : Missing(p, r)
    BY <1>2 DEF PublishersSleepForAReason, Missing, First
  <2>2. CASE BeginSub(s)
    <3>1. pc' = Goto(s, "canceled") \/ pc' = Goto(s, "first")
      BY <1>4, <2>2 DEF BeginSub
    <3>2. pc'[s] # "canceled"
      BY <1>0 DEF RoundInv, SubInv, SubRounds, KeepsPace
    <3>3. pc'[s] = "first"
      BY <1>0, <3>1, <3>2, GotoSub
    <3> QED
      BY <3>3 DEF Missing, First
  <2>3. CASE ~BeginSub(s)
    <3>1. begun' = begun
      BY <1>1, <2>3
    <3>2. pc[r] \in First => pc'[r] \in First
      <4> SUFFICES ASSUME pc[r] \in First
                   PROVE  pc'[r] \in First
        OBVIOUS
      <4>1. CASE r # s
        <5>1. Waits(r) \/ Resumes(r)
          BY <1>0, <4>1, SubSpares
        <5> QED
          BY <5>1 DEF Waits, Wakes, Resumes, First
      <4>2. CASE r = s
        <5>1. pc[s] # "start"
          <6>1. StartSub(s) => JoinTransaction(s)
            BY DEF StartSub
          <6> QED
            BY <1>4, <6>1 DEF SubStep, At, Open, BeginSub, Begins, AwaitFirst,
              AwaitCompleted, Get, EndSub, Collect, Over, ReleaseSub, CloseSub,
              Closes, CloseFlushSub, CloseLastSub
        <5>2. Goes(pc[s], pc'[s]) /\ pc'[s] # "canceled"
          BY <1>0, SubGoes DEF TypeOK, RoundInv, SubInv, SubRounds, KeepsPace
        <5>3. pc'[s] # "eos"
          <6> SUFFICES ASSUME pc'[s] = "eos"
                       PROVE  FALSE
            OBVIOUS
          <6>1. pubStreamEnded'
            BY <1>0 DEF RoundInv, SubInv, SubRounds, KeepsPace
          <6>2. pubStreamEnded
            BY <1>0, <6>1, SubFrame
          <6>3. plan[p] = completedPub
            BY <1>0, <6>2 DEF RoundInv, MeetInv, Meeting
          <6>4. begun[p] = completedPub + 1 /\ begun[p] <= plan[p] /\ completedPub \in Nat
            BY <1>0, <1>2, InsideRound, Bounds DEF InRound
          <6> QED
            BY <6>3, <6>4
        <5> QED
          BY <4>2, <5>1, <5>2, <5>3 DEF Goes, First
      <4> QED
        BY <4>1, <4>2
    <3> QED
      BY <1>1, <2>1, <3>1, <3>2 DEF Missing
  <2> QED
    BY <2>2, <2>3
<1> QED
  BY <1>3, <1>4

-----------------------------------------------------------------------------
(* Requests, puts and receptions                                            *)

\* Only a get asks for something, and who asks is within the transaction.
LEMMA AskedStays ==
  ASSUME Regular, RegularInv, EndInv', RegularInv', AskedWithin,
         \/ \E p \in Pubs : PubStep(p)
         \/ \E s \in Subs : SubStep(s)
  PROVE  AskedWithin'
<1>0. /\ TypeOK /\ AbortedOnlyByCancel /\ RoundInv /\ RoundInv' /\ TypeOK'
  BY DEF RegularInv
<1>1. NothingAsked'
  <2>1. canceledTx' = 0 /\ subBarrier' \in {0, Cardinality(Subs)}
    BY <1>0 DEF RoundInv, SubInv, SubRegistered, MeetInv, Quotas
  <2> QED
    BY <2>1 DEF EndInv, InOrder, AllExpected
<1> SUFFICES ASSUME NEW x \in Pairs, pc'[x[2]] \notin Got
             PROVE  gets'[x] = 0
  BY DEF AskedWithin
<1>2. x[2] \in Subs
  BY DEF Pairs
<1>3. CASE \E p \in Pubs : PubStep(p)
  <2>1. PICK p \in Pubs : PubStep(p)
    BY <1>3
  <2>2. pc[x[2]] \notin Got
    BY <1>0, <1>2, <2>1, PubFrame DEF Waits, Wakes, Got, Mid
  <2> QED
    BY <1>0, <2>1, <2>2, PubKeepsOver DEF KeepsOver, AskedWithin
<1>4. CASE \E s \in Subs : SubStep(s)
  <2>1. PICK s \in Subs : SubStep(s)
    BY <1>4
  <2>2. CASE pc[x[2]] \in Got
    <3>1. pc'[x[2]] \in {"release", "clearFlag"}
      <4>1. CASE x[2] # s
        <5>1. Waits(x[2]) \/ Resumes(x[2])
          BY <1>0, <1>2, <2>1, <4>1, SubSpares
        <5> QED
          BY <2>2, <5>1 DEF Waits, Wakes, Resumes, Got, Mid
      <4>2. CASE x[2] = s
        <5>1. Goes(pc[s], pc'[s]) /\ pc'[s] # "canceled" /\ pc'[s] # "crashed"
          BY <1>0, <2>1, SubGoes DEF TypeOK, RoundInv, SubInv, SubRounds, KeepsPace
        <5> QED
          BY <2>2, <4>2, <5>1 DEF Goes, Got, Mid
      <4> QED
        BY <4>1, <4>2
    <3> QED
      BY <1>1, <3>1 DEF NothingAsked
  <2>3. CASE pc[x[2]] \notin Got
    <3>1. x[2] # s \/ pc[s] # "tx"
      <4> SUFFICES ASSUME x[2] = s, pc[s] = "tx"
                   PROVE  FALSE
        OBVIOUS
      <4>1. Goes(pc[s], pc'[s]) /\ pc'[s] # "crashed"
        BY <1>0, <2>1, SubGoes DEF TypeOK, RoundInv, SubInv, SubRounds, KeepsPace
      <4> QED
        BY <4>1 DEF Goes, Got
    <3> QED
      BY <1>0, <2>1, <2>3, <3>1, SubKeepsOver DEF KeepsOver, AskedWithin
  <2> QED
    BY <2>2, <2>3
<1> QED
  BY <1>3, <1>4

\* Where nothing is served, asked for or received, nothing changes.
LEMMA MatchedApart ==
  ASSUME NEW p \in Pubs, NEW s \in Subs, MatchedAt(p, s), requests'[p] = requests[p],
         puts'[<<p, s>>] = puts[<<p, s>>], gets'[<<p, s>>] = gets[<<p, s>>]
  PROVE  MatchedAt(p, s)'
BY DEF MatchedAt, Asks, AsksOnce, Wanting

\* A message is what it says.
LEMMA WantsIs ==
  ASSUME NEW m \in Request, NEW s
  PROVE  m = [from |-> s, wants |-> TRUE] <=> m.from = s /\ m.wants = TRUE
BY DEF Request

\* A request that is served becomes a put.
LEMMA ServeMatches ==
  ASSUME Regular, TypeOK, RoundInv, NEW p \in Pubs, Serve(p), NEW s \in Subs,
         MatchedAt(p, s)
  PROVE  MatchedAt(p, s)'
<1> DEFINE x == <<p, s>>
<1> DEFINE r == Head(requests[p])
<1>1. /\ requests[p] # <<>> /\ gets' = gets
      /\ puts' = IF r.wants /\ <<p, r.from>> \in rdv
                 THEN [puts EXCEPT ![<<p, r.from>>] = @ + 1] ELSE puts
      /\ requests' = [requests EXCEPT ![p] = Tail(@)]
  BY DEF Serve
<1>2. /\ requests \in [Pubs -> Seq(Request)] /\ requests[p] \in Seq(Request)
      /\ puts \in [Pairs -> Nat] /\ x \in Pairs /\ puts[x] \in Nat /\ gets[x] \in Nat
  BY DEF TypeOK, Pairs
<1>3. Len(requests[p]) >= 1 /\ r = requests[p][1] /\ r \in Request
      /\ Len(requests[p]) \in Nat
  BY <1>1, <1>2
<1>4. <<p, r.from>> \in rdv
  BY <1>3 DEF RoundInv, SubInv, RendezVous
<1>5. /\ requests'[p] = Tail(requests[p])
      /\ Len(requests'[p]) = Len(requests[p]) - 1
      /\ \A i \in 1..Len(requests'[p]) : requests'[p][i] = requests[p][i + 1]
  BY <1>1, <1>2, <1>3
<1>6. \A i \in 1..Len(requests'[p]) : i + 1 \in 1..Len(requests[p])
                                     /\ (Wanting(p, s, i)' <=> Wanting(p, s, i + 1))
  BY <1>3, <1>5 DEF Wanting
<1>7. \A j \in 1..Len(requests[p]) : j # 1 => j - 1 \in 1..Len(requests'[p])
                                              /\ (j - 1) + 1 = j
  BY <1>3, <1>5
<1>8. Wanting(p, s, 1) <=> r.from = s /\ r.wants
  <2> HIDE DEF r
  <2>1. r.wants \in BOOLEAN
    BY <1>3 DEF Request
  <2>2. r = [from |-> s, wants |-> TRUE] <=> r.from = s /\ r.wants = TRUE
    BY <1>3, WantsIs
  <2> QED
    BY <1>3, <2>1, <2>2 DEF Wanting
<1>9. AsksOnce(p, s)'
  <2> SUFFICES ASSUME NEW i \in 1..Len(requests'[p]), NEW j \in 1..Len(requests'[p]),
                      Wanting(p, s, i)', Wanting(p, s, j)'
               PROVE  i = j
    BY DEF AsksOnce
  <2>1. i + 1 = j + 1
    BY <1>6 DEF MatchedAt, AsksOnce
  <2>2. i \in Nat /\ j \in Nat
    BY <1>3, <1>5
  <2> QED
    BY <2>1, <2>2
<1>10. CASE Wanting(p, s, 1)
  <2>1. puts'[x] = puts[x] + 1
    BY <1>1, <1>2, <1>4, <1>8, <1>10
  <2>2. 1 \in 1..Len(requests[p])
    BY <1>3
  <2>3. Asks(p, s)
    BY <1>10, <2>2 DEF Asks
  <2>4. ~Asks(p, s)'
    <3> SUFFICES ASSUME NEW i \in 1..Len(requests'[p]), Wanting(p, s, i)'
                 PROVE  FALSE
      BY DEF Asks
    <3>1. i + 1 = 1
      BY <1>6, <1>10, <2>2 DEF MatchedAt, AsksOnce
    <3> QED
      BY <3>1
  <2> QED
    BY <1>1, <1>9, <2>1, <2>3, <2>4 DEF MatchedAt
<1>11. CASE ~Wanting(p, s, 1)
  <2>1. puts'[x] = puts[x]
    <3>1. r.wants => <<p, r.from>> # x
      BY <1>8, <1>11
    <3> QED
      BY <1>1, <1>2, <3>1
  <2>2. Asks(p, s)' <=> Asks(p, s)
    <3>1. Asks(p, s)' => Asks(p, s)
      BY <1>6 DEF Asks
    <3>2. Asks(p, s) => Asks(p, s)'
      <4> SUFFICES ASSUME NEW j \in 1..Len(requests[p]), Wanting(p, s, j)
                   PROVE  Asks(p, s)'
        BY DEF Asks
      <4>1. j # 1
        BY <1>11
      <4>2. j - 1 \in 1..Len(requests'[p]) /\ (j - 1) + 1 = j
        BY <1>7, <4>1
      <4>3. Wanting(p, s, j - 1)'
        BY <1>6, <4>2
      <4> QED
        BY <4>2, <4>3 DEF Asks
    <3> QED
      BY <3>1, <3>2
  <2> QED
    BY <1>1, <1>9, <2>1, <2>2 DEF MatchedAt
<1> QED
  BY <1>10, <1>11

\* Nothing is lost when the last publisher to flush gives up its handles.
LEMMA PubKeepsMatched ==
  ASSUME Regular, RegularInv, Matched, NEW p \in Pubs, PubStep(p)
  PROVE  Matched'
<1>0. /\ TypeOK /\ AbortedOnlyByCancel /\ RoundInv /\ ~pubAborted
  BY DEF RegularInv, RoundInv, MeetInv, Quotas, AbortedOnlyByCancel, TypeOK
<1> SUFFICES ASSUME NEW q \in Pubs, NEW s \in Subs
             PROVE  MatchedAt(q, s)'
  BY DEF Matched
<1>1. MatchedAt(q, s) /\ <<q, s>> \in Pairs
  BY DEF Matched, Pairs
<1>2. CASE Serve(p)
  <2>1. CASE q = p
    BY <1>0, <1>1, <1>2, <2>1, ServeMatches
  <2>2. CASE q # p
    <3>1. requests'[q] = requests[q] /\ gets' = gets
      BY <1>0, <1>2, <2>2 DEF Serve, TypeOK
    <3>2. \A s1 : <<p, s1>> # <<q, s>>
      BY <2>2
    <3>3. puts'[<<q, s>>] = puts[<<q, s>>]
      <4>1. puts' = puts \/ \E s1 : puts' = [puts EXCEPT ![<<p, s1>>] = @ + 1]
        BY <1>2 DEF Serve
      <4> QED
        BY <1>0, <1>1, <3>2, <4>1 DEF TypeOK
    <3> QED
      BY <1>1, <3>1, <3>3, MatchedApart
  <2> QED
    BY <2>1, <2>2
<1>3. CASE CloseFlushPub(p)
  <2>1. AllOver(puts) /\ DrainPuts /\ requests' = requests
    BY <1>0, <1>3 DEF CloseFlushPub, PubCloseOver, messages
  <2>2. puts[<<q, s>>] = 0 /\ gets[<<q, s>>] \in Nat
    BY <1>0, <1>1, <2>1 DEF AllOver, TypeOK
  <2>3. puts'[<<q, s>>] = 0
    BY <1>1, <2>1 DEF DrainPuts, NoActivity
  <2>4. gets'[<<q, s>>] = IF gets[<<q, s>>] > puts[<<q, s>>]
                          THEN gets[<<q, s>>] - puts[<<q, s>>] ELSE 0
    BY <1>1, <2>1 DEF DrainPuts, Unmatched
  <2>5. gets'[<<q, s>>] = gets[<<q, s>>]
    BY <2>2, <2>4
  <2> QED
    BY <1>1, <2>1, <2>2, <2>3, <2>5, MatchedApart
<1>4. CASE ~Serve(p) /\ ~CloseFlushPub(p)
  <2>1. requests' = requests /\ puts' = puts /\ gets' = gets
    BY <1>0, <1>4
    DEF PubStep, Open, BeginPub, LockPub, Recheck, Flush, Put, EndPub, Commit,
        EndServe, ClearPub, ClosePub, CloseLastPub, transport, messages, activities
  <2> QED
    BY <1>1, <2>1, MatchedApart
<1> QED
  BY <1>2, <1>3, <1>4

\* A get asks every publisher at most once, when it owes nothing to the getter.
LEMMA GetMatches ==
  ASSUME Regular, TypeOK, RoundInv, AskedWithin, NEW s \in Subs,
         NEW wanted \in SUBSET Pubs, Get(s, wanted),
         NEW p \in Pubs, NEW r \in Subs, MatchedAt(p, r)
  PROVE  MatchedAt(p, r)'
<1> DEFINE x == <<p, r>>
<1> DEFINE new == [from |-> s, wants |-> p \in wanted]
<1>1. pc[s] = "tx" /\ wanted \X {s} \subseteq rdv /\ publishers = Pubs
  <2>1. pc[s] = "tx"
    BY DEF Get, At
  <2> QED
    BY <2>1, TransactionOpen
<1>2. /\ puts' = puts
      /\ gets' = [y \in Pairs |-> IF y \in wanted \X {s} THEN gets[y] + 1 ELSE gets[y]]
      /\ requests' = [q \in Pubs |->
           IF q \in publishers \cup wanted
           THEN Append(requests[q], [from |-> s, wants |-> q \in wanted])
           ELSE requests[q]]
  BY <1>1 DEF Get
<1>3. /\ x \in Pairs /\ puts[x] \in Nat /\ gets[x] \in Nat
      /\ requests[p] \in Seq(Request) /\ new \in Request
  <2>1. new \in Request
    BY DEF Request
  <2> HIDE DEF new
  <2> QED
    BY <2>1 DEF Pairs, TypeOK
<1>n. PICK n \in Nat : n = Len(requests[p])
  BY <1>3
<1>4. requests'[p] = Append(requests[p], new)
  BY <1>1, <1>2
<1>5. new.from = s /\ new.wants = (p \in wanted)
  OBVIOUS
<1> HIDE DEF new
<1>6. /\ Len(requests'[p]) = n + 1
      /\ \A i \in 1..n : requests'[p][i] = requests[p][i]
      /\ requests'[p][n + 1] = new
  BY <1>n, <1>3, <1>4
<1>7. r = s /\ p \in wanted <=> new = [from |-> r, wants |-> TRUE]
  <2>1. new = [from |-> r, wants |-> TRUE] <=> new.from = r /\ new.wants = TRUE
    BY <1>3, WantsIs
  <2>2. new.wants = TRUE <=> p \in wanted
    BY <1>5
  <2> QED
    BY <1>5, <2>1, <2>2
<1>8. \A i \in 1..Len(requests'[p]) :
        Wanting(p, r, i)' <=> \/ i \in 1..n /\ Wanting(p, r, i)
                              \/ i = n + 1 /\ r = s /\ p \in wanted
  <2> SUFFICES ASSUME NEW i \in 1..Len(requests'[p])
               PROVE  Wanting(p, r, i)' <=> \/ i \in 1..n /\ Wanting(p, r, i)
                                            \/ i = n + 1 /\ r = s /\ p \in wanted
    OBVIOUS
  <2>1. (i \in 1..n /\ i # n + 1) \/ (i = n + 1 /\ i \notin 1..n)
    BY <1>n, <1>6
  <2>2. CASE i \in 1..n /\ i # n + 1
    BY <1>6, <2>2 DEF Wanting
  <2>3. CASE i = n + 1 /\ i \notin 1..n
    <3>1. requests'[p][i] = new
      BY <1>6, <2>3
    <3> QED
      BY <1>7, <2>3, <3>1 DEF Wanting
  <2> QED
    BY <2>1, <2>2, <2>3
<1>9. \A i \in 1..n : i \in 1..Len(requests'[p])
  BY <1>n, <1>6
<1>10. n + 1 \in 1..Len(requests'[p])
  BY <1>n, <1>6
<1>12. CASE ~(r = s /\ p \in wanted)
  <2>1. gets'[x] = gets[x]
    BY <1>2, <1>3, <1>12
  <2>2. Asks(p, r)' <=> Asks(p, r)
    BY <1>n, <1>8, <1>9, <1>12 DEF Asks
  <2>3. AsksOnce(p, r)'
    BY <1>n, <1>8, <1>12 DEF AsksOnce, MatchedAt
  <2> QED
    BY <1>2, <2>1, <2>2, <2>3 DEF MatchedAt
<1>13. CASE r = s /\ p \in wanted
  <2>1. gets[x] = 0
    BY <1>1, <1>3, <1>13 DEF AskedWithin, Got, Mid
  <2>2. ~Asks(p, r)
    BY <1>3, <2>1 DEF MatchedAt
  <2>3. puts[x] = 0
    BY <2>1, <2>2 DEF MatchedAt
  <2>4. gets'[x] = 1
    BY <1>2, <1>3, <1>13, <2>1
  <2>5. Asks(p, r)'
    BY <1>8, <1>10, <1>13 DEF Asks
  <2>6. AsksOnce(p, r)'
    <3>1. \A i \in 1..Len(requests'[p]) : Wanting(p, r, i)' => i = n + 1
      BY <1>n, <1>8, <2>2 DEF Asks
    <3> QED
      BY <3>1 DEF AsksOnce
  <2> QED
    BY <1>2, <2>3, <2>4, <2>5, <2>6 DEF MatchedAt
<1> QED
  BY <1>12, <1>13

\* Nor when a subscriber closes.
LEMMA SubKeepsMatched ==
  ASSUME Regular, RegularInv, AskedWithin, Matched, NEW s \in Subs, SubStep(s)
  PROVE  Matched'
<1>0. /\ TypeOK /\ AbortedOnlyByCancel /\ RoundInv /\ ~subAborted
  BY DEF RegularInv, RoundInv, MeetInv, Quotas, AbortedOnlyByCancel, TypeOK
<1> SUFFICES ASSUME NEW p \in Pubs, NEW r \in Subs
             PROVE  MatchedAt(p, r)'
  BY DEF Matched
<1>1. MatchedAt(p, r) /\ <<p, r>> \in Pairs
  BY DEF Matched, Pairs
<1>2. CASE \E wanted \in SUBSET Pubs : Get(s, wanted)
  BY <1>0, <1>1, <1>2, GetMatches
<1>3. CASE CloseFlushSub(s)
  <2>1. AllOver(gets) /\ DrainGets /\ requests' = requests
    BY <1>0, <1>3 DEF CloseFlushSub, messages
  <2>2. gets[<<p, r>>] = 0 /\ puts[<<p, r>>] \in Nat
    BY <1>0, <1>1, <2>1 DEF AllOver, TypeOK
  <2>3. gets'[<<p, r>>] = 0
    BY <1>1, <2>1 DEF DrainGets, NoActivity
  <2>4. puts'[<<p, r>>] = IF puts[<<p, r>>] > gets[<<p, r>>]
                          THEN puts[<<p, r>>] - gets[<<p, r>>] ELSE 0
    BY <1>1, <2>1 DEF DrainGets, Unmatched
  <2>5. puts'[<<p, r>>] = puts[<<p, r>>]
    BY <2>2, <2>4
  <2> QED
    BY <1>1, <2>1, <2>2, <2>3, <2>5, MatchedApart
<1>4. CASE ~CloseFlushSub(s) /\ ~\E wanted \in SUBSET Pubs : Get(s, wanted)
  <2>1. requests' = requests /\ puts' = puts /\ gets' = gets
    BY <1>0, <1>4
    DEF SubStep, Open, BeginSub, AwaitFirst, StartSub, AwaitCompleted, EndSub, Collect,
        Over, ReleaseSub, CloseSub, CloseLastSub, transport, messages, activities
  <2> QED
    BY <1>1, <2>1, MatchedApart
<1> QED
  BY <1>2, <1>3, <1>4

\* A communication ends on both sides at once.
LEMMA TransferMatches ==
  ASSUME TypeOK, Matched, AskedWithin, NEW x \in Pairs, Transfer(x)
  PROVE  Matched' /\ AskedWithin'
<1>1. /\ puts' = [puts EXCEPT ![x] = @ - 1] /\ gets' = [gets EXCEPT ![x] = @ - 1]
      /\ puts[x] > 0 /\ gets[x] > 0 /\ requests' = requests /\ pc' = pc
      /\ puts \in [Pairs -> Nat] /\ gets \in [Pairs -> Nat]
  BY DEF Transfer, InFlight, TypeOK, messages
<1>2. ASSUME NEW p \in Pubs, NEW s \in Subs
      PROVE  MatchedAt(p, s)'
  <2>1. MatchedAt(p, s) /\ <<p, s>> \in Pairs
    BY DEF Matched, Pairs
  <2>2. CASE x # <<p, s>>
    BY <1>1, <2>1, <2>2, MatchedApart
  <2>3. CASE x = <<p, s>>
    <3>1. (Asks(p, s)' <=> Asks(p, s)) /\ (AsksOnce(p, s)' <=> AsksOnce(p, s))
      BY <1>1 DEF Asks, AsksOnce, Wanting
    <3>2. puts'[x] = puts[x] - 1 /\ gets'[x] = gets[x] - 1
          /\ puts[x] \in Nat /\ gets[x] \in Nat
      BY <1>1
    <3>3. gets[x] <= 1 /\ gets[x] = IF Asks(p, s) THEN puts[x] + 1 ELSE puts[x]
      BY <2>1, <2>3 DEF MatchedAt
    <3>4. gets'[x] <= 1 /\ gets'[x] = IF Asks(p, s) THEN puts'[x] + 1 ELSE puts'[x]
      BY <1>1, <3>2, <3>3
    <3> QED
      BY <2>1, <2>3, <3>1, <3>4 DEF MatchedAt
  <2> QED
    BY <2>2, <2>3
<1>3. AskedWithin'
  <2>1. \A y \in Pairs : gets[y] = 0 => gets'[y] = 0
    BY <1>1
  <2> QED
    BY <1>1, <2>1 DEF AskedWithin
<1> QED
  BY <1>2, <1>3 DEF Matched

-----------------------------------------------------------------------------
(* The invariant holds                                                      *)

LEMMA LiveInit ==
  ASSUME Regular, Init
  PROVE  LiveInv
<1>1. /\ \A p \in Pubs : pc[p] = "new" /\ begun[p] = 0 /\ requests[p] = <<>>
      /\ \A s \in Subs : pc[s] = "new" /\ begun[s] = 0
      /\ \A x \in Pairs : puts[x] = 0 /\ gets[x] = 0
      /\ streamOpen
  BY PubsAndSubs DEF Init, NoActivity
<1>2. Pubs # {} /\ Subs # {}
  BY DEF Regular
<1>3. NotAllWait /\ ClosedTogether /\ StillOpen /\ SubSized
  BY <1>1, <1>2 DEF NotAllWait, ClosedTogether, StillOpen, SubSized, HasMet, Ended,
                 AtBarrier
<1>4. PublishersSleepForAReason /\ AskedWithin
  BY <1>1 DEF PublishersSleepForAReason, AskedWithin
<1>5. Matched
  <2> SUFFICES ASSUME NEW p \in Pubs, NEW s \in Subs
               PROVE  MatchedAt(p, s)
    BY DEF Matched
  <2>1. <<p, s>> \in Pairs /\ Len(requests[p]) = 0 /\ 1..0 = {}
    BY <1>1 DEF Pairs
  <2>2. ~Asks(p, s) /\ AsksOnce(p, s)
    BY <2>1 DEF Asks, AsksOnce
  <2>3. puts[<<p, s>>] = 0 /\ gets[<<p, s>>] = 0
    BY <1>1, <2>1
  <2> QED
    BY <2>2, <2>3 DEF MatchedAt
<1> QED
  BY <1>3, <1>4, <1>5 DEF LiveInv

LEMMA LiveNext ==
  ASSUME Regular, Known, Known', LiveInv, [Next]_vars
  PROVE  LiveInv'
<1>0. /\ RegularInv /\ RegularInv' /\ TypeOK /\ EndInv' /\ StartingBalanced'
  BY DEF Known, RegularInv
<1>1. CASE \E p \in Pubs : PubStep(p)
  BY <1>0, <1>1, PubGathers, PubKeepsOpen, PubKeepsSized, PubKeepsSleep, AskedStays,
     PubKeepsMatched DEF LiveInv
<1>2. CASE \E s \in Subs : SubStep(s)
  BY <1>0, <1>2, SubGathers, SubKeepsOpen, SubKeepsSized, SubKeepsSleep, AskedStays,
     SubKeepsMatched DEF LiveInv
<1>3. CASE \E x \in Pairs : Transfer(x)
  <2>1. Matched' /\ AskedWithin'
    BY <1>0, <1>3, TransferMatches DEF LiveInv
  <2>2. UNCHANGED <<pc, begun, subBarrier, pubStreamEnded, streamOpen, currentPub>>
    BY <1>3 DEF Transfer, client, registry, status, pubSide
  <2> QED
    BY <2>1, <2>2
    DEF LiveInv, NotAllWait, ClosedTogether, StillOpen, SubSized, HasMet,
        PublishersSleepForAReason
<1>4. CASE UNCHANGED vars
  <2>1. UNCHANGED <<pc, begun, subBarrier, pubStreamEnded, streamOpen, currentPub,
                    requests, puts, gets>>
    BY <1>4 DEF vars, client, registry, status, pubSide, transport, messages, activities
  <2> QED
    BY <2>1
    DEF LiveInv, NotAllWait, ClosedTogether, StillOpen, SubSized, HasMet,
        PublishersSleepForAReason, AskedWithin, Matched, MatchedAt, Asks, AsksOnce,
        Wanting
<1>5. ~\E tx \in 0..MaxTx : CancelTransaction(tx)
  BY DEF CancelTransaction, Regular
<1> QED
  BY <1>1, <1>2, <1>3, <1>4, <1>5 DEF Next, Terminated

\* The inductive invariant of deadlock freedom, beside what other modules prove.
THEOREM LiveIsInvariant ==
  ASSUME Regular
  PROVE  Spec => [](Known /\ LiveInv)
<1>1. Init => LiveInv
  BY LiveInit
<1>2. Known /\ Known' /\ LiveInv /\ [Next]_vars => LiveInv'
  BY LiveNext
<1>3. Spec => []RegularInv
  BY RoundsInvariant
<1>4. Spec => []SubscribersSleepForAReason
  <2>1. MinTx > 0
    BY DEF Regular
  <2> QED
    BY <2>1, NoLostWakeUp
<1>5. Spec => []Known
  BY <1>3, <1>4, FlusherHoldsMutex, StartingIsBalanced, EndIsInOrder, PTL DEF Known
<1> QED
  BY <1>1, <1>2, <1>5, PTL DEF Spec

\* A publisher asleep waits for a subscriber that has not joined its transaction
\* yet: the last one to join notifies (StagingEngine.cpp:96-104, 223-228).
THEOREM StagingPublishersSleepForAReason ==
  ASSUME Regular
  PROVE  Spec => []PublishersSleepForAReason
<1>1. LiveInv => PublishersSleepForAReason
  BY DEF LiveInv
<1> QED
  BY <1>1, LiveIsInvariant, PTL

\* No deadlock, for any number of publishers, subscribers and transactions: until
\* everybody has closed the engine, somebody has a step, whatever the barriers,
\* the mutex, the condition variables, the requests and the communications that
\* actors wait for (StagingEngine.cpp:56-302).
THEOREM StagingNeverStuck ==
  ASSUME Regular
  PROVE  Spec => []NeverStuck
<1>1. Known /\ LiveInv => NeverStuck
  BY NobodyWaitsInVain
<1> QED
  BY <1>1, LiveIsInvariant, PTL
=============================================================================
