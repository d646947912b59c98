---------------------------- MODULE StagingSafety ----------------------------
(***************************************************************************)
(* Safety of the Staging engine for every client, proved for any number of *)
(* publishers, subscribers and transactions: the type invariant, the       *)
(* publishers' mutex, what a canceled activity means, that no subscriber   *)
(* sleeps through what it waits for, and what an end of a transaction      *)
(* says about the data.                                                    *)
(***************************************************************************)
EXTENDS StagingProperties, FiniteSetTheorems, TLAPS

-----------------------------------------------------------------------------
(* Positions of the actors                                                  *)

CondVars == {"cvFirst", "cvStarted", "cvCompleted"}

\* A move of one actor keeps every actor at a place of its side.
LEMMA GotoPlaces ==
  ASSUME PlacesOK(pc), NEW a \in Actors, NEW to,
         a \in Pubs => to \in PubPlaces, a \in Subs => to \in SubPlaces
  PROVE  /\ PlacesOK(Goto(a, to))
         /\ Goto(a, to)[a] = to
         /\ \A b \in Actors : b # a => Goto(a, to)[b] = pc[b]
BY DEF PlacesOK, Goto, Actors

\* What a notification may do to an actor that goes from one place to another.
Wakes(from, to) == \/ from = "cvFirst" /\ to = "first"
                   \/ from = "cvStarted" /\ to = "recheck"
                   \/ from = "cvCompleted" /\ to = "await"

\* A notification keeps every actor at a place of its side, and moves nobody
\* in or out of a transaction.
LEMMA NotifyPlaces ==
  ASSUME NEW f, PlacesOK(f), NEW cvs \in SUBSET CondVars
  PROVE  /\ PlacesOK(Notify(f, cvs))
         /\ \A a \in Actors : f[a] \notin cvs => Notify(f, cvs)[a] = f[a]
         /\ \A a \in Actors : Notify(f, cvs)[a] \notin cvs
         /\ \A a \in Actors : Notify(f, cvs)[a] = f[a]
                               \/ Wakes(f[a], Notify(f, cvs)[a])
         /\ \A s \in Subs :
              Notify(f, cvs)[s] \in Counted <=> f[s] \in Counted
<1>1. \A p \in Pubs : f[p] \in cvs => Woken(f[p]) = "recheck"
  BY DEF PlacesOK, PubPlaces, CondVars, Woken
<1>2. \A s \in Subs : f[s] \in cvs =>
        \/ f[s] = "cvFirst" /\ Woken(f[s]) = "first"
        \/ f[s] = "cvCompleted" /\ Woken(f[s]) = "await"
  BY DEF PlacesOK, SubPlaces, CondVars, Woken
<1>3. PlacesOK(Notify(f, cvs))
  BY <1>1, <1>2 DEF PlacesOK, Notify, Actors, PubPlaces, SubPlaces
<1>4. \A a \in Actors : /\ f[a] \notin cvs => Notify(f, cvs)[a] = f[a]
                        /\ f[a] \in cvs => Wakes(f[a], Notify(f, cvs)[a])
  BY <1>1, <1>2 DEF Notify, Actors, Wakes, PlacesOK, PubPlaces, CondVars
<1>5. \A x, y : Wakes(x, y) => y \notin CondVars /\ (y \in Counted <=> x \in Counted)
  BY DEF Wakes, CondVars, Counted
<1> QED
  BY <1>3, <1>4, <1>5 DEF Actors

\* Barrier::wait moves the caller to one of two places, and the actors it
\* resumes stay inside, or outside, of the transaction they were in.
LEMMA ArrivePubs ==
  ASSUME PlacesOK(pc), NEW p \in Pubs, NEW size,
         NEW at \in PubPlaces, NEW last \in PubPlaces,
         Arrive(p, Pubs, size, at, last)
  PROVE  /\ PlacesOK(pc')
         /\ \A s \in Subs : pc'[s] = pc[s]
         /\ pc'[p] \in {at, last}
         /\ \A q \in Pubs : q # p => \/ pc'[q] = pc[q]
                                     \/ /\ pc[q] \in AtBarrier
                                        /\ pc'[q] \in {"serve", "idle", "closed"}
<1> DEFINE waiting == {b \in Pubs : pc[b] \in AtBarrier}
<1>1. \A q \in Pubs : q \in waiting => Resumed(q) \in {"serve", "idle", "closed"}
  BY DEF Resumed, AtBarrier
<1>2. Pubs \cap Subs = {} /\ Pubs \subseteq Actors /\ Subs \subseteq Actors
  BY ActorsAssumption DEF Actors
<1>3. CASE pc' = Goto(p, at)
  BY <1>2, <1>3, GotoPlaces
<1>4. CASE pc' = [b \in Actors |-> IF b = p THEN last
                                   ELSE IF b \in waiting THEN Resumed(b)
                                   ELSE pc[b]]
  <2>1. /\ \A s \in Subs : pc'[s] = pc[s]
        /\ pc'[p] = last
        /\ \A q \in Pubs : q # p => \/ pc'[q] = pc[q]
                                    \/ /\ pc[q] \in AtBarrier
                                       /\ pc'[q] \in {"serve", "idle", "closed"}
    BY <1>1, <1>2, <1>4
  <2>2. pc' = [b \in Actors |-> pc'[b]]
    BY <1>4
  <2>3. {"serve", "idle", "closed"} \subseteq PubPlaces
    BY DEF PubPlaces
  <2> QED
    BY <1>2, <2>1, <2>2, <2>3 DEF PlacesOK, Actors
<1> QED
  BY <1>3, <1>4 DEF Arrive

LEMMA ArriveSubs ==
  ASSUME PlacesOK(pc), NEW s \in Subs, NEW size,
         NEW at \in SubPlaces, NEW last \in SubPlaces,
         Arrive(s, Subs, size, at, last)
  PROVE  /\ PlacesOK(pc')
         /\ \A p \in Pubs : pc'[p] = pc[p]
         /\ pc'[s] \in {at, last}
         /\ \A r \in Subs : r # s => \/ pc'[r] = pc[r]
                                     \/ /\ pc[r] = "endBarrier"
                                        /\ pc'[r] = "over"
                                     \/ /\ pc[r] = "overBarrier"
                                        /\ pc'[r] = "release"
                                     \/ /\ pc[r] = "closeBarrier"
                                        /\ pc'[r] = "closed"
<1> DEFINE waiting == {b \in Subs : pc[b] \in AtBarrier}
<1>1. Pubs \cap Subs = {} /\ Pubs \subseteq Actors /\ Subs \subseteq Actors
  BY ActorsAssumption DEF Actors
<1>2. \A r \in Subs : r \in waiting =>
        \/ pc[r] = "endBarrier" /\ Resumed(r) = "over"
        \/ pc[r] = "overBarrier" /\ Resumed(r) = "release"
        \/ pc[r] = "closeBarrier" /\ Resumed(r) = "closed"
  BY <1>1 DEF Resumed, AtBarrier
<1>3. CASE pc' = Goto(s, at)
  BY <1>1, <1>3, GotoPlaces
<1>4. CASE pc' = [b \in Actors |-> IF b = s THEN last
                                   ELSE IF b \in waiting THEN Resumed(b)
                                   ELSE pc[b]]
  <2>1. /\ \A p \in Pubs : pc'[p] = pc[p]
        /\ pc'[s] = last
        /\ \A r \in Subs : r # s => \/ pc'[r] = pc[r]
                                    \/ pc[r] = "endBarrier" /\ pc'[r] = "over"
                                    \/ pc[r] = "overBarrier" /\ pc'[r] = "release"
                                    \/ pc[r] = "closeBarrier" /\ pc'[r] = "closed"
    BY <1>1, <1>2, <1>4
  <2>2. pc' = [b \in Actors |-> pc'[b]]
    BY <1>4
  <2>3. {"over", "release", "closed"} \subseteq SubPlaces
    BY DEF SubPlaces
  <2> QED
    BY <1>1, <2>1, <2>2, <2>3 DEF PlacesOK, Actors
<1> QED
  BY <1>3, <1>4 DEF Arrive

-----------------------------------------------------------------------------
(* What a step does to the positions and to num_subscribers_starting_       *)

Inside(a) == pc[a] \in Counted
StaysInside(a) == pc'[a] \in Counted <=> pc[a] \in Counted

\* Actor a did not move, or was only woken.
Waits(a) == pc'[a] = pc[a] \/ Wakes(pc[a], pc'[a])

LEMMA WaitsInside == \A a : Waits(a) => StaysInside(a)
BY DEF Waits, Wakes, StaysInside, Counted

\* A publisher's step only wakes subscribers, and counts none.
LEMMA PubMoves ==
  ASSUME PlacesOK(pc), NEW p \in Pubs, PubStep(p)
  PROVE  /\ PlacesOK(pc')
         /\ \A s \in Subs : Waits(s)
         /\ numStarting' = numStarting
<1>0. p \in Actors /\ p \notin Subs /\ pc[p] \in PubPlaces
  BY ActorsAssumption DEF Actors, PlacesOK
<1> USE DEF At
<1>1. CASE Open(p)
  BY <1>0, <1>1, GotoPlaces DEF Open, PubPlaces, Waits, Actors, subSide
<1>2. CASE BeginPub(p)
  <2>1. PlacesOK(Goto(p, "lock")) /\ PlacesOK(Goto(p, "canceled"))
    BY <1>0, GotoPlaces DEF PubPlaces
  <2>2. \A s \in Subs : Goto(p, "lock")[s] = pc[s] /\ Goto(p, "canceled")[s] = pc[s]
    BY <1>0 DEF Goto, PlacesOK, Actors
  <2>3. /\ PlacesOK(Notify(Goto(p, "lock"), {"cvFirst"}))
        /\ \A s \in Subs :
             LET to == Notify(Goto(p, "lock"), {"cvFirst"})[s]
             IN  to = Goto(p, "lock")[s] \/ Wakes(Goto(p, "lock")[s], to)
    BY <2>1, NotifyPlaces DEF CondVars, Actors
  <2> QED
    BY <1>2, <2>1, <2>2, <2>3 DEF BeginPub, Waits, subSide
<1>3. CASE LockPub(p) \/ Recheck(p) \/ Flush(p) \/ Put(p) \/ ClearPub(p)
  <2>1. PubWaitOutcome \in PubPlaces
    BY DEF PubWaitOutcome, PubPlaces
  <2>2. \/ pc' = pc
        \/ \E to \in PubPlaces : pc' = Goto(p, to)
    BY <1>3, <2>1 DEF LockPub, Recheck, Flush, Put, ClearPub, AwaitSubs, PubPlaces
  <2> QED
    BY <1>0, <1>3, <2>2, GotoPlaces
    DEF Waits, Actors, subSide, LockPub, Recheck, Flush, Put, ClearPub
<1>4. CASE EndPub(p)
  <2>1. {"endBarrier", "commit"} \subseteq PubPlaces
    BY DEF PubPlaces
  <2> QED
    BY <1>4, <2>1, ArrivePubs DEF EndPub, Waits, subSide
<1>5. CASE EndServe(p)
  <2>1. {"overBarrier", "clearFlag"} \subseteq PubPlaces
    BY DEF PubPlaces
  <2> QED
    BY <1>5, <2>1, ArrivePubs DEF EndServe, Waits, subSide
<1>6. CASE Commit(p) \/ CloseLastPub(p)
  <2>1. \E to \in PubPlaces, cvs \in SUBSET CondVars :
          pc' = Goto(p, to) \/ pc' = Notify(Goto(p, to), cvs)
    BY <1>6 DEF Commit, CloseLastPub, PubPlaces, CondVars, EndWakes
  <2>2. PICK to \in PubPlaces, cvs \in SUBSET CondVars :
          pc' = Goto(p, to) \/ pc' = Notify(Goto(p, to), cvs)
    BY <2>1
  <2>3. PlacesOK(Goto(p, to)) /\ \A s \in Subs : Goto(p, to)[s] = pc[s]
    BY <1>0, GotoPlaces DEF Actors
  <2> QED
    BY <1>6, <2>2, <2>3, NotifyPlaces DEF Waits, Actors, subSide, Commit, CloseLastPub
<1>7. CASE Serve(p)
  <2>1. pc' = pc \/ pc' = Goto(p, "crashed")
    BY <1>7 DEF Serve
  <2> QED
    BY <1>0, <1>7, <2>1, GotoPlaces DEF Serve, Waits, subSide, Actors, PubPlaces
<1>8. CASE ClosePub(p) \/ CloseFlushPub(p)
  <2>1. {"closed", "closeBarrier", "closeLast", "closeFlush"} \subseteq PubPlaces
    BY DEF PubPlaces
  <2>2. \/ \E to \in PubPlaces : pc' = Goto(p, to)
        \/ Arrive(p, Pubs, pubBarrier, "closeBarrier", "closeLast")
    BY <1>8, <2>1 DEF ClosePub, CloseFlushPub, LeavePub, ArriveToClose
  <2>3. CASE \E to \in PubPlaces : pc' = Goto(p, to)
    BY <1>0, <1>8, <2>3, GotoPlaces
    DEF ClosePub, CloseFlushPub, Waits, Actors, subSide
  <2>4. CASE Arrive(p, Pubs, pubBarrier, "closeBarrier", "closeLast")
    BY <1>8, <2>1, <2>4, ArrivePubs
    DEF ClosePub, CloseFlushPub, Waits, subSide
  <2> QED
    BY <2>2, <2>3, <2>4
<1> QED
  BY <1>1, <1>2, <1>3, <1>4, <1>5, <1>6, <1>7, <1>8 DEF PubStep

\* How the step of a subscriber moves it and counts it.
Joins(s) == ~Inside(s) /\ Inside(s)' /\ numStarting' = numStarting + 1
Leaves(s) == Inside(s) /\ ~Inside(s)' /\ numStarting' = numStarting - 1
Stays(s) == StaysInside(s) /\ numStarting' = numStarting

\* Another subscriber is left alone, woken, or resumed from a barrier.
Bystander(r) == Waits(r) \/ pc'[r] \in {"over", "release", "closed"}

LEMMA SubMoves ==
  ASSUME PlacesOK(pc), NEW s \in Subs, SubStep(s)
  PROVE  /\ PlacesOK(pc')
         /\ \A p \in Pubs : Waits(p)
         /\ \A r \in Subs : r # s => StaysInside(r) /\ Bystander(r)
         /\ Joins(s) \/ Leaves(s) \/ Stays(s)
<1>0. s \in Actors /\ s \notin Pubs /\ pc[s] \in SubPlaces
  BY ActorsAssumption DEF Actors, PlacesOK
<1> USE DEF At
<1>a. ASSUME NEW to \in SubPlaces, pc' = Goto(s, to)
      PROVE  /\ PlacesOK(pc') /\ pc'[s] = to
             /\ \A p \in Pubs : Waits(p)
             /\ \A r \in Subs : r # s => StaysInside(r) /\ Bystander(r)
  BY <1>0, <1>a, GotoPlaces DEF StaysInside, Actors, Waits, Bystander
<1>b. ASSUME JoinTransaction(s), ~Inside(s)
      PROVE  /\ PlacesOK(pc')
             /\ \A p \in Pubs : Waits(p)
             /\ \A r \in Subs : r # s => StaysInside(r) /\ Bystander(r)
             /\ Joins(s)
  <2>1. PlacesOK(Goto(s, "await")) /\ Goto(s, "await")[s] = "await"
        /\ \A r \in Actors : r # s => Goto(s, "await")[r] = pc[r]
    BY <1>0, GotoPlaces DEF SubPlaces, Actors
  <2>2. /\ PlacesOK(Notify(Goto(s, "await"), {"cvStarted"}))
        /\ \A p \in Pubs :
             LET to == Notify(Goto(s, "await"), {"cvStarted"})[p]
             IN  to = Goto(s, "await")[p] \/ Wakes(Goto(s, "await")[p], to)
        /\ \A r \in Subs :
             LET to == Notify(Goto(s, "await"), {"cvStarted"})[r]
             IN  to = Goto(s, "await")[r] \/ Wakes(Goto(s, "await")[r], to)
        /\ \A r \in Subs : Notify(Goto(s, "await"), {"cvStarted"})[r] \in Counted
                             <=> Goto(s, "await")[r] \in Counted
    BY <2>1, NotifyPlaces DEF CondVars, Actors
  <2> QED
    BY <1>0, <1>b, <2>1, <2>2
    DEF JoinTransaction, Joins, Inside, StaysInside, Counted, Waits, Bystander, Actors
<1>1. CASE Open(s)
  BY <1>0, <1>1, <1>a
  DEF Open, SubPlaces, Stays, StaysInside, Counted, subSide
<1>2. CASE BeginSub(s)
  <2>1. ~Inside(s)
    BY <1>2 DEF BeginSub, Begins, Inside, Counted
  <2>2. CASE JoinTransaction(s)
    BY <2>1, <2>2, <1>b
  <2>3. CASE pc' \in {Goto(s, "canceled"), Goto(s, "first")} /\ UNCHANGED subSide
    BY <2>1, <2>3, <1>a DEF SubPlaces, Stays, StaysInside, Counted, Inside, subSide
  <2> QED
    BY <1>2, <2>2, <2>3 DEF BeginSub
<1>3. CASE AwaitFirst(s)
  <2>1. \E to \in {"canceled", "start", "eos", "cvFirst"} : pc' = Goto(s, to)
    BY <1>3 DEF AwaitFirst
  <2> QED
    BY <1>3, <2>1, <1>a
    DEF AwaitFirst, SubPlaces, Stays, StaysInside, Counted, Inside, subSide
<1>4. CASE StartSub(s)
  BY <1>4, <1>b DEF StartSub, Inside, Counted
<1>5. CASE AwaitCompleted(s)
  BY <1>5, <1>a
  DEF AwaitCompleted, AwaitOutcome, RollBack, SubPlaces, Stays, Leaves,
      StaysInside, Counted, Inside
<1>6. CASE \E wanted \in SUBSET Pubs : Get(s, wanted)
  <2>1. pc' \in {Goto(s, "get"), Goto(s, "crashed")} /\ pc[s] = "tx"
        /\ UNCHANGED subSide
    BY <1>6 DEF Get
  <2> QED
    BY <2>1, <1>a DEF SubPlaces, Stays, StaysInside, Counted, subSide
<1>7. CASE EndSub(s)
  <2>1. {"endBarrier", "collect"} \subseteq SubPlaces
    BY DEF SubPlaces
  <2>2. pc[s] = "get" /\ Arrive(s, Subs, subBarrier', "endBarrier", "collect")
        /\ UNCHANGED subSide
    BY <1>7 DEF EndSub
  <2> QED
    BY <2>1, <2>2, ArriveSubs DEF Stays, StaysInside, Counted, Waits,
      Bystander, subSide
<1>8. CASE Collect(s)
  BY <1>8, <1>a
  DEF Collect, SubPlaces, Stays, Leaves, StaysInside, Counted, Inside
<1>9. CASE Over(s)
  <2>1. {"overBarrier", "clearFlag"} \subseteq SubPlaces
    BY DEF SubPlaces
  <2>2. pc[s] = "over" /\ Arrive(s, Subs, subBarrier, "overBarrier", "clearFlag")
        /\ UNCHANGED subSide
    BY <1>9 DEF Over
  <2> QED
    BY <2>1, <2>2, ArriveSubs DEF Stays, StaysInside, Counted, Waits,
      Bystander, subSide
<1>10. CASE ReleaseSub(s)
  BY <1>10, <1>a
  DEF ReleaseSub, SubPlaces, Leaves, Counted, Inside
<1>11. CASE CloseSub(s) \/ CloseFlushSub(s)
  <2>1. {"closed", "closeBarrier", "closeLast", "closeFlush"} \subseteq SubPlaces
    BY DEF SubPlaces
  <2>2. pc[s] \in {"idle", "canceled", "eos", "closeFlush"} /\ numStarting' = numStarting
    BY <1>11 DEF CloseSub, Closes, CloseFlushSub, subSide
  <2>3. \/ pc' \in {Goto(s, "closed"), Goto(s, "closeFlush")}
        \/ Arrive(s, Subs, subBarrier, "closeBarrier", "closeLast")
    BY <1>11 DEF CloseSub, CloseFlushSub, LeaveSub, ArriveToClose
  <2>4. CASE pc' \in {Goto(s, "closed"), Goto(s, "closeFlush")}
    BY <2>1, <2>2, <2>4, <1>a DEF Stays, StaysInside, Counted
  <2>5. CASE Arrive(s, Subs, subBarrier, "closeBarrier", "closeLast")
    BY <2>1, <2>2, <2>5, ArriveSubs DEF Stays, StaysInside, Counted, Waits,
                                             Bystander
  <2> QED
    BY <2>3, <2>4, <2>5
<1>12. CASE CloseLastSub(s)
  BY <1>12, <1>a
  DEF CloseLastSub, SubPlaces, Stays, StaysInside, Counted, subSide
<1> QED
  BY <1>1, <1>2, <1>3, <1>4, <1>5, <1>6, <1>7, <1>8, <1>9, <1>10, <1>11, <1>12
  DEF SubStep

-----------------------------------------------------------------------------
(* Type correctness and the count of the subscribers inside a transaction   *)

\* The counter follows the subscribers that join and leave.
LEMMA CountFollows ==
  ASSUME numStarting \in Nat, StartingBalanced,
         \/ (\A s \in Subs : StaysInside(s)) /\ numStarting' = numStarting
         \/ \E s \in Subs : /\ \A r \in Subs : r # s => StaysInside(r)
                            /\ Joins(s) \/ Leaves(s) \/ Stays(s)
  PROVE  StartingBalanced' /\ numStarting' \in Nat
<1> DEFINE I == {s \in Subs : pc[s] \in Counted}
           J == {s \in Subs : pc'[s] \in Counted}
<1>1. IsFiniteSet(I)
  BY ActorsAssumption, FS_Subset
<1>2. numStarting = Cardinality(I)
  BY DEF StartingBalanced
<1>3. CASE I = J /\ numStarting' = numStarting
  BY <1>2, <1>3 DEF StartingBalanced, Counted
<1>4. ASSUME NEW s \in Subs, \A r \in Subs : r # s => StaysInside(r), Joins(s)
      PROVE  StartingBalanced' /\ numStarting' \in Nat
  <2>1. s \notin I /\ J = I \cup {s} /\ numStarting' = numStarting + 1
    BY <1>4 DEF Joins, StaysInside, Inside
  <2>2. Cardinality(J) = Cardinality(I) + 1
    BY <1>1, <2>1, FS_AddElement
  <2> QED
    BY <1>2, <2>1, <2>2 DEF StartingBalanced, Counted
<1>5. ASSUME NEW s \in Subs, \A r \in Subs : r # s => StaysInside(r), Leaves(s)
      PROVE  StartingBalanced' /\ numStarting' \in Nat
  <2>1. s \in I /\ J = I \ {s} /\ numStarting' = numStarting - 1
    BY <1>5 DEF Leaves, StaysInside, Inside
  <2>2. IsFiniteSet(I \ {s}) /\ Cardinality(I \ {s}) = Cardinality(I) - 1
    BY <1>1, <2>1, FS_RemoveElement, Zenon
  <2>3. Cardinality(J) \in Nat
    BY <2>1, <2>2, FS_CardinalityType
  <2> QED
    BY <1>2, <2>1, <2>2, <2>3 DEF StartingBalanced, Counted
<1>6. ASSUME NEW s \in Subs, \A r \in Subs : r # s => StaysInside(r), Stays(s)
      PROVE  I = J /\ numStarting' = numStarting
  BY <1>6 DEF Stays, StaysInside
<1>7. (\A s \in Subs : StaysInside(s)) => I = J
  BY DEF StaysInside
<1> QED
  BY <1>3, <1>4, <1>5, <1>6, <1>7

\* Every step keeps the registries, the counters and the messages typed.
DataOK ==
  /\ begun \in [Actors -> Nat] /\ plan \in [Actors -> Nat]
  /\ publishers \in SUBSET Pubs /\ subscribers \in SUBSET Subs
  /\ pubBarrier \in Nat /\ subBarrier \in Nat
  /\ currentPub \in Nat /\ completedPub \in Nat
  /\ pubInProgress \in BOOLEAN /\ pubClosing \in BOOLEAN
  /\ pubMutex \in Pubs \cup {Free}
  /\ currentSub \in Nat
  /\ subInProgress \in BOOLEAN /\ subClosing \in BOOLEAN
  /\ pubStreamEnded \in BOOLEAN /\ canceledTx \in Nat /\ streamOpen \in BOOLEAN
  /\ blocks \in SUBSET (Nat \X Pubs)
  /\ pending \in [Pubs -> Nat] /\ requests \in [Pubs -> Seq(Request)]
  /\ rdv \in SUBSET Pairs
  /\ puts \in [Pairs -> Nat] /\ gets \in [Pairs -> Nat]
  /\ pubAborted \in BOOLEAN /\ subAborted \in BOOLEAN

LEMMA TypeParts == TypeOK <=> PlacesOK(pc) /\ numStarting \in Nat /\ DataOK
BY DEF TypeOK, DataOK

LEMMA RegistrySizes ==
  ASSUME DataOK, NEW n \in Nat
  PROVE  /\ BarrierFor(n, publishers) \in Nat
         /\ BarrierFor(n, subscribers) \in Nat
         /\ ExpectedRequests \in Nat
<1>1. IsFiniteSet(publishers) /\ IsFiniteSet(subscribers)
  BY ActorsAssumption, FS_Subset DEF DataOK
<1> QED
  BY <1>1, FS_CardinalityType DEF BarrierFor, ExpectedRequests

\* Canceling and draining leave natural numbers of activities.
LEMMA DrainTypes ==
  ASSUME DataOK
  PROVE  /\ DrainPuts => /\ puts' \in [Pairs -> Nat] /\ gets' \in [Pairs -> Nat]
                         /\ pubAborted' \in BOOLEAN /\ subAborted' \in BOOLEAN
         /\ DrainGets => /\ puts' \in [Pairs -> Nat] /\ gets' \in [Pairs -> Nat]
                         /\ pubAborted' \in BOOLEAN /\ subAborted' \in BOOLEAN
<1>1. ASSUME NEW f \in [Pairs -> Nat], NEW g \in [Pairs -> Nat]
      PROVE  Unmatched(f, g) \in [Pairs -> Nat]
  BY DEF Unmatched
<1>2. NoActivity \in [Pairs -> Nat]
  BY DEF NoActivity
<1>3. puts \in [Pairs -> Nat] /\ gets \in [Pairs -> Nat]
  BY DEF DataOK
<1>4. ASSUME DrainPuts
      PROVE  /\ puts' \in [Pairs -> Nat] /\ gets' \in [Pairs -> Nat]
             /\ pubAborted' \in BOOLEAN /\ subAborted' \in BOOLEAN
  BY <1>1, <1>2, <1>3, <1>4, Zenon DEF DrainPuts
<1>5. ASSUME DrainGets
      PROVE  /\ puts' \in [Pairs -> Nat] /\ gets' \in [Pairs -> Nat]
             /\ pubAborted' \in BOOLEAN /\ subAborted' \in BOOLEAN
  BY <1>1, <1>2, <1>3, <1>5, Zenon DEF DrainGets
<1> QED
  BY <1>4, <1>5

LEMMA BeginsTypes ==
  ASSUME DataOK, NEW a \in Actors, Begins(a)
  PROVE  begun' \in [Actors -> Nat]
BY DEF DataOK, Begins

LEMMA PubData ==
  ASSUME DataOK, NEW p \in Pubs, PubStep(p)
  PROVE  DataOK'
<1> USE DEF client, registry, pubSide, subSide, status, messages, activities,
            transport
<1>1. CASE Open(p)
  BY <1>1 DEF DataOK, Open
<1>2. CASE BeginPub(p)
  <2>1. PubTx \in Nat
    BY DEF PubTx, DataOK
  <2>2. begun' \in [Actors -> Nat]
    BY <1>2, BeginsTypes DEF BeginPub, Actors
  <2>3. currentPub' \in Nat /\ pubInProgress' \in BOOLEAN
    BY <1>2, <2>1 DEF DataOK, BeginPub
  <2>4. UNCHANGED <<plan, completedPub, pubClosing, pubMutex, registry, subSide,
                    status, transport>>
    BY <1>2 DEF BeginPub
  <2> QED
    BY <2>2, <2>3, <2>4 DEF DataOK
<1>3. CASE LockPub(p) \/ Recheck(p)
  BY SMTT(30), <1>3 DEF DataOK, LockPub, Recheck, AwaitSubs
<1>4. CASE Flush(p)
  <2>1. /\ puts' \in [Pairs -> Nat] /\ gets' \in [Pairs -> Nat]
        /\ pubAborted' \in BOOLEAN /\ subAborted' \in BOOLEAN
    BY <1>4, DrainTypes DEF DataOK, Flush
  <2> QED
    BY <1>4, <2>1 DEF DataOK, Flush, AwaitSubs
<1>5. CASE Put(p)
  <2>0. ExpectedRequests \in Nat /\ pending \in [Pubs -> Nat]
    BY RegistrySizes DEF DataOK
  <2>1. pending' \in [Pubs -> Nat]
    BY <1>5, <2>0 DEF Put
  <2>2. blocks' \in SUBSET (Nat \X Pubs)
    BY <1>5 DEF DataOK, Put
  <2>3. UNCHANGED <<client, registry, pubSide, subSide, status, requests, rdv,
                    activities>>
    BY <1>5 DEF Put
  <2> QED
    BY <2>1, <2>2, <2>3 DEF DataOK
<1>6. CASE EndPub(p)
  BY <1>6, RegistrySizes DEF DataOK, EndPub
<1>7. CASE Commit(p) \/ EndServe(p) \/ ClearPub(p) \/ CloseLastPub(p)
  <2>0. completedPub' \in {completedPub, completedPub + 1}
    BY <1>7 DEF Commit, EndServe, ClearPub, CloseLastPub
  <2>1. /\ pubInProgress' \in {pubInProgress, FALSE}
        /\ streamOpen' \in {streamOpen, FALSE}
        /\ pubStreamEnded' \in {pubStreamEnded, TRUE}
    BY <1>7 DEF Commit, EndServe, ClearPub, CloseLastPub
  <2>2. UNCHANGED <<client, registry, currentPub, pubClosing, pubMutex, subSide,
                    canceledTx, transport>>
    BY <1>7 DEF Commit, EndServe, ClearPub, CloseLastPub
  <2>3. completedPub' \in Nat
    BY <2>0 DEF DataOK
  <2>4. /\ pubInProgress' \in BOOLEAN /\ streamOpen' \in BOOLEAN
        /\ pubStreamEnded' \in BOOLEAN
    BY <2>1, Zenon DEF DataOK
  <2> QED
    BY <2>2, <2>3, <2>4 DEF DataOK
<1>8. CASE Serve(p)
  <2>1. pending[p] - 1 \in Nat /\ Tail(requests[p]) \in Seq(Request)
    BY <1>8 DEF DataOK, Serve
  <2>2. puts' \in [Pairs -> Nat]
    BY <1>8 DEF DataOK, Serve
  <2> QED
    BY <1>8, <2>1, <2>2 DEF DataOK, Serve
<1>9. CASE ClosePub(p)
  BY <1>9 DEF DataOK, ClosePub, LeavePub
<1>10. CASE CloseFlushPub(p)
  BY <1>10, DrainTypes DEF DataOK, CloseFlushPub, LeavePub
<1> QED
  BY <1>1, <1>2, <1>3, <1>4, <1>5, <1>6, <1>7, <1>8, <1>9, <1>10 DEF PubStep

LEMMA SubData ==
  ASSUME DataOK, NEW s \in Subs, SubStep(s)
  PROVE  DataOK'
<1> USE DEF client, registry, pubSide, subSide, status, messages, activities,
            transport
<1>1. CASE Open(s)
  BY <1>1 DEF DataOK, Open
<1>2. CASE BeginSub(s) \/ StartSub(s)
  <2>1. /\ currentSub' \in {currentSub, currentSub + 1}
        /\ subInProgress' \in {subInProgress, TRUE}
    BY <1>2 DEF BeginSub, StartSub, JoinTransaction
  <2>2. begun' \in [Actors -> Nat]
    BY <1>2, BeginsTypes DEF DataOK, BeginSub, StartSub, Actors
  <2>3. UNCHANGED <<plan, registry, pubSide, subClosing, status, transport>>
    BY <1>2 DEF BeginSub, StartSub, JoinTransaction
  <2>4. currentSub' \in Nat
    BY <2>1 DEF DataOK
  <2>5. subInProgress' \in BOOLEAN
    BY <2>1, Zenon DEF DataOK
  <2> QED
    BY <2>2, <2>3, <2>4, <2>5 DEF DataOK
<1>3. CASE AwaitFirst(s)
  BY <1>3 DEF DataOK, AwaitFirst, RendezVousOf, Pairs
<1>4. CASE AwaitCompleted(s)
  BY <1>4 DEF DataOK, AwaitCompleted
<1>5. ASSUME NEW wanted \in SUBSET Pubs, Get(s, wanted)
      PROVE  DataOK'
  <2>1. gets' \in [Pairs -> Nat]
    <3>1. gets \in [Pairs -> Nat]
      BY DEF DataOK
    <3>2. \/ gets' = gets
          \/ gets' = [x \in Pairs |-> IF x \in wanted \X {s} THEN gets[x] + 1
                                                             ELSE gets[x]]
      BY <1>5 DEF Get
    <3> QED
      BY <3>1, <3>2
  <2>2. \A p \in Pubs : [from |-> s, wants |-> p \in wanted] \in Request
    BY DEF Request
  <2>3. requests' \in [Pubs -> Seq(Request)]
    <3> DEFINE r(p) == [from |-> s, wants |-> p \in wanted]
    <3>1. \A p \in Pubs : Append(requests[p], r(p)) \in Seq(Request)
      BY <2>2 DEF DataOK
    <3> HIDE DEF r
    <3>2. \/ requests' = requests
          \/ requests' = [p \in Pubs |-> IF p \in publishers \cup wanted
                                       THEN Append(requests[p], r(p))
                                       ELSE requests[p]]
      BY <1>5, Zenon DEF Get, r
    <3> QED
      BY <3>1, <3>2 DEF DataOK
  <2> QED
    BY <1>5, <2>1, <2>3 DEF DataOK, Get
<1>6. CASE EndSub(s)
  BY <1>6, RegistrySizes DEF DataOK, EndSub
<1>7. CASE Collect(s)
  <2>1. /\ puts' \in [Pairs -> Nat] /\ gets' \in [Pairs -> Nat]
        /\ pubAborted' \in BOOLEAN /\ subAborted' \in BOOLEAN
    BY <1>7, DrainTypes DEF DataOK, Collect
  <2> QED
    BY <1>7, <2>1 DEF DataOK, Collect
<1>8. CASE Over(s) \/ ReleaseSub(s) \/ CloseLastSub(s)
  <2>1. CASE Over(s)
    BY ZenonT(40), <2>1 DEF DataOK, Over
  <2>2. CASE ReleaseSub(s)
    BY ZenonT(40), <2>2 DEF DataOK, ReleaseSub
  <2>3. CASE CloseLastSub(s)
    BY ZenonT(40), <2>3 DEF DataOK, CloseLastSub
  <2> QED
    BY <1>8, <2>1, <2>2, <2>3
<1>9. CASE CloseSub(s)
  BY <1>9 DEF DataOK, CloseSub, LeaveSub
<1>10. CASE CloseFlushSub(s)
  BY <1>10, DrainTypes DEF DataOK, CloseFlushSub, LeaveSub
<1> QED
  BY <1>1, <1>2, <1>3, <1>4, <1>5, <1>6, <1>7, <1>8, <1>9, <1>10 DEF SubStep

LEMMA InitTyped == Init => TypeOK /\ StartingBalanced
<1> SUFFICES ASSUME Init
             PROVE  TypeOK /\ StartingBalanced
  OBVIOUS
<1>1. PlacesOK(pc)
  BY DEF Init, PlacesOK, PubPlaces, SubPlaces, Actors
<1>2. plan \in [Actors -> Nat]
  <2>1. PICK n \in MinTx..MaxTx : plan \in [Actors -> {n, n + 1}]
    BY DEF Init
  <2> QED
    BY <2>1, TxAssumption
<1>3. DataOK
  <2>1. /\ begun \in [Actors -> Nat]
        /\ pending \in [Pubs -> Nat] /\ requests \in [Pubs -> Seq(Request)]
        /\ puts \in [Pairs -> Nat] /\ gets \in [Pairs -> Nat]
    BY DEF Init, NoActivity
  <2>2. /\ publishers = {} /\ subscribers = {} /\ blocks = {} /\ rdv = {}
        /\ pubBarrier = 0 /\ subBarrier = 0 /\ currentPub = 0 /\ currentSub = 0
        /\ completedPub = 0 /\ canceledTx = 0 /\ pubMutex = Free
    BY DEF Init
  <2>3. /\ pubInProgress = FALSE /\ pubClosing = FALSE /\ subInProgress = FALSE
        /\ subClosing = FALSE /\ pubStreamEnded = FALSE /\ streamOpen = TRUE
        /\ pubAborted = FALSE /\ subAborted = FALSE
    BY DEF Init
  <2> QED
    BY <1>2, <2>1, <2>2, <2>3 DEF DataOK
<1>4. {s \in Subs : pc[s] \in Counted} = {}
  BY DEF Init, Counted, Actors
<1>5. StartingBalanced /\ numStarting \in Nat
  BY <1>4, FS_EmptySet DEF StartingBalanced, Init
<1> QED
  BY <1>1, <1>3, <1>5, TypeParts

\* What the environment does: communications end, an actor cancels.
LEMMA EnvironmentTyped ==
  ASSUME TypeOK, StartingBalanced,
         \/ \E x \in Pairs : Transfer(x)
         \/ \E tx \in 0..MaxTx : CancelTransaction(tx)
         \/ UNCHANGED vars
  PROVE  TypeOK' /\ StartingBalanced'
<1>0. PlacesOK(pc) /\ numStarting \in Nat /\ DataOK
  BY TypeParts
<1>1. CASE \E x \in Pairs : Transfer(x)
  <2>1. PICK x \in Pairs : Transfer(x)
    BY <1>1
  <2>2. puts' \in [Pairs -> Nat] /\ gets' \in [Pairs -> Nat]
    BY <1>0, <2>1 DEF DataOK, Transfer, InFlight
  <2>3. DataOK' /\ UNCHANGED <<pc, numStarting>>
    BY <1>0, <2>1, <2>2
    DEF DataOK, Transfer, client, registry, pubSide, subSide, status, messages
  <2> QED
    BY <1>0, <2>3, TypeParts DEF TypeOK, DataOK, PlacesOK, StartingBalanced
<1>2. CASE \E tx \in 0..MaxTx : CancelTransaction(tx)
  <2>1. PICK tx \in 0..MaxTx : CancelTransaction(tx)
    BY <1>2
  <2>2. PlacesOK(pc') /\ \A s \in Subs : StaysInside(s)
    BY <1>0, <2>1, NotifyPlaces
    DEF CancelTransaction, CancelWakes, CondVars, StaysInside
  <2>3. /\ canceledTx' \in Nat
        /\ puts' \in [Pairs -> Nat] /\ gets' \in [Pairs -> Nat]
    BY <2>1, TxAssumption DEF CancelTransaction, NoActivity
  <2>4. pubAborted' \in BOOLEAN /\ subAborted' \in BOOLEAN
    BY <2>1, Zenon DEF CancelTransaction
  <2>5. DataOK' /\ numStarting' = numStarting
    BY <1>0, <2>1, <2>3, <2>4
    DEF DataOK, CancelTransaction, client, registry, pubSide, subSide, messages
  <2> QED
    BY <1>0, <2>2, <2>5, CountFollows DEF TypeOK, DataOK
<1>3. CASE UNCHANGED vars
  BY <1>3
  DEF vars, client, registry, pubSide, subSide, status, messages, activities,
      transport, TypeOK, PlacesOK, StartingBalanced
<1> QED
  BY <1>1, <1>2, <1>3

LEMMA NextTyped ==
  TypeOK /\ StartingBalanced /\ [Next]_vars => TypeOK' /\ StartingBalanced'
<1> SUFFICES ASSUME TypeOK, StartingBalanced, [Next]_vars
             PROVE  TypeOK' /\ StartingBalanced'
  OBVIOUS
<1>0. PlacesOK(pc) /\ numStarting \in Nat /\ DataOK
  BY TypeParts
<1>1. ASSUME NEW p \in Pubs, PubStep(p)
      PROVE  TypeOK' /\ StartingBalanced'
  BY <1>0, <1>1, PubMoves, WaitsInside, PubData, CountFollows DEF TypeOK, DataOK
<1>2. ASSUME NEW s \in Subs, SubStep(s)
      PROVE  TypeOK' /\ StartingBalanced'
  BY <1>0, <1>2, SubMoves, SubData, CountFollows DEF TypeOK, DataOK
<1> QED
  BY <1>1, <1>2, EnvironmentTyped DEF Next, Terminated

\* The engine's variables keep their types; in particular no unsigned counter
\* of StagingEngine.hpp is ever decremented at zero.
THEOREM TypeCorrect == Spec => []TypeOK
<1>1. Init => TypeOK /\ StartingBalanced
  BY InitTyped
<1>2. TypeOK /\ StartingBalanced /\ [Next]_vars => TypeOK' /\ StartingBalanced'
  BY NextTyped
<1> QED
  BY <1>1, <1>2, PTL DEF Spec

\* num_subscribers_starting_ counts the subscribers inside a transaction,
\* however they come and leave (StagingEngine.cpp:191, 220, 248, 269).
THEOREM StartingIsBalanced == Spec => []StartingBalanced
<1>1. Init => TypeOK /\ StartingBalanced
  BY InitTyped
<1>2. TypeOK /\ StartingBalanced /\ [Next]_vars => TypeOK' /\ StartingBalanced'
  BY NextTyped
<1> QED
  BY <1>1, <1>2, PTL DEF Spec

-----------------------------------------------------------------------------
(* The publishers' mutex                                                    *)

\* Places and mutex agree: only who flushes holds it.
MutexHolderFlushes ==
  \A p \in Pubs : pc[p] = "flush" <=> pubMutex = p

\* An actor that is somewhere else than at its own step stays out of "flush".
LEMMA BarrierFlush ==
  ASSUME PlacesOK(pc), NEW p \in Pubs, NEW size,
         NEW at \in PubPlaces \ {"flush"}, NEW last \in PubPlaces \ {"flush"},
         Arrive(p, Pubs, size, at, last), pc[p] # "flush"
  PROVE  \A q \in Pubs : pc'[q] = "flush" <=> pc[q] = "flush"
BY ArrivePubs DEF AtBarrier

LEMMA GotoFlush ==
  ASSUME PlacesOK(pc), NEW p \in Pubs, NEW to, pc' = Goto(p, to)
  PROVE  /\ pc'[p] = to
         /\ \A q \in Pubs : q # p => pc'[q] = pc[q]
BY DEF Goto, PlacesOK, Actors

LEMMA MutexStep ==
  TypeOK /\ MutexHolderFlushes /\ [Next]_vars => MutexHolderFlushes'
<1> SUFFICES ASSUME TypeOK, MutexHolderFlushes, [Next]_vars
             PROVE  MutexHolderFlushes'
  OBVIOUS
<1>0. PlacesOK(pc) /\ Free \notin Pubs
  BY ActorsAssumption DEF TypeOK
<1> USE DEF At
<1>1. ASSUME NEW p \in Pubs, PubStep(p)
      PROVE  MutexHolderFlushes'
  <2>1. PubWaitOutcome # "flush"
    BY DEF PubWaitOutcome
  <2>2. CASE LockPub(p) \/ Recheck(p) \/ Flush(p)
    <3>1. \E to : /\ pc' = Goto(p, to)
                  /\ \/ to = "flush" /\ pubMutex' = p
                     \/ to # "flush" /\ pubMutex' = Free
      BY <2>1, <2>2 DEF LockPub, Recheck, Flush, AwaitSubs
    <3>2. pubMutex \in {Free, p}
      BY <2>2 DEF LockPub, Recheck, Flush, MutexHolderFlushes
    <3> QED
      BY <1>0, <3>1, <3>2, GotoFlush DEF MutexHolderFlushes
  <2>3. ASSUME pubMutex' = pubMutex,
               \A q \in Pubs : pc'[q] = "flush" <=> pc[q] = "flush"
        PROVE  MutexHolderFlushes'
    BY <2>3 DEF MutexHolderFlushes
  <2>4. ASSUME pubMutex' = pubMutex, NEW to, to # "flush", pc[p] # "flush",
               pc' = Goto(p, to)
        PROVE  MutexHolderFlushes'
    BY <1>0, <2>3, <2>4, GotoFlush
  <2>5. ASSUME pubMutex' = pubMutex, NEW to \in PubPlaces \ {"flush"},
               NEW cvs \in SUBSET CondVars, pc[p] # "flush",
               pc' = Notify(Goto(p, to), cvs)
        PROVE  MutexHolderFlushes'
    <3>1. PlacesOK(Goto(p, to)) /\ Goto(p, to)[p] = to
          /\ \A q \in Pubs : q # p => Goto(p, to)[q] = pc[q]
      BY <1>0, <2>5, GotoPlaces, ActorsAssumption DEF Actors
    <3>2. \A q \in Pubs : \/ pc'[q] = Goto(p, to)[q]
                          \/ Wakes(Goto(p, to)[q], pc'[q])
      BY <2>5, <3>1, NotifyPlaces DEF Actors
    <3> QED
      BY <2>3, <2>5, <3>1, <3>2 DEF Wakes
  <2>6. CASE Open(p) \/ Put(p) \/ ClearPub(p)
    BY <2>4, <2>6 DEF Open, Put, ClearPub, pubSide
  <2>7. CASE BeginPub(p)
    <3>1. pc[p] # "flush" /\ pubMutex' = pubMutex
      BY <2>7 DEF BeginPub, Begins, pubSide
    <3>2. pc' \in {Goto(p, "canceled"), Goto(p, "lock"),
                   Notify(Goto(p, "lock"), {"cvFirst"})}
      BY <2>7 DEF BeginPub
    <3> QED
      BY <2>4, <2>5, <3>1, <3>2 DEF PubPlaces, CondVars
  <2>8. CASE EndPub(p) \/ EndServe(p)
    BY <1>0, <2>3, <2>8, BarrierFlush DEF EndPub, EndServe, pubSide, PubPlaces
  <2>9. CASE Commit(p) \/ CloseLastPub(p)
    <3>1. pc[p] # "flush" /\ pubMutex' = pubMutex
      BY <2>9 DEF Commit, CloseLastPub, pubSide
    <3>2. pc' \in {Goto(p, "serve"), Notify(Goto(p, "serve"), {"cvCompleted"}),
                   Notify(Goto(p, "closed"), EndWakes)}
      BY <2>9 DEF Commit, CloseLastPub
    <3> QED
      BY <2>4, <2>5, <3>1, <3>2 DEF PubPlaces, CondVars, EndWakes
  <2>10. CASE Serve(p)
    <3>1. pc' = pc \/ pc' = Goto(p, "crashed")
      BY <2>10 DEF Serve
    <3> QED
      BY <2>3, <2>4, <2>10, <3>1 DEF Serve, pubSide
  <2>11. CASE ClosePub(p) \/ CloseFlushPub(p)
    <3>1. pc[p] # "flush" /\ pubMutex' = pubMutex
      BY <2>11 DEF ClosePub, Closes, CloseFlushPub
    <3>2. \/ pc' \in {Goto(p, "closed"), Goto(p, "closeFlush")}
          \/ Arrive(p, Pubs, pubBarrier, "closeBarrier", "closeLast")
      BY <2>11 DEF ClosePub, CloseFlushPub, LeavePub, ArriveToClose
    <3> QED
      BY <1>0, <2>3, <2>4, <3>1, <3>2, BarrierFlush DEF PubPlaces
  <2> QED
    BY <1>1, <2>2, <2>6, <2>7, <2>8, <2>9, <2>10, <2>11 DEF PubStep
<1>2. ASSUME pubMutex' = pubMutex, \A p \in Pubs : Waits(p)
      PROVE  MutexHolderFlushes'
  BY <1>2 DEF MutexHolderFlushes, Waits, Wakes
<1>3. ASSUME NEW s \in Subs, SubStep(s)
      PROVE  MutexHolderFlushes'
  <2>1. pubMutex' = pubMutex
    BY <1>3
    DEF SubStep, Open, BeginSub, AwaitFirst, StartSub, JoinTransaction,
        AwaitCompleted, Get, EndSub, Collect, Over, ReleaseSub, CloseSub,
        CloseFlushSub, CloseLastSub, pubSide
  <2> QED
    BY <1>0, <1>2, <1>3, <2>1, SubMoves
<1>4. CASE \E tx \in 0..MaxTx : CancelTransaction(tx)
  <2>1. \A p \in Pubs : Waits(p)
    BY <1>0, <1>4, NotifyPlaces
    DEF CancelTransaction, CancelWakes, CondVars, Waits, Actors
  <2> QED
    BY <1>2, <1>4, <2>1 DEF CancelTransaction, pubSide
<1>5. CASE (\E x \in Pairs : Transfer(x)) \/ UNCHANGED vars
  BY <1>2, <1>5 DEF Transfer, vars, pubSide, Waits
<1> QED
  BY <1>1, <1>3, <1>4, <1>5 DEF Next, Terminated

\* Who asks for the mutex gets it when nobody flushes; StagingProgress needs it.
LEMMA FlusherHoldsMutex == Spec => []MutexHolderFlushes
<1>1. Init => MutexHolderFlushes
  BY ActorsAssumption DEF Init, MutexHolderFlushes, Actors
<1>2. TypeOK /\ MutexHolderFlushes /\ [Next]_vars => MutexHolderFlushes'
  BY MutexStep
<1> QED
  BY <1>1, <1>2, TypeCorrect, PTL DEF Spec

-----------------------------------------------------------------------------
(* Canceled activities, completed transactions                              *)

CountersOK == CompletedWithinStarted /\ AbortedOnlyByCancel

LEMMA DrainAborts ==
  ASSUME AbortedOnlyByCancel, canceledTx' = canceledTx,
         \/ DrainPuts /\ (pubAborted \/ AllOver(puts))
         \/ DrainGets /\ (subAborted \/ AllOver(gets))
  PROVE  AbortedOnlyByCancel'
<1>1. AllOver(puts) \/ AllOver(gets) => ~ \E x \in Pairs : InFlight(x)
  BY DEF AllOver, InFlight
<1> QED
  BY <1>1 DEF AbortedOnlyByCancel, DrainPuts, DrainGets

LEMMA CountersStep == TypeOK /\ CountersOK /\ [Next]_vars => CountersOK'
<1> SUFFICES ASSUME TypeOK, CountersOK, [Next]_vars
             PROVE  CountersOK'
  OBVIOUS
<1>0. currentPub \in Nat /\ completedPub \in Nat
  BY DEF TypeOK
<1> USE DEF CountersOK
<1>1. ASSUME \/ completedPub' = completedPub /\ currentPub' = currentPub
             \/ completedPub' = completedPub /\ currentPub' = currentPub + 1
             \/ /\ completedPub < currentPub /\ completedPub' = completedPub + 1
                /\ currentPub' = currentPub
      PROVE  CompletedWithinStarted'
  BY <1>0, <1>1 DEF CompletedWithinStarted
<1>2. ASSUME UNCHANGED <<canceledTx, pubAborted, subAborted>>
      PROVE  AbortedOnlyByCancel'
  BY <1>2 DEF AbortedOnlyByCancel
<1>3. ASSUME NEW p \in Pubs, PubStep(p)
      PROVE  CountersOK'
  <2>1. CompletedWithinStarted'
    <3>1. BeginPub(p) => currentPub' \in {currentPub, currentPub + 1}
                         /\ completedPub' = completedPub
      BY DEF BeginPub, PubTx, pubSide
    <3> QED
      BY <1>1, <1>3, <3>1
      DEF PubStep, Open, LockPub, Recheck, Flush, Put, EndPub, Commit, MustComplete,
          Serve, EndServe, ClearPub, ClosePub, CloseFlushPub, CloseLastPub, pubSide
  <2>2. CASE Flush(p)
    <3>1. canceledTx' = canceledTx
      BY <2>2 DEF Flush, status
    <3>2. (DrainPuts /\ pubAborted) \/ UNCHANGED <<pubAborted, subAborted>>
      BY <2>2 DEF Flush, activities
    <3> QED
      BY <1>2, <2>1, <3>1, <3>2, DrainAborts
  <2>3. CASE CloseFlushPub(p)
    BY <2>1, <2>3, DrainAborts DEF CloseFlushPub, PubCloseOver, status
  <2>4. CASE Open(p) \/ BeginPub(p) \/ LockPub(p) \/ Recheck(p) \/ Put(p)
             \/ EndPub(p) \/ Commit(p)
    BY <1>2, <2>1, <2>4
    DEF Open, BeginPub, LockPub, Recheck, Put, EndPub, Commit, status, transport,
        activities
  <2>5. CASE Serve(p) \/ EndServe(p) \/ ClearPub(p) \/ ClosePub(p) \/ CloseLastPub(p)
    BY <1>2, <2>1, <2>5
    DEF Serve, EndServe, ClearPub, ClosePub, CloseLastPub, status, transport,
        activities
  <2> QED
    BY <1>3, <2>2, <2>3, <2>4, <2>5 DEF PubStep
<1>4. ASSUME NEW s \in Subs, SubStep(s)
      PROVE  CountersOK'
  <2>1. UNCHANGED <<completedPub, currentPub>>
    BY <1>4
    DEF SubStep, Open, BeginSub, AwaitFirst, StartSub, JoinTransaction,
        AwaitCompleted, Get, EndSub, Collect, Over, ReleaseSub, CloseSub,
        CloseFlushSub, CloseLastSub, pubSide
  <2>2. CASE Collect(s) \/ CloseFlushSub(s)
    BY <1>1, <1>2, <2>1, <2>2, DrainAborts
    DEF Collect, CloseFlushSub, status, activities
  <2>3. CASE ~(Collect(s) \/ CloseFlushSub(s))
    BY <1>1, <1>2, <1>4, <2>1, <2>3
    DEF SubStep, Open, BeginSub, AwaitFirst, StartSub, JoinTransaction,
        AwaitCompleted, Get, EndSub, Over, ReleaseSub, CloseSub, CloseLastSub,
        status, transport, activities
  <2> QED
    BY <2>2, <2>3
<1>5. CASE \E tx \in 0..MaxTx : CancelTransaction(tx)
  <2>1. canceledTx' # 0 /\ UNCHANGED <<completedPub, currentPub>>
    BY <1>5 DEF CancelTransaction, pubSide
  <2> QED
    BY <1>1, <2>1 DEF AbortedOnlyByCancel
<1>6. CASE (\E x \in Pairs : Transfer(x)) \/ UNCHANGED vars
  BY <1>1, <1>2, <1>6
  DEF Transfer, vars, pubSide, status, transport, activities
<1> QED
  BY <1>3, <1>4, <1>5, <1>6 DEF Next, Terminated

\* An activity is aborted only when a transaction was canceled: the
\* CancelException that wait_all throws can be reported as a
\* TransactionCanceledException (StagingEngine.cpp:77-93, 241-250).
THEOREM AbortMeansCanceled == Spec => []AbortedOnlyByCancel
<1>1. Init => CountersOK
  BY DEF Init, CountersOK, CompletedWithinStarted, AbortedOnlyByCancel
<1>2. TypeOK /\ CountersOK /\ [Next]_vars => CountersOK'
  BY CountersStep
<1>3. CountersOK => AbortedOnlyByCancel
  BY DEF CountersOK
<1> QED
  BY <1>1, <1>2, <1>3, TypeCorrect, PTL DEF Spec

\* The publishers never complete a transaction that was not started, however
\* many of them believe to be the last one at the barrier.
THEOREM CompletesWhatStarted == Spec => []CompletedWithinStarted
<1>1. Init => CountersOK
  BY DEF Init, CountersOK, CompletedWithinStarted, AbortedOnlyByCancel
<1>2. TypeOK /\ CountersOK /\ [Next]_vars => CountersOK'
  BY CountersStep
<1>3. CountersOK => CompletedWithinStarted
  BY DEF CountersOK
<1> QED
  BY <1>1, <1>2, <1>3, TypeCorrect, PTL DEF Spec

-----------------------------------------------------------------------------
(* Sleeping subscribers                                                     *)

\* A publisher that has done anything has begun a transaction.
HasBegun == \A p \in Pubs : pc[p] \notin {"new", "idle"} => begun[p] > 0

LEMMA PubBegun ==
  ASSUME MinTx > 0, TypeOK, HasBegun, \A q \in Pubs : plan[q] >= MinTx,
         NEW p \in Pubs, PubStep(p)
  PROVE  /\ HasBegun' /\ plan' = plan
         /\ BeginPub(p) => begun'[p] > 0
         /\ ~BeginPub(p) => begun' = begun
<1>0. PlacesOK(pc) /\ begun \in [Actors -> Nat] /\ p \in Actors /\ plan \in [Actors -> Nat]
  BY DEF TypeOK, Actors
<1> USE DEF At
<1>1. plan' = plan /\ (~BeginPub(p) => begun' = begun)
  BY DEF PubStep, Open, BeginPub, LockPub, Recheck, Flush, Put, EndPub, Commit,
         Serve, EndServe, ClearPub, ClosePub, CloseFlushPub, CloseLastPub, client
<1>a. BeginPub(p) => /\ begun'[p] = begun[p] + 1 /\ begun'[p] > 0
                     /\ \A q \in Pubs : q # p => begun'[q] = begun[q]
  BY <1>0 DEF BeginPub, Begins, Actors
<1> SUFFICES HasBegun'
  BY <1>1, <1>a
<1>2. ASSUME NEW to, pc' = Goto(p, to), begun' = begun, begun[p] > 0 \/ to = "idle"
      PROVE  HasBegun'
  BY <1>0, <1>2, GotoFlush DEF HasBegun
<1>3. ASSUME NEW to \in PubPlaces, NEW cvs \in SUBSET CondVars,
             pc' = Notify(Goto(p, to), cvs) \/ pc' = Goto(p, to),
             begun'[p] > 0, \A q \in Pubs : q # p => begun'[q] = begun[q]
      PROVE  HasBegun'
  <2>1. PlacesOK(Goto(p, to)) /\ \A q \in Pubs : q # p => Goto(p, to)[q] = pc[q]
    BY <1>0, <1>3, GotoPlaces, ActorsAssumption DEF Actors
  <2>2. \A q \in Pubs : \/ pc'[q] = Goto(p, to)[q]
                        \/ Wakes(Goto(p, to)[q], pc'[q])
    BY <1>3, <2>1, NotifyPlaces DEF Actors
  <2>3. \A q \in Pubs : q # p /\ pc'[q] \notin {"new", "idle"}
                          => pc[q] \notin {"new", "idle"}
    BY <2>1, <2>2 DEF Wakes
  <2> QED
    BY <1>3, <2>3 DEF HasBegun
<1>4. ASSUME NEW size, NEW at \in PubPlaces, NEW last \in PubPlaces,
             Arrive(p, Pubs, size, at, last), begun' = begun, begun[p] > 0
      PROVE  HasBegun'
  <2>1. \A q \in Pubs : q # p => pc'[q] = pc[q] \/ pc[q] \in AtBarrier
    BY <1>0, <1>4, ArrivePubs
  <2> QED
    BY <1>4, <2>1 DEF HasBegun, AtBarrier
<1>5. CASE BeginPub(p)
  <2>1. pc' \in {Goto(p, "canceled"), Goto(p, "lock"),
                 Notify(Goto(p, "lock"), {"cvFirst"})}
    BY <1>5 DEF BeginPub
  <2>2. {"canceled", "lock"} \subseteq PubPlaces /\ {"cvFirst"} \in SUBSET CondVars
    BY DEF PubPlaces, CondVars
  <2> QED
    BY <1>a, <1>3, <1>5, <2>1, <2>2
<1>6. CASE Open(p)
  BY <1>2, <1>6 DEF Open, client
<1>7. CASE LockPub(p) \/ Recheck(p) \/ Flush(p) \/ Put(p) \/ Serve(p) \/ ClearPub(p)
  <2>1. pc' = pc \/ \E to : pc' = Goto(p, to)
    BY <1>7 DEF LockPub, Recheck, Flush, AwaitSubs, Put, Serve, ClearPub
  <2>2. begun' = begun /\ begun[p] > 0
    BY <1>7 DEF LockPub, Recheck, Flush, Put, Serve, ClearPub, client, HasBegun
  <2> QED
    BY <1>2, <2>1, <2>2 DEF HasBegun
<1>8. CASE EndPub(p) \/ EndServe(p)
  <2>1. {"endBarrier", "commit", "overBarrier", "clearFlag"} \subseteq PubPlaces
    BY DEF PubPlaces
  <2>2. begun' = begun /\ begun[p] > 0
    BY <1>8 DEF EndPub, EndServe, client, HasBegun
  <2>3. \/ Arrive(p, Pubs, pubBarrier', "endBarrier", "commit")
        \/ Arrive(p, Pubs, pubBarrier, "overBarrier", "clearFlag")
    BY <1>8 DEF EndPub, EndServe
  <2> QED
    BY <1>4, <2>1, <2>2, <2>3
<1>9. CASE Commit(p) \/ CloseLastPub(p)
  <2>1. {"serve", "closed"} \subseteq PubPlaces
        /\ {EndWakes, {"cvCompleted"}} \subseteq SUBSET CondVars
    BY DEF PubPlaces, CondVars, EndWakes
  <2>2. begun' = begun /\ begun[p] > 0
    BY <1>9 DEF Commit, CloseLastPub, client, HasBegun
  <2>3. pc' \in {Goto(p, "serve"), Notify(Goto(p, "serve"), {"cvCompleted"}),
                 Notify(Goto(p, "closed"), EndWakes)}
    BY <1>9 DEF Commit, CloseLastPub
  <2> QED
    BY <1>3, <2>1, <2>2, <2>3
<1>10. CASE ClosePub(p) \/ CloseFlushPub(p)
  <2>1. {"closeBarrier", "closeLast"} \subseteq PubPlaces
    BY DEF PubPlaces
  <2>2. begun' = begun
    BY <1>10 DEF ClosePub, CloseFlushPub, client
  <2>3. begun[p] > 0
    <3>1. pc[p] = "idle" => begun[p] = plan[p]
      BY <1>10 DEF ClosePub, Closes, CloseFlushPub
    <3>2. plan[p] > 0
      BY <1>0, TxAssumption
    <3> QED
      BY <1>10, <3>1, <3>2 DEF ClosePub, Closes, CloseFlushPub, HasBegun
  <2>4. \/ pc' \in {Goto(p, "closed"), Goto(p, "closeFlush")}
        \/ Arrive(p, Pubs, pubBarrier, "closeBarrier", "closeLast")
    BY <1>10 DEF ClosePub, CloseFlushPub, LeavePub, ArriveToClose
  <2> QED
    BY <1>2, <1>4, <2>1, <2>2, <2>3, <2>4
<1> QED
  BY <1>5, <1>6, <1>7, <1>8, <1>9, <1>10 DEF PubStep

\* The positions that SleepInv is about are reached by a subscriber's own step.
Waiting == {"cvFirst", "cvCompleted", "start"}

LEMMA SleepPub ==
  ASSUME MinTx > 0, TypeOK, SleepInv, NEW p \in Pubs, PubStep(p)
  PROVE  SleepInv'
<1>0. /\ PlacesOK(pc) /\ currentPub \in Nat /\ completedPub \in Nat
      /\ currentSub \in Nat /\ begun \in [Actors -> Nat]
      /\ p \in Actors /\ p \notin Subs /\ canceledTx \in Nat
  BY ActorsAssumption DEF TypeOK, Actors
<1>1. \A s \in Subs : pc'[s] \in Waiting => pc'[s] = pc[s]
  BY <1>0, PubMoves DEF Waits, Wakes, Waiting
<1>2. /\ HasBegun' /\ plan' = plan
      /\ BeginPub(p) => begun'[p] > 0
      /\ ~BeginPub(p) => begun' = begun
  BY PubBegun DEF SleepInv, HasBegun
<1>3. UNCHANGED <<currentSub, canceledTx>>
  BY DEF PubStep, Open, BeginPub, LockPub, Recheck, Flush, Put, EndPub, Commit,
         Serve, EndServe, ClearPub, ClosePub, CloseFlushPub, CloseLastPub,
         subSide, status
<1>4. ASSUME currentPub' = currentPub, completedPub' = completedPub,
             pubStreamEnded' = pubStreamEnded, begun' = begun,
             pubInProgress' => pubInProgress
      PROVE  SleepInv'
  BY <1>1, <1>2, <1>3, <1>4
  DEF SleepInv, SubscribersSleepForAReason, HasBegun, Waiting
<1>5. CASE BeginPub(p)
  <2>1. UNCHANGED <<completedPub, pubStreamEnded>>
    BY <1>5 DEF BeginPub, pubSide, status
  <2>2. CASE Canceled(currentPub + 1)
    <3>1. UNCHANGED <<currentPub, pubInProgress>>
      BY <1>5, <2>2 DEF BeginPub, pubSide
    <3>2. currentPub = 0 => canceledTx = 1
      BY <2>2 DEF Canceled
    <3> QED
      BY <1>1, <1>2, <1>3, <2>1, <3>1, <3>2
      DEF SleepInv, SubscribersSleepForAReason, HasBegun, Waiting
  <2>3. CASE ~Canceled(currentPub + 1)
    <3>1. currentPub' = PubTx /\ currentPub' > 0
      BY <1>0, <1>5, <2>3 DEF BeginPub, PubTx, SleepInv
    <3>2. currentPub = 0 => \A s \in Subs : pc'[s] # "cvFirst"
      <4>1. currentPub = 0 => pc' = Notify(Goto(p, "lock"), {"cvFirst"})
        BY <1>5, <2>3 DEF BeginPub, SleepInv
      <4>2. PlacesOK(Goto(p, "lock"))
        BY <1>0, GotoPlaces DEF PubPlaces
      <4> QED
        BY <4>1, <4>2, NotifyPlaces DEF CondVars, Actors
    <3>3. currentPub # 0 => \A s \in Subs : pc[s] # "cvFirst"
      BY DEF SleepInv, SubscribersSleepForAReason
    <3> QED
      BY <1>1, <1>2, <1>3, <2>1, <3>1, <3>2, <3>3
      DEF SleepInv, SubscribersSleepForAReason, HasBegun, Waiting
  <2> QED
    BY <2>2, <2>3
<1>6. CASE Commit(p)
  <2>1. begun' = begun /\ UNCHANGED <<currentPub, pubInProgress, pubStreamEnded>>
    BY <1>6 DEF Commit, client, status
  <2>2. CASE completedPub' = completedPub
    BY <1>4, <2>1, <2>2
  <2>3. CASE completedPub' # completedPub
    <3>1. pc' = Notify(Goto(p, "serve"), {"cvCompleted"})
      BY <1>6, <2>3 DEF Commit
    <3>2. PlacesOK(Goto(p, "serve"))
      BY <1>0, GotoPlaces DEF PubPlaces
    <3>3. \A s \in Subs : pc'[s] # "cvCompleted"
      BY <3>1, <3>2, NotifyPlaces DEF CondVars, Actors
    <3> QED
      BY <1>1, <1>2, <1>3, <2>1, <3>3
      DEF SleepInv, SubscribersSleepForAReason, HasBegun, Waiting
  <2> QED
    BY <2>2, <2>3
<1>7. CASE CloseLastPub(p)
  <2>1. begun' = begun /\ UNCHANGED <<currentPub, pubInProgress, completedPub>>
    BY <1>7 DEF CloseLastPub, client, pubSide
  <2>2. pc' = Notify(Goto(p, "closed"), EndWakes) /\ EndWakes \in SUBSET CondVars
    BY <1>7 DEF CloseLastPub, EndWakes, CondVars
  <2>3. PlacesOK(Goto(p, "closed"))
    BY <1>0, GotoPlaces DEF PubPlaces
  <2>4. \A s \in Subs : pc'[s] \notin {"cvFirst", "cvCompleted"}
    BY <2>2, <2>3, NotifyPlaces DEF EndWakes, Actors
  <2> QED
    BY <1>1, <1>2, <1>3, <2>1, <2>4
    DEF SleepInv, SubscribersSleepForAReason, HasBegun, Waiting
<1>8. CASE CloseFlushPub(p)
  <2>1. /\ begun' = begun /\ UNCHANGED <<pubInProgress, completedPub, pubStreamEnded>>
        /\ currentPub' = currentPub + 1
    BY <1>8 DEF CloseFlushPub, client, status
  <2>2. begun[p] > 0
    BY <1>8 DEF CloseFlushPub, At, SleepInv
  <2>3. \A s \in Subs : pc[s] # "cvFirst"
    BY <2>2 DEF SleepInv, SubscribersSleepForAReason
  <2> QED
    BY <1>0, <1>1, <1>2, <1>3, <2>1, <2>3
    DEF SleepInv, SubscribersSleepForAReason, HasBegun, Waiting
<1>9. CASE Open(p) \/ LockPub(p) \/ Recheck(p) \/ Flush(p) \/ Put(p)
  BY <1>4, <1>9
  DEF Open, LockPub, Recheck, Flush, Put, client, pubSide, status
<1>10. CASE EndPub(p) \/ Serve(p) \/ EndServe(p) \/ ClearPub(p) \/ ClosePub(p)
  BY <1>4, <1>10
  DEF EndPub, Serve, EndServe, ClearPub, ClosePub, client, pubSide, status
<1> QED
  BY <1>5, <1>6, <1>7, <1>8, <1>9, <1>10 DEF PubStep

LEMMA SleepSub ==
  ASSUME TypeOK, SleepInv, NEW s \in Subs, SubStep(s)
  PROVE  SleepInv'
<1>0. /\ PlacesOK(pc) /\ currentPub \in Nat /\ completedPub \in Nat
      /\ currentSub \in Nat /\ begun \in [Actors -> Nat] /\ canceledTx \in Nat
      /\ s \in Actors /\ s \notin Pubs /\ Pubs \subseteq Actors
  BY ActorsAssumption DEF TypeOK, Actors
<1> USE DEF At
<1>1. \A r \in Subs : r # s /\ pc'[r] \in Waiting => pc'[r] = pc[r]
  BY <1>0, SubMoves DEF Bystander, Waits, Wakes, Waiting
<1>2. /\ \A p \in Pubs : begun'[p] = begun[p] /\ plan'[p] = plan[p]
      /\ UNCHANGED <<currentPub, completedPub, pubInProgress, pubStreamEnded,
                     canceledTx>>
  <2>1. BeginSub(s) => \A p \in Pubs : begun'[p] = begun[p] /\ plan'[p] = plan[p]
    BY <1>0 DEF BeginSub, Begins
  <2>2. ~BeginSub(s) => UNCHANGED <<begun, plan>>
    BY DEF SubStep, Open, AwaitFirst, StartSub, JoinTransaction, AwaitCompleted,
           Get, EndSub, Collect, Over, ReleaseSub, CloseSub, CloseFlushSub,
           CloseLastSub, client
  <2>3. UNCHANGED <<currentPub, completedPub, pubInProgress, pubStreamEnded,
                    canceledTx>>
    BY DEF SubStep, Open, BeginSub, AwaitFirst, StartSub, JoinTransaction,
           AwaitCompleted, Get, EndSub, Collect, Over, ReleaseSub, CloseSub,
           CloseFlushSub, CloseLastSub, pubSide, status
  <2> QED
    BY <2>1, <2>2, <2>3
<1>3. \A p \in Pubs : pc'[p] \notin {"new", "idle"} => pc[p] \notin {"new", "idle"}
  BY <1>0, SubMoves DEF Waits, Wakes
<1>4. ASSUME currentSub' \in Nat, currentSub' >= currentSub,
             currentPub = 0 => currentSub' = 0 /\ pc'[s] # "start",
             pc'[s] = "cvFirst" =>
               currentPub = 0 /\ ~pubStreamEnded /\ ~Canceled(currentSub + 1),
             pc'[s] = "cvCompleted" => completedPub < currentSub /\ ~pubStreamEnded
      PROVE  SleepInv'
  BY <1>0, <1>1, <1>2, <1>3, <1>4
  DEF SleepInv, SubscribersSleepForAReason, Waiting, Canceled
<1>5. ASSUME JoinTransaction(s), currentPub # 0
      PROVE  SleepInv'
  <2>1. PlacesOK(Goto(s, "await")) /\ Goto(s, "await")[s] = "await"
    BY <1>0, GotoPlaces DEF SubPlaces
  <2>2. pc'[s] \notin Waiting
    BY <1>0, <1>5, <2>1, NotifyPlaces DEF JoinTransaction, CondVars, Wakes, Waiting
  <2>3. currentSub' \in {currentSub, currentSub + 1}
    BY <1>5 DEF JoinTransaction
  <2> QED
    BY <1>0, <1>4, <1>5, <2>2, <2>3 DEF Waiting
<1>6. ASSUME currentSub' = currentSub, pc'[s] \notin Waiting
      PROVE  SleepInv'
  BY <1>0, <1>4, <1>6 DEF Waiting, SleepInv
<1>7. ASSUME NEW to, pc' = Goto(s, to)
      PROVE  pc'[s] = to
  BY <1>0, <1>7 DEF Goto, PlacesOK
<1>8. CASE BeginSub(s)
  <2>1. CASE JoinTransaction(s) /\ currentSub # 0
    BY <1>5, <2>1 DEF SleepInv
  <2>2. CASE pc' \in {Goto(s, "canceled"), Goto(s, "first")} /\ UNCHANGED subSide
    BY <1>6, <1>7, <2>2 DEF subSide, Waiting
  <2> QED
    BY <1>8, <2>1, <2>2 DEF BeginSub
<1>9. CASE AwaitFirst(s)
  <2> DEFINE next == IF Canceled(currentSub + 1) THEN "canceled"
                     ELSE IF currentPub > 0 THEN "start"
                     ELSE IF pubStreamEnded THEN "eos" ELSE "cvFirst"
  <2>1. pc'[s] = next /\ currentSub' = currentSub
    BY <1>7, <1>9 DEF AwaitFirst, subSide
  <2> QED
    BY <1>0, <1>4, <2>1 DEF SleepInv
<1>10. CASE StartSub(s)
  BY <1>5, <1>10 DEF StartSub, SleepInv
<1>11. CASE AwaitCompleted(s)
  <2>1. pc'[s] = AwaitOutcome /\ currentSub' = currentSub
    BY <1>7, <1>11 DEF AwaitCompleted
  <2>2. AwaitOutcome = "cvCompleted" => completedPub < currentSub /\ ~pubStreamEnded
    BY <1>0 DEF AwaitOutcome
  <2>3. AwaitOutcome \notin {"start", "cvFirst"}
    BY DEF AwaitOutcome
  <2> QED
    BY <1>0, <1>4, <2>1, <2>2, <2>3 DEF SleepInv
<1>12. CASE Open(s) \/ Collect(s) \/ ReleaseSub(s) \/ CloseLastSub(s)
  <2>1. \E to \in {"idle", "canceled", "over", "closed"} : pc' = Goto(s, to)
    BY <1>12 DEF Open, Collect, ReleaseSub, CloseLastSub
  <2>2. currentSub' = currentSub
    BY <1>12 DEF Open, Collect, ReleaseSub, CloseLastSub, subSide
  <2> QED
    BY <1>6, <1>7, <2>1, <2>2 DEF Waiting
<1>13. CASE \E wanted \in SUBSET Pubs : Get(s, wanted)
  BY <1>6, <1>7, <1>13 DEF Get, subSide, Waiting
<1>14. ASSUME NEW size, NEW at \in SubPlaces \ Waiting, NEW last \in SubPlaces \ Waiting,
              Arrive(s, Subs, size, at, last)
       PROVE  pc'[s] \notin Waiting
  BY <1>0, <1>14, ArriveSubs
<1>15. CASE EndSub(s) \/ Over(s)
  <2>1. {"endBarrier", "collect", "overBarrier", "clearFlag"} \subseteq SubPlaces \ Waiting
    BY DEF SubPlaces, Waiting
  <2>2. /\ currentSub' = currentSub
        /\ \/ Arrive(s, Subs, subBarrier', "endBarrier", "collect")
           \/ Arrive(s, Subs, subBarrier, "overBarrier", "clearFlag")
    BY <1>15 DEF EndSub, Over, subSide
  <2> QED
    BY <1>6, <1>14, <2>1, <2>2
<1>16. CASE CloseSub(s) \/ CloseFlushSub(s)
  <2>1. {"closeBarrier", "closeLast"} \subseteq SubPlaces \ Waiting
    BY DEF SubPlaces, Waiting
  <2>2. /\ currentSub' = currentSub
        /\ \/ pc' \in {Goto(s, "closed"), Goto(s, "closeFlush")}
           \/ Arrive(s, Subs, subBarrier, "closeBarrier", "closeLast")
    BY <1>16 DEF CloseSub, CloseFlushSub, LeaveSub, ArriveToClose, subSide
  <2> QED
    BY <1>6, <1>7, <1>14, <2>1, <2>2 DEF Waiting
<1> QED
  BY <1>8, <1>9, <1>10, <1>11, <1>12, <1>13, <1>15, <1>16 DEF SubStep

LEMMA SleepEnvironment ==
  ASSUME TypeOK, SleepInv,
         \/ \E x \in Pairs : Transfer(x)
         \/ \E tx \in 0..MaxTx : CancelTransaction(tx)
         \/ UNCHANGED vars
  PROVE  SleepInv'
<1>1. CASE \E tx \in 0..MaxTx : CancelTransaction(tx)
  <2>1. /\ PlacesOK(pc) /\ pc' = Notify(pc, CancelWakes)
        /\ CancelWakes = CondVars
    BY <1>1 DEF CancelTransaction, TypeOK, CancelWakes, CondVars
  <2>2. \A a \in Actors : pc'[a] = pc[a] \/ Wakes(pc[a], pc'[a])
    BY <2>1, NotifyPlaces
  <2>3. \A s \in Subs : pc'[s] \notin CondVars /\ (pc'[s] = "start" => pc[s] = "start")
    BY <2>1, <2>2, NotifyPlaces DEF Actors, Wakes
  <2>4. \A p \in Pubs : pc'[p] \notin {"new", "idle"} => pc[p] \notin {"new", "idle"}
    BY <2>2 DEF Actors, Wakes
  <2>5. UNCHANGED <<begun, plan, pubInProgress, currentPub, completedPub, currentSub,
                    pubStreamEnded>>
    BY <1>1 DEF CancelTransaction, client, pubSide, subSide
  <2>6. canceledTx = 0
    BY <1>1 DEF CancelTransaction
  <2> QED
    BY <2>3, <2>4, <2>5, <2>6
    DEF SleepInv, SubscribersSleepForAReason, CondVars
<1>2. CASE (\E x \in Pairs : Transfer(x)) \/ UNCHANGED vars
  BY <1>2
  DEF Transfer, vars, client, pubSide, subSide, status, SleepInv,
      SubscribersSleepForAReason
<1> QED
  BY <1>1, <1>2

LEMMA SleepInit ==
  ASSUME Init
  PROVE  SleepInv
<1>1. \A p \in Pubs : plan[p] >= MinTx
  <2>1. PICK n \in MinTx..MaxTx : \A p \in Pubs : plan[p] = n
    BY DEF Init
  <2> QED
    BY <2>1, TxAssumption
<1> QED
  BY <1>1 DEF Init, SleepInv, SubscribersSleepForAReason, Actors

\* No lost wake-up: a subscriber that sleeps until the first publisher begins,
\* or until its transaction is completed, has something to wait for; every
\* publisher has at least one transaction (StagingEngine.cpp:66-70, 113-117,
\* 154-164, 166-204).
THEOREM NoLostWakeUp ==
  ASSUME MinTx > 0
  PROVE  Spec => []SubscribersSleepForAReason
<1>1. Init => SleepInv
  BY SleepInit
<1>2. TypeOK /\ SleepInv /\ [Next]_vars => SleepInv'
  BY SleepPub, SleepSub, SleepEnvironment DEF Next, Terminated
<1>3. SleepInv => SubscribersSleepForAReason
  BY DEF SleepInv
<1> QED
  BY <1>1, <1>2, <1>3, TypeCorrect, PTL DEF Spec

-----------------------------------------------------------------------------
(* The barrier of the subscribers, when it expects all of them              *)

\* What happens to a subscriber that another one's step moves.
Resumes(r) == \/ pc[r] = "endBarrier" /\ pc'[r] = "over"
              \/ pc[r] = "overBarrier" /\ pc'[r] = "release"
              \/ pc[r] = "closeBarrier" /\ pc'[r] = "closed"
Alone(s) == \A r \in Subs : r # s => Waits(r)

\* Where the step of a subscriber takes it.
Goes(from, to) ==
  \/ from = "new" /\ to = "idle"
  \/ from \in {"idle", "canceled"} /\ to \in {"canceled", "first", "await"}
  \/ from = "first" /\ to \in {"canceled", "start", "eos", "cvFirst"}
  \/ from = "start" /\ to = "await"
  \/ from = "await" /\ to \in {"canceled", "tx", "eos", "cvCompleted"}
  \/ from = "tx" /\ to \in {"get", "crashed"}
  \/ from = "get" /\ to \in {"endBarrier", "collect"}
  \/ from = "collect" /\ to \in {"canceled", "over"}
  \/ from = "over" /\ to \in {"overBarrier", "clearFlag"}
  \/ from \in {"release", "clearFlag"} /\ to = "idle"
  \/ from \in {"idle", "canceled", "eos"} /\ to = "closeFlush"
  \/ from \in {"idle", "canceled", "eos", "closeFlush"}
       /\ to \in {"closed", "closeBarrier", "closeLast"}
  \/ from = "closeLast" /\ to = "closed"

Arrives(s) == EndSub(s) \/ Over(s) \/ CloseSub(s) \/ CloseFlushSub(s)

LEMMA JoinAwaits ==
  ASSUME PlacesOK(pc), NEW s \in Subs, JoinTransaction(s)
  PROVE  pc'[s] = "await" /\ Alone(s)
<1>0. s \in Actors /\ s \notin Pubs /\ Subs \subseteq Actors
  BY ActorsAssumption DEF Actors
<1>1. PlacesOK(Goto(s, "await")) /\ Goto(s, "await")[s] = "await"
      /\ \A r \in Actors : r # s => Goto(s, "await")[r] = pc[r]
  BY <1>0, GotoPlaces DEF SubPlaces
<1>2. CASE pc' = Goto(s, "await")
  BY <1>0, <1>1, <1>2 DEF Alone, Waits
<1>3. CASE pc' = Notify(Goto(s, "await"), {"cvStarted"})
  BY <1>0, <1>1, <1>3, NotifyPlaces DEF Alone, Waits, CondVars
<1> QED
  BY <1>2, <1>3 DEF JoinTransaction

\* A step of a subscriber that is not an arrival moves no other one.
LEMMA SubGoes ==
  ASSUME PlacesOK(pc), NEW s \in Subs, SubStep(s)
  PROVE  Goes(pc[s], pc'[s]) /\ (~Arrives(s) => Alone(s))
<1>0. s \in Actors /\ s \notin Pubs /\ Subs \subseteq Actors
  BY ActorsAssumption DEF Actors
<1> USE DEF At
<1>1. ASSUME NEW to \in SubPlaces, pc' = Goto(s, to)
      PROVE  pc'[s] = to /\ Alone(s)
  BY <1>0, <1>1, GotoPlaces DEF Alone, Waits
<1>2. ASSUME NEW size, NEW at \in SubPlaces, NEW last \in SubPlaces,
             Arrive(s, Subs, size, at, last)
      PROVE  pc'[s] \in {at, last}
  BY <1>2, ArriveSubs
<1>3. JoinTransaction(s) => pc'[s] = "await" /\ Alone(s)
  BY JoinAwaits
<1>4. CASE Open(s) \/ ReleaseSub(s) \/ CloseLastSub(s)
  BY <1>1, <1>4 DEF Open, ReleaseSub, CloseLastSub, Goes, SubPlaces
<1>5. CASE BeginSub(s)
  <2>1. pc[s] \in {"idle", "canceled"}
    BY <1>5 DEF BeginSub, Begins
  <2>2. JoinTransaction(s) \/ pc' \in {Goto(s, "canceled"), Goto(s, "first")}
    BY <1>5 DEF BeginSub
  <2> QED
    BY <1>1, <1>3, <2>1, <2>2 DEF Goes, SubPlaces
<1>6. CASE AwaitFirst(s)
  <2>1. \E to \in {"canceled", "start", "eos", "cvFirst"} :
          pc[s] = "first" /\ pc' = Goto(s, to)
    BY <1>6 DEF AwaitFirst
  <2> QED
    BY <1>1, <2>1 DEF Goes, SubPlaces
<1>7. CASE StartSub(s)
  BY <1>3, <1>7 DEF StartSub, Goes
<1>8. CASE AwaitCompleted(s)
  <2>1. AwaitOutcome \in {"canceled", "tx", "eos", "cvCompleted"}
    BY DEF AwaitOutcome
  <2> QED
    BY <1>1, <1>8, <2>1 DEF AwaitCompleted, Goes, SubPlaces
<1>9. CASE \E wanted \in SUBSET Pubs : Get(s, wanted)
  <2>1. pc[s] = "tx" /\ pc' \in {Goto(s, "get"), Goto(s, "crashed")}
    BY <1>9 DEF Get
  <2> QED
    BY <1>1, <2>1 DEF Goes, SubPlaces
<1>10. CASE Collect(s)
  <2>1. pc[s] = "collect" /\ pc' \in {Goto(s, "canceled"), Goto(s, "over")}
    BY <1>10 DEF Collect
  <2> QED
    BY <1>1, <2>1 DEF Goes, SubPlaces
<1>11. CASE EndSub(s) \/ Over(s)
  <2>1. {"endBarrier", "collect", "overBarrier", "clearFlag"} \subseteq SubPlaces
    BY DEF SubPlaces
  <2> QED
    BY <1>2, <1>11, <2>1 DEF EndSub, Over, Goes, Arrives
<1>12. CASE CloseSub(s) \/ CloseFlushSub(s)
  <2>1. {"closed", "closeFlush", "closeBarrier", "closeLast"} \subseteq SubPlaces
    BY DEF SubPlaces
  <2>2. \/ /\ pc[s] \in {"idle", "canceled", "eos"}
           /\ pc' = Goto(s, "closeFlush")
        \/ /\ pc[s] \in {"idle", "canceled", "eos", "closeFlush"}
           /\ \/ pc' = Goto(s, "closed")
              \/ Arrive(s, Subs, subBarrier, "closeBarrier", "closeLast")
    BY <1>12 DEF CloseSub, Closes, CloseFlushSub, LeaveSub, ArriveToClose
  <2> QED
    BY <1>1, <1>2, <1>12, <2>1, <2>2 DEF Goes, Arrives
<1> QED
  BY <1>4, <1>5, <1>6, <1>7, <1>8, <1>9, <1>10, <1>11, <1>12 DEF SubStep

\* W, without s, are all the others just when they make a barrier full.
LEMMA SubBarrierFull ==
  ASSUME NEW s \in Subs, NEW W \in SUBSET (Subs \ {s})
  PROVE  Cardinality(W) + 1 < Cardinality(Subs) <=> W # Subs \ {s}
<1>1. IsFiniteSet(Subs)
  BY ActorsAssumption
<1>2. /\ IsFiniteSet(Subs \ {s})
      /\ Cardinality(Subs \ {s}) = Cardinality(Subs) - 1
  BY <1>1, FS_RemoveElement
<1>3. /\ IsFiniteSet(W) /\ Cardinality(W) <= Cardinality(Subs \ {s})
      /\ Cardinality(W) = Cardinality(Subs \ {s}) => W = Subs \ {s}
  BY <1>2, FS_Subset
<1>4. Cardinality(W) \in Nat /\ Cardinality(Subs) \in Nat
  BY <1>1, <1>3, FS_CardinalityType
<1>5. CASE W = Subs \ {s}
  BY <1>2, <1>4, <1>5
<1>6. CASE W # Subs \ {s}
  <2>1. Cardinality(W) # Cardinality(Subs \ {s})
    BY <1>3, <1>6
  <2> QED
    BY <1>2, <1>3, <1>4, <1>6, <2>1
<1> QED
  BY <1>5, <1>6

\* A barrier that expects everybody lets the first ones wait, each alone, and
\* the last one pass with all the others.
LEMMA ArriveAll ==
  ASSUME PlacesOK(pc), NEW s \in Subs, pc[s] \notin AtBarrier,
         NEW at \in SubPlaces, NEW last \in SubPlaces,
         Arrive(s, Subs, Cardinality(Subs), at, last)
  PROVE  \/ pc'[s] = at /\ Alone(s)
         \/ pc'[s] = last /\ \A r \in Subs : r # s => Resumes(r)
<1> DEFINE W == {b \in Subs : pc[b] \in AtBarrier}
<1>1. W \in SUBSET (Subs \ {s})
  OBVIOUS
<1>2. s \in Actors /\ s \notin Pubs /\ Subs \subseteq Actors /\ \A r \in Subs : r \notin Pubs
  BY ActorsAssumption DEF Actors
<1>3. CASE W # Subs \ {s}
  <2>1. Cardinality(W) + 1 < Cardinality(Subs)
    BY <1>1, <1>3, SubBarrierFull
  <2>2. pc' = Goto(s, at)
    BY <2>1 DEF Arrive
  <2> QED
    BY <1>2, <2>2, GotoPlaces DEF Alone, Waits
<1>4. CASE W = Subs \ {s}
  <2>1. ~(Cardinality(W) + 1 < Cardinality(Subs))
    BY <1>1, <1>4, SubBarrierFull
  <2>2. pc' = [b \in Actors |-> IF b = s THEN last
                                ELSE IF b \in W THEN Resumed(b) ELSE pc[b]]
    BY <2>1 DEF Arrive
  <2>3. ASSUME NEW r \in Subs, r # s
        PROVE  Resumes(r)
    <3>1. r \in W /\ pc[r] \in AtBarrier /\ pc'[r] = Resumed(r)
      BY <1>2, <1>4, <2>2, <2>3
    <3> QED
      BY <1>2, <3>1 DEF Resumed, AtBarrier, Resumes
  <2> QED
    BY <1>2, <2>2, <2>3
<1> QED
  BY <1>3, <1>4

\* A subscriber is registered from its open to its close.
Outside == {"new", "closeBarrier", "closeLast", "closed"}
Listed == \A s \in Subs : pc[s] \notin Outside => s \in subscribers

\* How the registry of the subscribers and their barrier change.
LEMMA SubRegistry ==
  ASSUME TypeOK, Listed, NEW s \in Subs, SubStep(s)
  PROVE  /\ Listed' /\ (AllExpected' => AllExpected)
         /\ EndSub(s) => subBarrier' # 0
         /\ ~EndSub(s) => subBarrier' = subBarrier
<1>0. PlacesOK(pc) /\ s \in Actors /\ subscribers \in SUBSET Subs /\ subBarrier \in Nat
  BY DEF TypeOK, Actors
<1> USE DEF At
<1>1. Goes(pc[s], pc'[s]) /\ \A r \in Subs : r # s => Bystander(r)
  BY <1>0, SubGoes, SubMoves
<1>2. ~EndSub(s) => subBarrier' = subBarrier
  BY DEF SubStep, Open, BeginSub, AwaitFirst, StartSub, AwaitCompleted, Get,
         Collect, Over, ReleaseSub, CloseSub, CloseFlushSub, CloseLastSub,
         LeaveSub, registry
<1>3. EndSub(s) => subBarrier' # 0 /\ (subBarrier = 0 \/ subBarrier' = subBarrier)
  <2>1. SUFFICES ASSUME EndSub(s)
                 PROVE  subBarrier' # 0 /\ (subBarrier = 0 \/ subBarrier' = subBarrier)
    OBVIOUS
  <2>2. s \in subscribers
    BY <2>1 DEF EndSub, Listed, Outside
  <2>3. IsFiniteSet(subscribers) /\ Cardinality(subscribers) # 0
    BY <1>0, <2>2, ActorsAssumption, FS_Subset, FS_EmptySet
  <2> QED
    BY <2>1, <2>3 DEF EndSub, BarrierFor
<1>4. AllExpected' => AllExpected
  BY <1>2, <1>3 DEF AllExpected
<1>5. \A r \in Subs : r # s /\ pc'[r] \notin Outside => pc[r] \notin Outside
  <2>1. ASSUME NEW size, NEW at \in SubPlaces, NEW last \in SubPlaces,
               Arrive(s, Subs, size, at, last)
        PROVE  \A r \in Subs : r # s /\ pc'[r] \notin Outside => pc[r] \notin Outside
    BY <1>0, <2>1, ArriveSubs DEF Outside
  <2>2. Alone(s) => \A r \in Subs : r # s /\ pc'[r] \notin Outside => pc[r] \notin Outside
    BY DEF Alone, Waits, Wakes, Outside
  <2>3. {"endBarrier", "collect", "overBarrier", "clearFlag", "closeBarrier", "closeLast"}
          \subseteq SubPlaces
    BY DEF SubPlaces
  <2>4. CASE Arrives(s)
    <3>1. \/ \E size : \/ Arrive(s, Subs, size, "endBarrier", "collect")
                       \/ Arrive(s, Subs, size, "overBarrier", "clearFlag")
                       \/ Arrive(s, Subs, size, "closeBarrier", "closeLast")
          \/ pc' \in {Goto(s, "closed"), Goto(s, "closeFlush")}
      BY <2>4 DEF Arrives, EndSub, Over, CloseSub, CloseFlushSub, LeaveSub, ArriveToClose
    <3>2. CASE pc' \in {Goto(s, "closed"), Goto(s, "closeFlush")}
      BY <1>0, <3>2 DEF Goto, PlacesOK, Outside, Actors
    <3> QED
      BY <2>1, <2>3, <3>1, <3>2
  <2> QED
    BY <1>0, <2>2, <2>4, SubGoes
<1>6. Listed'
  <2>1. CASE Open(s)
    BY <1>5, <2>1 DEF Open, Listed
  <2>2. CASE CloseSub(s) \/ CloseFlushSub(s)
    <3>1. CASE subscribers' = subscribers /\ pc[s] \notin Outside
      BY <1>5, <3>1 DEF Listed
    <3>2. CASE LeaveSub(s)
      <4>1. {"closeBarrier", "closeLast"} \subseteq SubPlaces
        BY DEF SubPlaces
      <4>2. pc'[s] \in Outside
        BY <1>0, <3>2, <4>1, ArriveSubs
        DEF LeaveSub, ArriveToClose, Goto, PlacesOK, Outside
      <4> QED
        BY <1>5, <3>2, <4>2 DEF LeaveSub, Listed
    <3> QED
      BY <2>2, <3>1, <3>2 DEF CloseSub, Closes, CloseFlushSub, registry, Outside
  <2>3. CASE ~(Open(s) \/ CloseSub(s) \/ CloseFlushSub(s))
    <3>1. subscribers' = subscribers
      BY <2>3 DEF SubStep, BeginSub, AwaitFirst, StartSub, AwaitCompleted, Get, EndSub,
                  Collect, Over, ReleaseSub, CloseLastSub, registry
    <3>2. pc'[s] \notin Outside => pc[s] \notin Outside
      <4>1. pc[s] # "new"
        BY <2>3
        DEF SubStep, BeginSub, Begins, AwaitFirst, StartSub, AwaitCompleted, Get, EndSub,
            Collect, Over, ReleaseSub, CloseLastSub
      <4> QED
        BY <1>1, <4>1 DEF Goes, Outside
    <3> QED
      BY <1>5, <3>1, <3>2 DEF Listed
  <2> QED
    BY <2>1, <2>2, <2>3
<1> QED
  BY <1>2, <1>3, <1>4, <1>6

LEMMA BeginGoes ==
  ASSUME PlacesOK(pc), NEW s \in Subs, BeginSub(s)
  PROVE  pc'[s] \in {"canceled", "first", "await"}
<1>1. s \in Actors
  BY DEF Actors
<1>2. CASE JoinTransaction(s)
  BY <1>2, JoinAwaits
<1>3. CASE pc' \in {Goto(s, "canceled"), Goto(s, "first")}
  BY <1>1, <1>3 DEF Goto, PlacesOK
<1> QED
  BY <1>2, <1>3 DEF BeginSub

\* As long as there is no barrier, only an end makes one.
LEMMA NoBarrierYet ==
  ASSUME PlacesOK(pc), NEW s \in Subs, SubStep(s), ~EndSub(s), subBarrier = 0
  PROVE  pc'[s] \notin {"endBarrier", "closeBarrier", "closeLast"}
<1> USE DEF At
<1>1. Goes(pc[s], pc'[s]) /\ s \in Actors
  BY SubGoes DEF Actors
<1>2. CASE CloseSub(s) \/ CloseFlushSub(s)
  <2>1. pc' \in {Goto(s, "closed"), Goto(s, "closeFlush")}
    BY <1>2 DEF CloseSub, CloseFlushSub, LeaveSub, ArriveToClose
  <2> QED
    BY <1>1, <2>1 DEF Goto, PlacesOK
<1>3. CASE BeginSub(s)
  BY <1>3, BeginGoes
<1>4. CASE ~(CloseSub(s) \/ CloseFlushSub(s) \/ BeginSub(s))
  <2>1. pc[s] \notin {"get", "idle", "canceled", "eos", "closeFlush"}
    BY <1>4
    DEF SubStep, Open, AwaitFirst, StartSub, AwaitCompleted, Get, Collect, Over,
        ReleaseSub, CloseLastSub
  <2> QED
    BY <1>1, <2>1 DEF Goes
<1> QED
  BY <1>2, <1>3, <1>4

\* A subscriber acts alone, or is the last one that a barrier waits for.
LastOf(s) == /\ \A r \in Subs : r # s => Resumes(r)
             /\ \/ pc[s] = "get" /\ pc'[s] = "collect"
                \/ pc[s] = "over" /\ pc'[s] = "clearFlag"
                \/ /\ pc[s] \in {"idle", "canceled", "eos", "closeFlush"}
                   /\ pc'[s] = "closeLast"

LEMMA AloneOrLast ==
  ASSUME TypeOK, Listed, AllExpected', NEW s \in Subs, SubStep(s),
         pc[s] = "over" => subBarrier # 0
  PROVE  \/ Alone(s) /\ pc'[s] \notin {"collect", "clearFlag", "closeLast"}
         \/ LastOf(s)
<1>0. PlacesOK(pc) /\ s \in Actors /\ Goes(pc[s], pc'[s])
  BY SubGoes DEF TypeOK, Actors
<1> USE DEF At
<1>1. /\ EndSub(s) => subBarrier' # 0
      /\ ~EndSub(s) => subBarrier' = subBarrier
  BY SubRegistry
<1>2. CASE EndSub(s)
  <2>1. Arrive(s, Subs, Cardinality(Subs), "endBarrier", "collect") /\ pc[s] = "get"
    BY <1>1, <1>2 DEF EndSub, AllExpected
  <2> QED
    BY <1>0, <2>1, ArriveAll DEF SubPlaces, AtBarrier, LastOf
<1>3. CASE Over(s)
  <2>1. ~EndSub(s)
    BY <1>3 DEF Over, EndSub
  <2>2. Arrive(s, Subs, Cardinality(Subs), "overBarrier", "clearFlag") /\ pc[s] = "over"
    BY <1>1, <1>3, <2>1 DEF Over, AllExpected
  <2> QED
    BY <1>0, <2>2, ArriveAll DEF SubPlaces, AtBarrier, LastOf
<1>4. CASE CloseSub(s) \/ CloseFlushSub(s)
  <2>1. ~EndSub(s) /\ pc[s] \in {"idle", "canceled", "eos", "closeFlush"}
    BY <1>4 DEF CloseSub, Closes, CloseFlushSub, EndSub
  <2>2. CASE pc' \in {Goto(s, "closed"), Goto(s, "closeFlush")}
    BY <1>0, <2>2, GotoPlaces, ActorsAssumption DEF SubPlaces, Alone, Waits, Actors
  <2>3. CASE subBarrier # 0 /\ Arrive(s, Subs, subBarrier, "closeBarrier", "closeLast")
    <3>1. Arrive(s, Subs, Cardinality(Subs), "closeBarrier", "closeLast")
      BY <1>1, <2>1, <2>3 DEF AllExpected
    <3> QED
      BY <1>0, <2>1, <3>1, ArriveAll DEF SubPlaces, AtBarrier, LastOf
  <2> QED
    BY <1>4, <2>2, <2>3 DEF CloseSub, CloseFlushSub, LeaveSub, ArriveToClose
<1>5. CASE ~Arrives(s)
  <2>1. Alone(s)
    BY <1>0, <1>5, SubGoes
  <2>2. pc'[s] \notin {"collect", "clearFlag", "closeLast"}
    <3>1. ~(pc[s] \in {"get", "over", "closeFlush"})
      BY <1>5
      DEF SubStep, Open, BeginSub, Begins, AwaitFirst, StartSub, AwaitCompleted, Get,
          Collect, ReleaseSub, CloseLastSub, Arrives
    <3>2. BeginSub(s) => pc'[s] # "closeLast"
      BY <1>0, BeginGoes
    <3>3. pc[s] \in {"idle", "canceled", "eos"} => BeginSub(s)
      BY <1>5
      DEF SubStep, Open, AwaitFirst, StartSub, AwaitCompleted, Get, Collect,
          ReleaseSub, CloseLastSub, Arrives
    <3> QED
      BY <1>0, <3>1, <3>2, <3>3 DEF Goes
  <2> QED
    BY <2>1, <2>2
<1> QED
  BY <1>2, <1>3, <1>4, <1>5 DEF Arrives

-----------------------------------------------------------------------------
(* A cancellation leaves no subscriber asleep                               *)

\* A subscriber that has not joined its first transaction.
FirstPlaces == {"first", "cvFirst", "start"}
SomeFirst == \E s \in Subs : pc[s] \in FirstPlaces

\* Past the first barrier of the end of a transaction.
Mid == {"collect", "over", "overBarrier"}
Past == Mid \cup {"release", "clearFlag"}

NoneBefore == currentSub = 0 => /\ ~subInProgress
                                /\ \A s \in Subs : pc[s] \notin Counted
NonePast == AllExpected /\ SomeFirst => \A s \in Subs : pc[s] \notin Past

\* While it has not, no transaction ends in order.
OutOfOrder ==
  AllExpected /\ SomeFirst /\ currentSub > 0 /\ ~subInProgress =>
    pubStreamEnded \/ canceledTx \in 1..currentSub

WakeInv == /\ Listed /\ NoneBefore /\ NonePast /\ OutOfOrder
           /\ CancellationWakesSubscribers

\* A subscriber that is at most woken stays in the same part of the protocol.
LEMMA WaitsApart ==
  ASSUME NEW r, Waits(r)
  PROVE  /\ pc'[r] \in FirstPlaces <=> pc[r] \in FirstPlaces
         /\ pc'[r] \in Past <=> pc[r] \in Past
         /\ pc'[r] \in Counted <=> pc[r] \in Counted
         /\ pc'[r] \in Outside <=> pc[r] \in Outside
         /\ pc'[r] \in CondVars => pc'[r] = pc[r]
BY DEF Waits, Wakes, FirstPlaces, Past, Mid, Counted, Outside, CondVars

\* Steps that leave the subscribers where they are keep the invariant.
LEMMA WakeUndisturbed ==
  ASSUME WakeInv, \A s \in Subs : Waits(s),
         UNCHANGED <<subBarrier, subscribers, currentSub, subInProgress>>,
         pubStreamEnded => pubStreamEnded',
         \/ canceledTx' = canceledTx
         \/ canceledTx = 0 /\ \A s \in Subs : pc'[s] \notin CondVars
  PROVE  WakeInv'
<1>1. Listed' /\ NoneBefore' /\ NonePast'
  BY WaitsApart DEF WakeInv, Listed, NoneBefore, NonePast, AllExpected, SomeFirst
<1>2. OutOfOrder'
  <2>1. AllExpected' = AllExpected /\ SomeFirst' = SomeFirst
    BY WaitsApart DEF AllExpected, SomeFirst
  <2> QED
    BY <2>1 DEF WakeInv, OutOfOrder
<1>3. CancellationWakesSubscribers'
  BY WaitsApart
  DEF WakeInv, CancellationWakesSubscribers, AllExpected, Canceled, CondVars
<1> QED
  BY <1>1, <1>2, <1>3 DEF WakeInv

\* What joining a transaction, and leaving one, does to the subscribers' side.
LEMMA SubSideMoves ==
  ASSUME TypeOK, NEW s \in Subs, SubStep(s)
  PROVE  /\ \/ JoinTransaction(s) /\ pc'[s] = "await" /\ (BeginSub(s) \/ StartSub(s))
            \/ currentSub' = currentSub /\ (subInProgress' => subInProgress)
         /\ subInProgress /\ ~subInProgress' =>
              \/ AwaitCompleted(s) /\ AwaitOutcome \in {"canceled", "eos"}
              \/ pc[s] \in Past
<1> USE DEF At
<1>0. PlacesOK(pc) /\ s \in Actors
  BY DEF TypeOK, Actors
<1>1. ASSUME JoinTransaction(s)
      PROVE  pc'[s] = "await" /\ subInProgress'
  BY <1>0, <1>1, JoinAwaits DEF JoinTransaction
<1>2. CASE BeginSub(s) \/ StartSub(s)
  BY <1>1, <1>2 DEF BeginSub, StartSub, subSide
<1>3. CASE AwaitCompleted(s)
  BY <1>3 DEF AwaitCompleted
<1>4. CASE Collect(s) \/ ReleaseSub(s)
  BY <1>4 DEF Collect, ReleaseSub, Past, Mid
<1>5. CASE Open(s) \/ AwaitFirst(s) \/ EndSub(s) \/ Over(s) \/ CloseSub(s)
             \/ CloseFlushSub(s) \/ CloseLastSub(s)
             \/ \E wanted \in SUBSET Pubs : Get(s, wanted)
  BY <1>5 DEF Open, AwaitFirst, EndSub, Over, CloseSub, CloseFlushSub,
              CloseLastSub, Get, subSide
<1> QED
  BY <1>2, <1>3, <1>4, <1>5 DEF SubStep

LEMMA WakeSub ==
  ASSUME TypeOK, SleepInv, WakeInv, NEW s \in Subs, SubStep(s)
  PROVE  WakeInv'
<1>0. /\ PlacesOK(pc) /\ currentSub \in Nat /\ completedPub \in Nat
      /\ canceledTx \in Nat /\ subInProgress \in BOOLEAN
      /\ s \in Actors /\ Goes(pc[s], pc'[s])
  BY SubGoes DEF TypeOK, Actors
<1>1. Listed' /\ (AllExpected' => AllExpected)
  BY SubRegistry DEF WakeInv
<1>2. UNCHANGED <<canceledTx, pubStreamEnded, completedPub>>
  BY DEF SubStep, Open, BeginSub, AwaitFirst, StartSub, AwaitCompleted, Get,
         EndSub, Collect, Over, ReleaseSub, CloseSub, CloseFlushSub,
         CloseLastSub, status, pubSide
<1>3. \A r \in Subs : r # s => /\ pc'[r] \in FirstPlaces => pc[r] \in FirstPlaces
                               /\ pc'[r] \in Counted <=> pc[r] \in Counted
                               /\ pc'[r] \in CondVars => pc'[r] = pc[r]
  <2>1. \A r \in Subs : r # s => StaysInside(r) /\ Bystander(r)
    BY <1>0, SubMoves
  <2> QED
    BY <2>1, WaitsApart DEF Bystander, StaysInside, FirstPlaces, CondVars
<1>4. /\ \/ JoinTransaction(s) /\ pc'[s] = "await" /\ (BeginSub(s) \/ StartSub(s))
         \/ currentSub' = currentSub /\ (subInProgress' => subInProgress)
      /\ subInProgress /\ ~subInProgress' =>
           \/ AwaitCompleted(s) /\ AwaitOutcome \in {"canceled", "eos"}
           \/ pc[s] \in Past
  BY SubSideMoves
<1>5. JoinTransaction(s) =>
        /\ currentSub' = IF subInProgress THEN currentSub ELSE currentSub + 1
        /\ subInProgress'
  BY DEF JoinTransaction
\* A subscriber that begins its first transaction.
<1>6. pc'[s] \in FirstPlaces /\ pc[s] \notin FirstPlaces =>
        currentSub = 0 /\ currentSub' = 0 /\ Alone(s)
  <2>1. SUFFICES ASSUME pc'[s] \in FirstPlaces, pc[s] \notin FirstPlaces
                 PROVE  currentSub = 0 /\ currentSub' = 0 /\ Alone(s)
    OBVIOUS
  <2>2. pc[s] \in {"idle", "canceled"} /\ pc'[s] = "first"
    BY <1>0, <2>1 DEF Goes, FirstPlaces
  <2>3. ~Arrives(s) /\ BeginSub(s)
    <3>1. CASE CloseSub(s)
      <4>1. {"closeBarrier", "closeLast"} \subseteq SubPlaces
        BY DEF SubPlaces
      <4>2. \/ pc' \in {Goto(s, "closed"), Goto(s, "closeFlush")}
            \/ Arrive(s, Subs, subBarrier, "closeBarrier", "closeLast")
        BY <3>1 DEF CloseSub, LeaveSub, ArriveToClose
      <4>3. pc'[s] # "first"
        BY <1>0, <4>1, <4>2, ArriveSubs DEF Goto, PlacesOK
      <4> QED
        BY <2>2, <4>3
    <3> QED
      BY <2>2, <3>1
      DEF SubStep, Open, AwaitFirst, StartSub, AwaitCompleted, Get, EndSub, At,
          Collect, Over, ReleaseSub, CloseFlushSub, CloseLastSub, Arrives
  <2>4. ~JoinTransaction(s)
    BY <1>0, <2>2, JoinAwaits
  <2>5. pc' # Goto(s, "canceled")
    BY <1>0, <2>2 DEF Goto, PlacesOK
  <2>6. currentSub = 0 /\ currentSub' = currentSub
    BY <2>3, <2>4, <2>5 DEF BeginSub, subSide
  <2> QED
    BY <1>0, <2>3, <2>6, SubGoes
<1>7. NoneBefore'
  <2>1. SUFFICES ASSUME currentSub' = 0
                 PROVE  ~subInProgress' /\ \A r \in Subs : pc'[r] \notin Counted
    BY DEF NoneBefore
  <2>2. currentSub = 0 /\ ~JoinTransaction(s)
    BY <1>0, <1>4, <1>5, <2>1 DEF WakeInv, NoneBefore
  <2>3. ~subInProgress /\ \A r \in Subs : pc[r] \notin Counted
    BY <2>2 DEF WakeInv, NoneBefore
  <2>4. pc'[s] \notin Counted
    <3>1. pc'[s] # "await"
      <4>1. pc'[s] = "await" => Joins(s)
        BY <1>0, <2>3, SubMoves DEF Joins, Leaves, Stays, Inside, StaysInside, Counted
      <4>2. UNCHANGED numStarting \/ BeginSub(s) \/ StartSub(s) \/ pc[s] \in Counted
        BY DEF SubStep, Open, AwaitFirst, AwaitCompleted, Get, EndSub, At, Counted,
               Collect, Over, ReleaseSub, CloseSub, CloseFlushSub, CloseLastSub, subSide
      <4>3. numStarting \in Nat
        BY DEF TypeOK
      <4> QED
        BY <2>2, <2>3, <4>1, <4>2, <4>3 DEF Joins, BeginSub, StartSub, subSide
    <3> QED
      BY <1>0, <2>3, <3>1 DEF Goes, Counted
  <2> QED
    BY <1>3, <1>4, <2>2, <2>3, <2>4
<1>8. AllExpected' /\ SomeFirst /\ (\A r \in Subs : pc[r] \notin Past) =>
        \A r \in Subs : pc'[r] \notin Past
  <2>1. SUFFICES ASSUME AllExpected', SomeFirst, \A r \in Subs : pc[r] \notin Past
                 PROVE  \A r \in Subs : pc'[r] \notin Past
    OBVIOUS
  <2>2. pc[s] # "over"
    BY <2>1 DEF Past, Mid
  <2>3. ~LastOf(s)
    <3>1. PICK r \in Subs : pc[r] \in FirstPlaces
      BY <2>1 DEF SomeFirst
    <3> QED
      BY <3>1 DEF LastOf, Resumes, FirstPlaces
  <2>4. Alone(s) /\ pc'[s] \notin {"collect", "clearFlag", "closeLast"}
    BY <2>1, <2>2, <2>3, AloneOrLast DEF WakeInv
  <2>5. pc'[s] \notin Past
    BY <1>0, <2>1, <2>4 DEF Goes, Past, Mid
  <2> QED
    BY <2>1, <2>4, <2>5, WaitsApart DEF Alone
<1>9. NonePast'
  <2>1. CASE SomeFirst
    BY <1>1, <1>8, <2>1 DEF WakeInv, NonePast
  <2>2. CASE ~SomeFirst
    <3>1. SUFFICES ASSUME SomeFirst'
                   PROVE  \A r \in Subs : pc'[r] \notin Past
      BY DEF NonePast
    <3>2. pc'[s] \in FirstPlaces /\ pc[s] \notin FirstPlaces
      BY <1>3, <2>2, <3>1 DEF SomeFirst
    <3>3. \A r \in Subs : pc'[r] \notin Counted
      BY <1>6, <1>7, <3>2 DEF NoneBefore
    <3> QED
      BY <3>3 DEF Past, Mid, Counted
  <2> QED
    BY <2>1, <2>2
<1>10. OutOfOrder'
  <2>1. SUFFICES ASSUME AllExpected', SomeFirst', currentSub' > 0, ~subInProgress'
                 PROVE  pubStreamEnded' \/ canceledTx' \in 1..currentSub'
    BY DEF OutOfOrder
  <2>2. SomeFirst /\ \A r \in Subs : pc[r] \notin Past
    BY <1>1, <1>3, <1>6, <2>1 DEF SomeFirst, WakeInv, NonePast
  <2>3. currentSub' = currentSub
    BY <1>4, <1>5, <2>1
  <2>4. CASE ~subInProgress
    BY <1>1, <1>2, <2>1, <2>2, <2>3, <2>4 DEF WakeInv, OutOfOrder
  <2>5. CASE subInProgress
    <3>1. AwaitOutcome \in {"canceled", "eos"}
      BY <1>4, <2>1, <2>2, <2>5
    <3>2. pubStreamEnded \/ canceledTx = currentSub
      BY <3>1 DEF AwaitOutcome, Canceled
    <3> QED
      BY <1>0, <1>2, <2>1, <2>3, <3>2
  <2> QED
    BY <2>4, <2>5, <1>0
<1>11. CancellationWakesSubscribers'
  <2>1. ASSUME NEW r \in Subs, pc'[r] = "cvFirst"
        PROVE  ~(canceledTx' = currentSub' + 1)
    <3>1. /\ currentSub' = 0
          /\ canceledTx' # 1
      <4>1. SleepInv'
        BY SleepSub
      <4> QED
        BY <2>1, <4>1 DEF SleepInv, SubscribersSleepForAReason
    <3> QED
      BY <3>1
  <2>2. ASSUME NEW r \in Subs, pc'[r] = "cvCompleted", AllExpected'
        PROVE  canceledTx' # currentSub'
    <3>1. CASE pc[r] # "cvCompleted"
      <4>1. r = s
        BY <1>3, <2>2, <3>1 DEF CondVars
      <4>2. pc[s] = "await"
        BY <1>0, <2>2, <3>1, <4>1 DEF Goes
      <4>3. AwaitCompleted(s)
        BY <4>2
        DEF SubStep, Open, BeginSub, Begins, AwaitFirst, StartSub, Get, EndSub, At,
            Collect, Over, ReleaseSub, CloseSub, Closes, CloseFlushSub, CloseLastSub
      <4>4. AwaitOutcome = "cvCompleted" /\ currentSub' = currentSub
        BY <1>0, <2>2, <4>1, <4>3 DEF AwaitCompleted, Goto, PlacesOK
      <4> QED
        BY <1>2, <4>4 DEF AwaitOutcome, Canceled
    <3>2. CASE pc[r] = "cvCompleted"
      <4>1. /\ canceledTx # currentSub /\ completedPub < currentSub
            /\ ~pubStreamEnded
        BY <1>1, <2>2, <3>2
        DEF WakeInv, CancellationWakesSubscribers, Canceled, SleepInv,
            SubscribersSleepForAReason
      <4>2. CASE currentSub' = currentSub
        BY <1>2, <4>1, <4>2
      <4>3. CASE currentSub' # currentSub
        <5>1. /\ JoinTransaction(s) /\ (BeginSub(s) \/ StartSub(s))
              /\ ~subInProgress /\ currentSub' = currentSub + 1
          BY <1>4, <1>5, <4>3
        <5>2. CASE BeginSub(s)
          <6>1. ~Canceled(currentSub + 1)
            BY <4>3, <5>2 DEF BeginSub, subSide
          <6> QED
            BY <1>2, <5>1, <6>1 DEF Canceled
        <5>3. CASE StartSub(s)
          <6>1. SomeFirst
            BY <5>3 DEF StartSub, At, SomeFirst, FirstPlaces
          <6>2. currentSub > 0
            BY <1>0, <4>1
          <6>3. canceledTx \in 1..currentSub
            BY <1>1, <2>2, <4>1, <5>1, <6>1, <6>2 DEF WakeInv, OutOfOrder
          <6> QED
            BY <1>0, <1>2, <5>1, <6>3
        <5> QED
          BY <5>1, <5>2, <5>3
      <4> QED
        BY <4>2, <4>3
    <3> QED
      BY <3>1, <3>2
  <2> QED
    BY <2>1, <2>2 DEF CancellationWakesSubscribers, Canceled
<1> QED
  BY <1>1, <1>7, <1>9, <1>10, <1>11 DEF WakeInv

\* Publishers leave the subscribers' side alone.
LEMMA PubSpares ==
  ASSUME TypeOK, NEW p \in Pubs, PubStep(p)
  PROVE  /\ \A s \in Subs : Waits(s)
         /\ UNCHANGED <<subBarrier, subscribers, currentSub, subInProgress>>
         /\ canceledTx' = canceledTx
         /\ pubStreamEnded => pubStreamEnded'
<1>1. \A s \in Subs : Waits(s)
  BY PubMoves DEF TypeOK
<1>2. UNCHANGED <<subBarrier, subscribers>>
  BY ActorsAssumption
  DEF PubStep, Open, BeginPub, LockPub, Recheck, Flush, Put, EndPub, Commit, Serve,
      EndServe, ClearPub, ClosePub, CloseFlushPub, CloseLastPub, LeavePub, registry
<1>3. UNCHANGED <<currentSub, subInProgress>>
  BY DEF PubStep, Open, BeginPub, LockPub, Recheck, Flush, Put, EndPub, Commit,
         Serve, EndServe, ClearPub, ClosePub, CloseFlushPub, CloseLastPub, subSide
<1>4. canceledTx' = canceledTx /\ (pubStreamEnded => pubStreamEnded')
  BY DEF PubStep, Open, BeginPub, LockPub, Recheck, Flush, Put, EndPub, Commit,
         Serve, EndServe, ClearPub, ClosePub, CloseFlushPub, CloseLastPub, status
<1> QED
  BY <1>1, <1>2, <1>3, <1>4

LEMMA CancelSpares ==
  ASSUME TypeOK, \E tx \in 0..MaxTx : CancelTransaction(tx)
  PROVE  /\ \A s \in Subs : Waits(s)
         /\ \A s \in Subs : pc'[s] \notin CondVars
         /\ UNCHANGED <<subBarrier, subscribers, currentSub, subInProgress>>
         /\ pubStreamEnded => pubStreamEnded'
         /\ canceledTx = 0 /\ canceledTx' # 0
<1>1. PlacesOK(pc) /\ pc' = Notify(pc, CancelWakes) /\ CancelWakes = CondVars
  BY DEF CancelTransaction, TypeOK, CancelWakes, CondVars
<1>2. \A s \in Subs : Waits(s) /\ pc'[s] \notin CondVars
  BY <1>1, NotifyPlaces DEF Actors, Waits
<1>3. UNCHANGED <<subBarrier, subscribers, currentSub, subInProgress>>
  BY DEF CancelTransaction, registry, subSide
<1>4. pubStreamEnded => pubStreamEnded'
  BY DEF CancelTransaction
<1>5. canceledTx = 0 /\ canceledTx' # 0
  BY DEF CancelTransaction
<1> QED
  BY <1>2, <1>3, <1>4, <1>5

\* A cancellation wakes every subscriber that it concerns: one that sleeps
\* afterwards waits for another transaction.  This needs that all of them are
\* expected at the barrier (Engine.cpp:128-148, StagingEngine.cpp:113-117).
THEOREM CancelWakesStaging ==
  ASSUME MinTx > 0
  PROVE  Spec => []CancellationWakesSubscribers
<1>1. Init => SleepInv /\ WakeInv
  <2> SUFFICES ASSUME Init
               PROVE  SleepInv /\ WakeInv
    OBVIOUS
  <2>1. SleepInv
    BY SleepInit
  <2>2. \A s \in Subs : pc[s] = "new"
    BY DEF Init, Actors
  <2>3. Listed /\ NonePast /\ OutOfOrder /\ CancellationWakesSubscribers
    BY <2>2 DEF Listed, Outside, NonePast, OutOfOrder, SomeFirst, FirstPlaces,
                CancellationWakesSubscribers
  <2>4. NoneBefore
    BY <2>2 DEF Init, NoneBefore, Counted
  <2> QED
    BY <2>1, <2>3, <2>4 DEF WakeInv
<1>2. TypeOK /\ SleepInv /\ WakeInv /\ [Next]_vars => SleepInv' /\ WakeInv'
  <2> SUFFICES ASSUME TypeOK, SleepInv, WakeInv, [Next]_vars
               PROVE  SleepInv' /\ WakeInv'
    OBVIOUS
  <2>1. SleepInv'
    BY SleepPub, SleepSub, SleepEnvironment DEF Next, Terminated
  <2>2. ASSUME NEW p \in Pubs, PubStep(p) PROVE WakeInv'
    BY <2>2, PubSpares, WakeUndisturbed
  <2>3. ASSUME NEW s \in Subs, SubStep(s) PROVE WakeInv'
    BY <2>3, WakeSub
  <2>4. CASE \E tx \in 0..MaxTx : CancelTransaction(tx)
    BY <2>1, <2>4, CancelSpares, WakeUndisturbed
  <2>5. CASE (\E x \in Pairs : Transfer(x)) \/ UNCHANGED vars
    <3>1. UNCHANGED <<pc, registry, subSide, status>>
      BY <2>5 DEF Transfer, vars
    <3>2. \A s \in Subs : Waits(s)
      BY <3>1 DEF Waits
    <3>3. pubStreamEnded => pubStreamEnded'
      BY <3>1 DEF status
    <3>4. /\ UNCHANGED <<subBarrier, subscribers, currentSub, subInProgress>>
          /\ canceledTx' = canceledTx
      BY <3>1 DEF registry, subSide, status
    <3> QED
      BY <2>1, <3>2, <3>3, <3>4, WakeUndisturbed
  <2> QED
    BY <2>1, <2>2, <2>3, <2>4, <2>5 DEF Next, Terminated
<1>3. WakeInv => CancellationWakesSubscribers
  BY DEF WakeInv
<1> QED
  BY <1>1, <1>2, <1>3, TypeCorrect, PTL DEF Spec

-----------------------------------------------------------------------------
(* The end of a transaction means that its data has arrived                 *)

\* Everybody is past the first barrier when somebody is, or has closed.
MidTogether ==
  (\E s \in Subs : pc[s] \in Mid) =>
    \A s \in Subs : pc[s] \in Mid \cup {"closeLast", "closed"}

\* The last one at the first barrier has collected before all are at the next.
CollectedFirst ==
  (\A s \in Subs : pc[s] \in {"over", "overBarrier"}) => AllOver(gets)

NothingAsked ==
  \A x \in Pairs : pc[x[2]] \in {"new", "idle", "release", "clearFlag"} => gets[x] = 0

BarrierFirst ==
  subBarrier = 0 => \A s \in Subs : pc[s] \notin Mid \cup {"endBarrier", "closeBarrier"}

InOrder == canceledTx = 0 /\ AllExpected
EndInv == InOrder => MidTogether /\ CollectedFirst /\ NothingAsked /\ BarrierFirst

\* No reception that is over comes back.
KeepsOver(x) == gets[x] = 0 => gets'[x] = 0

LEMMA DrainsOver ==
  ASSUME TypeOK, NEW x \in Pairs, DrainPuts \/ DrainGets
  PROVE  KeepsOver(x)
<1>1. gets[x] \in Nat /\ puts[x] \in Nat
  BY DEF TypeOK
<1>2. CASE DrainGets
  BY <1>2 DEF DrainGets, NoActivity, KeepsOver
<1>3. CASE DrainPuts
  <2>1. gets'[x] = IF gets[x] > puts[x] THEN gets[x] - puts[x] ELSE 0
    BY <1>3 DEF DrainPuts, Unmatched
  <2> QED
    BY <1>1, <2>1 DEF KeepsOver
<1> QED
  BY <1>2, <1>3

LEMMA PubKeepsOver ==
  ASSUME TypeOK, NEW p \in Pubs, PubStep(p), NEW x \in Pairs
  PROVE  KeepsOver(x)
<1>1. CASE Flush(p) \/ CloseFlushPub(p)
  BY <1>1, DrainsOver DEF Flush, CloseFlushPub, activities, KeepsOver
<1>2. CASE ~(Flush(p) \/ CloseFlushPub(p))
  <2>1. gets' = gets
    BY <1>2
    DEF PubStep, Open, BeginPub, LockPub, Recheck, Put, EndPub, Commit, Serve,
        EndServe, ClearPub, ClosePub, CloseLastPub, transport, activities
  <2> QED
    BY <2>1 DEF KeepsOver
<1> QED
  BY <1>1, <1>2

LEMMA SubKeepsOver ==
  ASSUME TypeOK, NEW s \in Subs, SubStep(s), NEW x \in Pairs,
         x[2] # s \/ pc[s] # "tx"
  PROVE  KeepsOver(x)
<1>1. CASE Collect(s) \/ CloseFlushSub(s)
  BY <1>1, DrainsOver DEF Collect, CloseFlushSub, activities, KeepsOver
<1>2. CASE \E wanted \in SUBSET Pubs : Get(s, wanted)
  <2>1. PICK wanted \in SUBSET Pubs : Get(s, wanted)
    BY <1>2
  <2>2. x[2] # s
    BY <2>1 DEF Get, At
  <2>3. x \notin wanted \X {s}
    BY <2>2
  <2> QED
    BY <2>1, <2>3 DEF Get, KeepsOver
<1>3. CASE ~(Collect(s) \/ CloseFlushSub(s) \/ \E wanted \in SUBSET Pubs : Get(s, wanted))
  <2>1. gets' = gets
    BY <1>3
    DEF SubStep, Open, BeginSub, AwaitFirst, StartSub, AwaitCompleted, EndSub, Over,
        ReleaseSub, CloseSub, CloseLastSub, transport, activities
  <2> QED
    BY <2>1 DEF KeepsOver
<1> QED
  BY <1>1, <1>2, <1>3

\* Steps that leave the subscribers where they are keep the invariant.
LEMMA EndUndisturbed ==
  ASSUME EndInv, \A s \in Subs : Waits(s), \A x \in Pairs : KeepsOver(x),
         subBarrier' = subBarrier, canceledTx' = 0 => canceledTx = 0
  PROVE  EndInv'
<1>1. \A s \in Subs : \A at \in {"new", "idle", "release", "clearFlag", "closeLast",
                                 "closed", "endBarrier", "closeBarrier"} \cup Mid :
        pc'[s] = at <=> pc[s] = at
  BY DEF Waits, Wakes, Mid
<1>2. SUFFICES ASSUME InOrder'
               PROVE  (MidTogether /\ CollectedFirst /\ NothingAsked /\ BarrierFirst)'
  BY DEF EndInv
<1>3. MidTogether /\ CollectedFirst /\ NothingAsked /\ BarrierFirst
  BY <1>2 DEF EndInv, InOrder, AllExpected
<1>4. \A s \in Subs : /\ pc'[s] \in Mid <=> pc[s] \in Mid
                      /\ pc'[s] \in Mid \cup {"closeLast", "closed"}
                           <=> pc[s] \in Mid \cup {"closeLast", "closed"}
                      /\ pc'[s] \in Mid \cup {"endBarrier", "closeBarrier"}
                           <=> pc[s] \in Mid \cup {"endBarrier", "closeBarrier"}
                      /\ pc'[s] \in {"over", "overBarrier"}
                           <=> pc[s] \in {"over", "overBarrier"}
                      /\ pc'[s] \in {"new", "idle", "release", "clearFlag"}
                           <=> pc[s] \in {"new", "idle", "release", "clearFlag"}
  BY <1>1 DEF Mid
<1>5. MidTogether' /\ BarrierFirst'
  BY <1>3, <1>4 DEF MidTogether, BarrierFirst
<1>6. CollectedFirst'
  BY <1>3, <1>4 DEF CollectedFirst, AllOver, KeepsOver
<1>7. NothingAsked'
  BY <1>3, <1>4 DEF NothingAsked, KeepsOver, Pairs
<1> QED
  BY <1>5, <1>6, <1>7

LEMMA EndStep ==
  ASSUME TypeOK, AbortedOnlyByCancel, Listed, EndInv, NEW s \in Subs, SubStep(s)
  PROVE  EndInv'
<1>1. SUFFICES ASSUME InOrder'
               PROVE  (MidTogether /\ CollectedFirst /\ NothingAsked /\ BarrierFirst)'
  BY DEF EndInv
<1>0. PlacesOK(pc) /\ Goes(pc[s], pc'[s]) /\ s \in Actors
  BY SubGoes DEF TypeOK, Actors
<1>2. canceledTx' = canceledTx
  BY DEF SubStep, Open, BeginSub, AwaitFirst, StartSub, AwaitCompleted, Get,
         EndSub, Collect, Over, ReleaseSub, CloseSub, CloseFlushSub,
         CloseLastSub, status
<1>3. canceledTx = 0 /\ AllExpected /\ AllExpected' /\ ~subAborted
  BY <1>1, <1>2, SubRegistry DEF InOrder, AbortedOnlyByCancel
<1>4. MidTogether /\ CollectedFirst /\ NothingAsked /\ BarrierFirst
  BY <1>3 DEF EndInv, InOrder
<1>5. pc[s] = "over" => subBarrier # 0
  BY <1>4 DEF BarrierFirst, Mid
<1>6. \/ Alone(s) /\ pc'[s] \notin {"collect", "clearFlag", "closeLast"}
      \/ LastOf(s)
  BY <1>3, <1>5, AloneOrLast
<1>7. pc[s] = "collect" => pc'[s] = "over" /\ AllOver(gets) /\ gets' = gets
  <2>1. SUFFICES ASSUME pc[s] = "collect"
                 PROVE  pc'[s] = "over" /\ AllOver(gets) /\ gets' = gets
    OBVIOUS
  <2>2. Collect(s)
    BY <2>1
    DEF SubStep, Open, BeginSub, Begins, AwaitFirst, StartSub, AwaitCompleted, Get,
        EndSub, At, Over, ReleaseSub, CloseSub, Closes, CloseFlushSub, CloseLastSub
  <2> QED
    BY <1>0, <1>3, <2>2 DEF Collect, ReceptionsOver, activities, Goto, PlacesOK
<1>8. \A x \in Pairs : x[2] # s \/ pc[s] # "tx" => KeepsOver(x)
  BY SubKeepsOver
\* One that acts alone.
<1>9. CASE Alone(s) /\ pc'[s] \notin {"collect", "clearFlag", "closeLast"}
  <2>1. \A r \in Subs : r # s =>
          \A at \in {"new", "idle", "release", "clearFlag", "closeLast", "closed",
                     "endBarrier", "closeBarrier"} \cup Mid :
            pc'[r] = at <=> pc[r] = at
    BY <1>9 DEF Alone, Waits, Wakes, Mid
  <2>2. /\ pc'[s] \in Mid => pc[s] \in {"collect", "over"}
        /\ pc[s] \in Mid \cup {"closeLast", "closed"} =>
             pc'[s] \in Mid \cup {"closeLast", "closed"}
        /\ pc'[s] \in {"new", "idle", "release", "clearFlag"} =>
             pc[s] \in {"new", "release", "clearFlag"}
    BY <1>0, <1>7, <1>9 DEF Goes, Mid
  <2>3. MidTogether'
    BY <1>4, <2>1, <2>2 DEF MidTogether, Mid
  <2>4. CollectedFirst'
    <3>1. SUFFICES ASSUME \A r \in Subs : pc'[r] \in {"over", "overBarrier"}
                   PROVE  \A x \in Pairs : gets'[x] = 0
      BY DEF CollectedFirst, AllOver
    <3>2. pc[s] \in {"collect", "over"}
      BY <2>2, <3>1 DEF Mid
    <3>3. CASE pc[s] = "collect"
      BY <1>7, <3>3 DEF AllOver
    <3>4. CASE pc[s] = "over"
      <4>1. \A r \in Subs : pc[r] \in {"over", "overBarrier"}
        BY <2>1, <3>1, <3>4 DEF Mid
      <4> QED
        BY <1>4, <1>8, <3>4, <4>1 DEF CollectedFirst, AllOver, KeepsOver
    <3> QED
      BY <3>2, <3>3, <3>4
  <2>5. NothingAsked'
    <3>1. SUFFICES ASSUME NEW x \in Pairs,
                          pc'[x[2]] \in {"new", "idle", "release", "clearFlag"}
                   PROVE  gets'[x] = 0
      BY DEF NothingAsked
    <3>2. x[2] \in Subs
      BY DEF Pairs
    <3>3. pc[x[2]] \in {"new", "idle", "release", "clearFlag"}
      BY <2>1, <2>2, <3>1, <3>2
    <3> QED
      BY <1>4, <1>8, <3>3 DEF NothingAsked, KeepsOver
  <2>6. BarrierFirst'
    <3>1. SUFFICES ASSUME subBarrier' = 0
                   PROVE  \A r \in Subs : pc'[r] \notin Mid \cup {"endBarrier", "closeBarrier"}
      BY DEF BarrierFirst
    <3>2. ~EndSub(s) /\ subBarrier = 0
      BY <3>1, SubRegistry
    <3>3. \A r \in Subs : pc[r] \notin Mid \cup {"endBarrier", "closeBarrier"}
      BY <1>4, <3>2 DEF BarrierFirst
    <3>4. pc'[s] \notin {"endBarrier", "closeBarrier"}
      BY <1>0, <3>2, NoBarrierYet
    <3>5. pc'[s] \notin Mid
      BY <2>2, <3>3 DEF Mid
    <3> QED
      BY <2>1, <3>3, <3>4, <3>5
  <2> QED
    BY <2>3, <2>4, <2>5, <2>6
\* The last one at a barrier.
<1>10. CASE LastOf(s)
  <2>1. \A r \in Subs : r # s => Resumes(r)
    BY <1>10 DEF LastOf
  <2>2. CASE pc[s] = "over" /\ pc'[s] = "clearFlag"
    <3>1. \A r \in Subs : r # s => pc[r] = "overBarrier" /\ pc'[r] = "release"
      BY <1>4, <2>1, <2>2 DEF MidTogether, Mid, Resumes
    <3>2. AllOver(gets)
      BY <1>4, <2>2, <3>1 DEF CollectedFirst
    <3>3. \A x \in Pairs : gets'[x] = 0
      BY <1>8, <2>2, <3>2 DEF AllOver, KeepsOver
    <3>4. \A r \in Subs : pc'[r] \in {"release", "clearFlag"}
      BY <2>2, <3>1
    <3> QED
      BY <3>3, <3>4
      DEF MidTogether, CollectedFirst, NothingAsked, BarrierFirst, AllOver, Mid
  <2>3. CASE ~(pc[s] = "over" /\ pc'[s] = "clearFlag")
    <3>1. pc'[s] \in {"collect", "closeLast"} /\ pc[s] \notin Mid \cup {"closeLast", "closed", "tx"}
      BY <1>10, <2>3 DEF LastOf, Mid
    <3>2. \A r \in Subs : pc[r] \notin Mid
      BY <1>4, <3>1 DEF MidTogether
    <3>3. \A r \in Subs : r # s => pc'[r] \in {"over", "closed"}
      BY <2>1, <3>2 DEF Resumes, Mid
    <3>4. MidTogether' /\ CollectedFirst' /\ NothingAsked'
      <4>1. \A r \in Subs : pc'[r] \in {"collect", "closeLast", "over", "closed"}
        BY <3>1, <3>3
      <4>2. NothingAsked'
        BY <4>1 DEF NothingAsked, Pairs
      <4> QED
        BY <3>1, <4>1, <4>2 DEF MidTogether, CollectedFirst, Mid
    <3>5. subBarrier' # 0
      <4>1. CASE pc[s] = "get"
        <5>1. EndSub(s)
          BY <4>1
          DEF SubStep, Open, BeginSub, Begins, AwaitFirst, StartSub, AwaitCompleted,
              Get, At, Collect, Over, ReleaseSub, CloseSub, Closes, CloseFlushSub,
              CloseLastSub
        <5> QED
          BY <5>1, SubRegistry
      <4>2. CASE pc[s] # "get"
        <5>1. pc'[s] = "closeLast"
          BY <1>10, <2>3, <4>2 DEF LastOf
        <5>2. ~EndSub(s)
          BY <4>2 DEF EndSub, At
        <5> QED
          BY <1>0, <5>1, <5>2, NoBarrierYet, SubRegistry
      <4> QED
        BY <4>1, <4>2
    <3>6. BarrierFirst'
      BY <3>5 DEF BarrierFirst
    <3> QED
      BY <3>4, <3>6
  <2> QED
    BY <2>2, <2>3
<1> QED
  BY <1>6, <1>9, <1>10

\* What the end of a transaction rests on holds in every state: the subscribers
\* pass its barriers together, and nobody leaves before everything has arrived
\* (StagingEngine.cpp:226-273).
THEOREM EndIsInOrder == Spec => []EndInv
<1>1. Init => Listed /\ EndInv
  <2> SUFFICES ASSUME Init
               PROVE  Listed /\ EndInv
    OBVIOUS
  <2>1. \A s \in Subs : pc[s] = "new"
    BY DEF Init, Actors
  <2>2. \A x \in Pairs : gets[x] = 0
    BY DEF Init, NoActivity
  <2> QED
    BY <2>1, <2>2
    DEF Listed, Outside, EndInv, MidTogether, CollectedFirst, NothingAsked,
        BarrierFirst, AllOver, Mid
<1>2. TypeOK /\ AbortedOnlyByCancel /\ Listed /\ EndInv /\ [Next]_vars
        => Listed' /\ EndInv'
  <2> SUFFICES ASSUME TypeOK, AbortedOnlyByCancel, Listed, EndInv, [Next]_vars
               PROVE  Listed' /\ EndInv'
    OBVIOUS
  <2>1. ASSUME \A s \in Subs : Waits(s), UNCHANGED subscribers
        PROVE  Listed'
    BY <2>1, WaitsApart DEF Listed
  <2>2. ASSUME NEW p \in Pubs, PubStep(p)
        PROVE  Listed' /\ EndInv'
    BY <2>1, <2>2, PubSpares, PubKeepsOver, EndUndisturbed
  <2>3. ASSUME NEW s \in Subs, SubStep(s)
        PROVE  Listed' /\ EndInv'
    BY <2>3, SubRegistry, EndStep
  <2>4. CASE \E tx \in 0..MaxTx : CancelTransaction(tx)
    <3>1. Listed'
      BY <2>1, <2>4, CancelSpares
    <3>2. EndInv'
      BY <2>4, CancelSpares DEF EndInv, InOrder
    <3> QED
      BY <3>1, <3>2
  <2>5. CASE (\E x \in Pairs : Transfer(x)) \/ UNCHANGED vars
    <3>1. UNCHANGED <<pc, registry, status>>
      BY <2>5 DEF Transfer, vars
    <3>2. \A s \in Subs : Waits(s)
      BY <3>1 DEF Waits
    <3>3. ASSUME NEW y \in Pairs
          PROVE  KeepsOver(y)
      <4>1. CASE UNCHANGED vars
        BY <4>1 DEF vars, transport, activities, KeepsOver
      <4>2. CASE \E x \in Pairs : Transfer(x)
        <5>1. PICK x \in Pairs : Transfer(x)
          BY <4>2
        <5>2. gets \in [Pairs -> Nat] /\ gets[x] > 0
          BY <5>1 DEF Transfer, InFlight, TypeOK
        <5>3. y # x => gets'[y] = gets[y]
          BY <5>1, <5>2 DEF Transfer
        <5> QED
          BY <5>2, <5>3 DEF KeepsOver
      <4> QED
        BY <2>5, <4>1, <4>2
    <3>4. UNCHANGED <<subscribers, subBarrier, canceledTx>>
      BY <3>1 DEF registry, status
    <3> QED
      BY <2>1, <3>2, <3>3, <3>4, EndUndisturbed
  <2> QED
    BY <2>2, <2>3, <2>4, <2>5 DEF Next, Terminated
<1> QED
  BY <1>1, <1>2, TypeCorrect, AbortMeansCanceled, PTL DEF Spec

\* What a subscriber asked for has arrived when it leaves the transaction, unless
\* there was a cancellation: whoever is the last one at the first barrier waits for
\* all receptions, and nobody passes the second one before
\* (StagingEngine.cpp:226-273).
THEOREM EndHasReceived == Spec => []EndMeansReceived
<1>1. EndInv => EndMeansReceived
  BY DEF EndInv, InOrder, NothingAsked, EndMeansReceived
<1> QED
  BY <1>1, EndIsInOrder, PTL
=============================================================================
