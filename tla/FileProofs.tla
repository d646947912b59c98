------------------------------ MODULE FileProofs ------------------------------
(***************************************************************************)
(* What FileProperties states of every client, proved for any number of    *)
(* publishers, subscribers and transactions; that a closed file is         *)
(* complete turns out to hold for every client too.                        *)
(***************************************************************************)
EXTENDS FileProperties, FiniteSetTheorems, WellFoundedInduction, TLAPS

-----------------------------------------------------------------------------
(* Positions of the actors                                                  *)

CondVars == {"cvFlush", "cvClose", "cvWritten", "cvCompleted"}

\* What a notification, and the last arrival at a barrier, do to an actor.
Wakes(from, to) == \/ from = "cvFlush" /\ to = "flush"
                   \/ from = "cvClose" /\ to = "closing"
                   \/ from = "cvWritten" /\ to = "written"
                   \/ from = "cvCompleted" /\ to = "await"
Resumes(from, to) == \/ from = "endBarrier" /\ to = "idle"
                     \/ from = "closeBarrier" /\ to = "closed"

\* Actor b does not act, but may be woken or resumed.
Waits(b) == \/ pc'[b] = pc[b]
            \/ Wakes(pc[b], pc'[b])
            \/ Resumes(pc[b], pc'[b])
Others(a) == \A b \in Actors : b # a => Waits(b)

LEMMA Sides == /\ Pubs \subseteq Actors /\ Subs \subseteq Actors
               /\ \A p \in Pubs : p \notin Subs
BY ActorsAssumption DEF Actors

\* A move of one actor keeps every actor at a place of its side.
LEMMA GotoPlaces ==
  ASSUME PlacesOK(pc), NEW a \in Actors, NEW to,
         a \in Pubs => to \in PubPlaces, a \in Subs => to \in SubPlaces
  PROVE  /\ PlacesOK(Goto(a, to))
         /\ Goto(a, to)[a] = to
         /\ \A b \in Actors : b # a => Goto(a, to)[b] = pc[b]
BY DEF PlacesOK, Goto, Actors

\* A notification wakes those that wait on these condition variables, and
\* keeps every actor at a place of its side.
LEMMA NotifyPlaces ==
  ASSUME NEW f, PlacesOK(f), NEW cvs \in SUBSET CondVars
  PROVE  /\ PlacesOK(Notify(f, cvs))
         /\ \A a \in Actors :
              /\ f[a] \notin cvs => Notify(f, cvs)[a] = f[a]
              /\ f[a] \in cvs => Wakes(f[a], Notify(f, cvs)[a])
<1>1. \A a \in Actors : f[a] \in cvs => Wakes(f[a], Woken(f[a]))
  BY DEF CondVars, Woken, Wakes
<1>2. \A a \in Actors : Notify(f, cvs)[a] = IF f[a] \in cvs THEN Woken(f[a]) ELSE f[a]
  BY DEF Notify
<1>3. ASSUME NEW from, NEW to, Wakes(from, to)
      PROVE  /\ from \in PubPlaces => to \in PubPlaces
             /\ from \in SubPlaces => to \in SubPlaces
  BY <1>3 DEF Wakes, PubPlaces, SubPlaces
<1>4. PlacesOK(Notify(f, cvs))
  <2>1. /\ \A p \in Pubs : Notify(f, cvs)[p] \in PubPlaces
        /\ \A s \in Subs : Notify(f, cvs)[s] \in SubPlaces
    BY <1>1, <1>2, <1>3, Sides DEF PlacesOK
  <2>2. Notify(f, cvs) = [a \in Actors |-> Notify(f, cvs)[a]]
    BY DEF Notify
  <2> QED
    BY <2>1, <2>2 DEF PlacesOK, Actors
<1> QED
  BY <1>1, <1>2, <1>4

\* Barrier::wait moves the caller to one of two places and resumes actors of
\* its side.
LEMMA ArrivePlaces ==
  ASSUME PlacesOK(pc), NEW side \in {Pubs, Subs}, NEW a \in side,
         NEW size, NEW at, NEW last,
         a \in Pubs => {at, last} \subseteq PubPlaces,
         a \in Subs => {at, last} \subseteq SubPlaces,
         Arrive(a, side, size, at, last)
  PROVE  PlacesOK(pc') /\ Others(a) /\ pc'[a] \in {at, last}
<1> DEFINE waiting == {b \in side : pc[b] \in AtBarrier}
<1>1. \A b \in waiting : Resumes(pc[b], Resumed(pc[b]))
  BY DEF AtBarrier, Resumed, Resumes
<1>2. a \in Actors
  BY Sides
<1>3. CASE pc' = Goto(a, at)
  BY <1>2, <1>3, GotoPlaces DEF Others, Waits
<1>4. CASE pc' = [b \in Actors |-> IF b = a THEN last
                                   ELSE IF b \in waiting THEN Resumed(pc[b])
                                   ELSE pc[b]]
  <2>1. /\ pc'[a] = last
        /\ \A b \in Actors : b # a => \/ pc'[b] = pc[b]
                                      \/ Resumes(pc[b], pc'[b])
    BY <1>1, <1>2, <1>4
  <2>2. ASSUME NEW from, NEW to, Resumes(from, to)
        PROVE  to \in PubPlaces /\ to \in SubPlaces
    BY <2>2 DEF Resumes, PubPlaces, SubPlaces
  <2>3. /\ \A p \in Pubs : pc'[p] \in PubPlaces
        /\ \A s \in Subs : pc'[s] \in SubPlaces
    BY <1>2, <2>1, <2>2, Sides DEF PlacesOK
  <2>4. pc' = [b \in Actors |-> pc'[b]]
    BY <1>4
  <2> QED
    BY <2>1, <2>3, <2>4 DEF PlacesOK, Others, Waits, Actors
<1> QED
  BY <1>3, <1>4 DEF Arrive

\* A step of an actor moves itself, never back to where it has yet to open
\* the stream, and wakes or resumes others.
LEMMA PubMoves ==
  ASSUME PlacesOK(pc), NEW p \in Pubs, PubStep(p)
  PROVE  PlacesOK(pc') /\ Others(p) /\ pc'[p] # "new"
<1>0. p \in Actors /\ p \notin Subs
  BY Sides
<1>1. ASSUME NEW to \in PubPlaces \ {"new"}, pc' = Goto(p, to)
      PROVE  PlacesOK(pc') /\ Others(p) /\ pc'[p] # "new"
  BY <1>0, <1>1, GotoPlaces DEF Others, Waits
<1>2. ASSUME NEW to \in PubPlaces \ {"new"}, NEW cvs \in SUBSET CondVars,
             pc' = Notify(Goto(p, to), cvs)
      PROVE  PlacesOK(pc') /\ Others(p) /\ pc'[p] # "new"
  <2>1. /\ PlacesOK(Goto(p, to)) /\ Goto(p, to)[p] = to
        /\ \A b \in Actors : b # p => Goto(p, to)[b] = pc[b]
    BY <1>0, GotoPlaces
  <2>2. pc'[p] # "new"
    BY <1>0, <1>2, <2>1, NotifyPlaces DEF Wakes
  <2> QED
    BY <1>2, <2>1, <2>2, NotifyPlaces DEF Others, Waits
<1>3. CASE Open(p)
  BY <1>1, <1>3 DEF Open, PubPlaces
<1>4. CASE BeginPub(p) \/ RecheckFlush(p)
  <2>1. \E to \in {"canceled", "flushLock", "tx"} : pc' = Goto(p, to)
    BY <1>4 DEF BeginPub, RecheckFlush, Flush
  <2> QED
    BY <1>1, <2>1 DEF PubPlaces
<1>5. CASE LockToFlush(p) \/ Put(p) \/ LockToClose(p)
  BY <1>1, <1>5 DEF LockToFlush, Put, LockToClose, PubPlaces
<1>6. CASE EndPub(p)
  <2>1. Arrive(p, Pubs, pubBarrier', "endBarrier", "commit")
    BY <1>6 DEF EndPub
  <2>2. {"endBarrier", "commit"} \subseteq PubPlaces
    BY DEF PubPlaces
  <2> QED
    BY <1>0, <2>1, <2>2, ArrivePlaces
<1>7. CASE Commit(p) \/ CloseLastPub(p)
  <2>1. \/ pc' = Notify(Goto(p, "idle"), CommitWakes)
        \/ pc' = Notify(Goto(p, "closed"), EndWakes)
    BY <1>7 DEF Commit, CloseLastPub
  <2>2. {"idle", "closed"} \subseteq PubPlaces \ {"new"}
    BY DEF PubPlaces
  <2>3. CommitWakes \subseteq CondVars /\ EndWakes \subseteq CondVars
    BY DEF CommitWakes, EndWakes, CondVars
  <2> QED
    BY <1>2, <2>1, <2>2, <2>3
<1>8. CASE ClosePub(p)
  <2>1. \/ pc' \in {Goto(p, "closeLock"), Goto(p, "closed")}
        \/ Arrive(p, Pubs, pubBarrier, "closeBarrier", "closeLast")
    BY <1>8 DEF ClosePub, LeavePub, ArriveToClose
  <2>2. {"closeLock", "closed", "closeBarrier", "closeLast"} \subseteq PubPlaces
    BY DEF PubPlaces
  <2> QED
    BY <1>0, <1>1, <2>1, <2>2, ArrivePlaces
<1> QED
  BY <1>3, <1>4, <1>5, <1>6, <1>7, <1>8 DEF PubStep

LEMMA SubMoves ==
  ASSUME PlacesOK(pc), NEW s \in Subs, SubStep(s)
  PROVE  PlacesOK(pc') /\ Others(s) /\ pc'[s] # "new"
<1>0. s \in Actors /\ s \notin Pubs
  BY Sides
<1>1. ASSUME NEW to \in SubPlaces \ {"new"}, pc' = Goto(s, to)
      PROVE  PlacesOK(pc') /\ Others(s) /\ pc'[s] # "new"
  BY <1>0, <1>1, GotoPlaces DEF Others, Waits
<1>2. CASE Open(s)
  BY <1>1, <1>2 DEF Open, SubPlaces
<1>3. CASE BeginSub(s)
  <2>1. \E to \in {"canceled", "await", "eos", "tx"} : pc' = Goto(s, to)
    BY <1>3 DEF BeginSub
  <2> QED
    BY <1>1, <2>1 DEF SubPlaces
<1>4. CASE AwaitCompleted(s)
  <2>1. AwaitOutcome \in SubPlaces \ {"new"}
    BY DEF AwaitOutcome, SubPlaces
  <2> QED
    BY <1>1, <1>4, <2>1 DEF AwaitCompleted
<1>5. CASE \/ \E wanted \in SUBSET Pubs : Get(s, wanted)
           \/ LockToRead(s) \/ CloseLastSub(s)
  BY <1>1, <1>5 DEF Get, LockToRead, CloseLastSub, SubPlaces
<1>6. CASE \/ EndSub(s) \/ AwaitWritten(s) \/ ReadAborted(s) \/ ReadOver(s)
           \/ CountRead(s) \/ EvictRead(s)
  <2>1. \E to \in {"readLock", "canceled", "readOver", "read", "count", "evict",
                   "idle"} :
          pc' = Goto(s, to)
    BY <1>6
    DEF EndSub, AwaitWritten, ReadAborted, ReadOver, StartReads, AbortSub,
        CountRead, EvictRead
  <2> QED
    BY <1>1, <2>1 DEF SubPlaces
<1>7. CASE CloseSub(s)
  <2>1. \/ pc' = Goto(s, "closed")
        \/ Arrive(s, Subs, subBarrier, "closeBarrier", "closeLast")
    BY <1>7 DEF CloseSub, ArriveToClose
  <2>2. {"closed", "closeBarrier", "closeLast"} \subseteq SubPlaces
    BY DEF SubPlaces
  <2> QED
    BY <1>0, <1>1, <2>1, <2>2, ArrivePlaces
<1> QED
  BY <1>2, <1>3, <1>4, <1>5, <1>6, <1>7 DEF SubStep

\* The end of I/O and a cancellation end or abort reads, then notify.
Torn(f) == \A a \in Actors : \/ f[a] = pc[a]
                             \/ /\ a \in Subs /\ pc[a] = "read"
                                /\ f[a] \in {"readOver", "aborted"}
Freed(a) == \/ Waits(a)
            \/ pc[a] = "read" /\ pc'[a] \in {"readOver", "aborted"}

LEMMA TornMoves ==
  ASSUME PlacesOK(pc), NEW f, f = [a \in Actors |-> f[a]], Torn(f),
         NEW cvs \in SUBSET CondVars, pc' = Notify(f, cvs)
  PROVE  PlacesOK(pc') /\ \A a \in Actors : Freed(a)
<1>1. PlacesOK(f)
  <2>1. /\ \A p \in Pubs : f[p] \in PubPlaces
        /\ \A s \in Subs : f[s] \in SubPlaces
    BY Sides DEF PlacesOK, SubPlaces, Torn
  <2> QED
    BY <2>1 DEF PlacesOK, Actors
<1>2. /\ PlacesOK(pc')
      /\ \A a \in Actors : pc'[a] = f[a] \/ Wakes(f[a], pc'[a])
  BY <1>1, NotifyPlaces
<1>3. ASSUME NEW a \in Actors
      PROVE  Freed(a)
  <2>1. CASE f[a] = pc[a]
    BY <1>2, <2>1 DEF Freed, Waits
  <2>2. CASE pc[a] = "read" /\ f[a] \in {"readOver", "aborted"}
    BY <1>2, <2>2 DEF Freed, Wakes
  <2> QED
    BY <2>1, <2>2 DEF Torn
<1> QED
  BY <1>2, <1>3

LEMMA TimeMoves ==
  ASSUME PlacesOK(pc), TimeStep
  PROVE  PlacesOK(pc') /\ \A a \in Actors : Freed(a)
<1>1. PICK written \in SUBSET Pubs, read \in SUBSET Subs : Advance(written, read)
  BY DEF TimeStep
<1> DEFINE f == [a \in Actors |-> IF a \in read THEN "readOver" ELSE pc[a]]
<1>2. pc' = IF written = {} THEN f ELSE Notify(f, WriteWakes)
  BY <1>1 DEF Advance
<1>3. Torn(f) /\ f = [a \in Actors |-> f[a]]
  BY <1>1 DEF Advance, Torn
<1> HIDE DEF f
<1>4. f = Notify(f, {})
  BY <1>3 DEF Notify
<1>5. WriteWakes \in SUBSET CondVars /\ {} \in SUBSET CondVars
  BY DEF WriteWakes, CondVars
<1>6. CASE written = {}
  BY <1>2, <1>3, <1>4, <1>5, <1>6, TornMoves
<1>7. CASE written # {}
  BY <1>2, <1>3, <1>5, <1>7, TornMoves
<1> QED
  BY <1>6, <1>7

LEMMA CancelMoves ==
  ASSUME PlacesOK(pc), NEW tx, CancelTransaction(tx)
  PROVE  PlacesOK(pc') /\ \A a \in Actors : Freed(a)
<1> DEFINE f == [a \in Actors |-> IF pc[a] = "read" THEN "aborted" ELSE pc[a]]
<1>1. pc' = Notify(f, CancelWakes)
  BY DEF CancelTransaction
<1>2. CancelWakes \in SUBSET CondVars
  BY DEF CancelWakes, WriteWakes, CondVars
<1>3. \A a \in Actors : pc[a] = "read" => a \in Subs
  BY DEF PlacesOK, PubPlaces, Actors
<1>4. Torn(f) /\ f = [a \in Actors |-> f[a]]
  BY <1>3 DEF Torn
<1> HIDE DEF f
<1> QED
  BY <1>1, <1>2, <1>4, TornMoves

-----------------------------------------------------------------------------
(* Types: the metadata knows of no transaction that no publisher began, so  *)
(* that it has a last one                                                   *)

DataOK ==
  /\ begun \in [Actors -> Nat] /\ plan \in [Actors -> Nat]
  /\ publishers \in SUBSET Pubs /\ subscribers \in SUBSET Subs
  /\ pubBarrier \in Nat /\ subBarrier \in Nat /\ pubEverPresent \in BOOLEAN
  /\ currentPub \in Nat /\ completedPub \in Nat /\ pubInProgress \in BOOLEAN
  /\ currentSub \in Nat /\ subInProgress \in BOOLEAN /\ subsCompleted \in Nat
  /\ pubStreamEnded \in BOOLEAN /\ canceledTx \in Nat /\ streamOpen \in BOOLEAN
  /\ blocks \in SUBSET (Nat \X Pubs) /\ infos \in SUBSET (0..currentPub)
  /\ flushed \in Seq(Nat) /\ exported \in SUBSET Nat
  /\ toWrite \in [Pubs -> Nat] /\ writes \in [Pubs -> Nat]
  /\ wants \in [Subs -> SUBSET Pubs] /\ evicting \in [Subs -> Nat]

TypeInv == PlacesOK(pc) /\ DataOK

\* A bounded set of natural numbers has a greatest element.
LEMMA Greatest ==
  ASSUME NEW n \in Nat, NEW T \in SUBSET (0..n), T # {}
  PROVE  \E t \in T : \A u \in T : u <= t
<1> DEFINE R == {xy \in Nat \X Nat : xy[1] < xy[2]}
           bounds == {k \in Nat : \A t \in T : t <= k}
<1>1. IsWellFoundedOn(R, Nat)
  BY NatLessThanWellFounded DEF OpToRel
<1>2. bounds \subseteq Nat /\ n \in bounds
  OBVIOUS
<1>3. \A x, y \in Nat : y < x => <<y, x>> \in R
  OBVIOUS
<1> HIDE DEF R
<1>4. PICK k \in bounds : \A y \in bounds : <<y, k>> \notin R
  <2> HIDE DEF bounds
  <2> QED
    BY <1>1, <1>2, WFMin
<1>5. k \in Nat /\ \A t \in T : t \in Nat /\ t <= k
  OBVIOUS
<1>6. SUFFICES ASSUME k \notin T
               PROVE  FALSE
  BY <1>5
<1>7. \A t \in T : t <= k - 1
  BY <1>5, <1>6
<1>8. k - 1 \in Nat
  <2>1. PICK t \in T : TRUE
    OBVIOUS
  <2> QED
    BY <1>5, <1>7, <2>1
<1>9. k - 1 \in bounds
  BY <1>7, <1>8
<1>10. k - 1 < k
  BY <1>5
<1> QED
  BY <1>3, <1>4, <1>5, <1>8, <1>9, <1>10

LEMMA LastTxType ==
  ASSUME currentPub \in Nat, infos \in SUBSET (0..currentPub)
  PROVE  LastTx \in 0..currentPub
<1>1. CASE infos = {}
  BY <1>1 DEF LastTx
<1>2. CASE infos # {}
  <2>1. \E t \in infos : \A u \in infos : u <= t
    BY <1>2, Greatest
  <2> QED
    BY <1>2, <2>1 DEF LastTx
<1> QED
  BY <1>1, <1>2

LEMMA RegistrySizes ==
  ASSUME DataOK
  PROVE  /\ Cardinality(publishers) \in Nat /\ Cardinality(subscribers) \in Nat
         /\ BarrierFor(pubBarrier, publishers) \in Nat
         /\ BarrierFor(subBarrier, subscribers) \in Nat
<1>1. IsFiniteSet(publishers) /\ IsFiniteSet(subscribers)
  BY ActorsAssumption, FS_Subset DEF DataOK
<1> QED
  BY <1>1, FS_CardinalityType DEF DataOK, BarrierFor

LEMMA InitType == Init => TypeInv
<1> SUFFICES ASSUME Init PROVE TypeInv
  OBVIOUS
<1>1. plan \in [Actors -> Nat]
  BY TxAssumption DEF Init
<1>2. PlacesOK(pc)
  BY Sides DEF Init, PlacesOK, PubPlaces, SubPlaces
<1>3. /\ begun \in [Actors -> Nat] /\ toWrite \in [Pubs -> Nat]
      /\ writes \in [Pubs -> Nat] /\ wants \in [Subs -> SUBSET Pubs]
  BY DEF Init
<1>4. /\ flushed \in Seq(Nat) /\ blocks \in SUBSET (Nat \X Pubs)
      /\ infos \in SUBSET (0..currentPub) /\ exported \in SUBSET Nat
  BY DEF Init
<1>5. DataOK
  BY <1>1, <1>3, <1>4 DEF Init, DataOK
<1> QED
  BY <1>2, <1>5 DEF TypeInv

LEMMA PubData ==
  ASSUME DataOK, NEW p \in Pubs, PubStep(p)
  PROVE  DataOK'
<1>0. p \in Actors
  BY Sides
<1>1. CASE Open(p)
  BY <1>0, <1>1
  DEF Open, DataOK, client, pubSide, subSide, status, metadata, transport
<1>2. CASE BeginPub(p)
  <2>1. begun' \in [Actors -> Nat] /\ toWrite' \in [Pubs -> Nat]
    <3>1. begun \in [Actors -> Nat] /\ toWrite \in [Pubs -> Nat]
      BY DEF DataOK
    <3>2. begun' \in [Actors -> Nat]
      BY <1>0, <1>2, <3>1 DEF BeginPub, Begins
    <3>3. toWrite' \in [Pubs -> Nat]
      BY <1>2, <3>1 DEF BeginPub, Flush
    <3> QED
      BY <3>2, <3>3
  <2>2. /\ currentPub' \in {currentPub, currentPub + 1}
        /\ pubInProgress' \in BOOLEAN /\ completedPub' = completedPub
    BY <1>2 DEF BeginPub, PubTx, DataOK, pubSide
  <2>3. currentPub' \in Nat /\ infos \in SUBSET (0..currentPub')
    BY <2>2 DEF DataOK
  <2> QED
    BY <1>2, <2>1, <2>2, <2>3
    DEF BeginPub, DataOK, registry, subSide, status, metadata
<1>3. CASE LockToFlush(p) \/ LockToClose(p)
  BY <1>3
  DEF LockToFlush, LockToClose, DataOK, client, registry, pubSide, subSide,
      status, metadata, transport
<1>4. CASE RecheckFlush(p)
  BY <1>4
  DEF RecheckFlush, Flush, DataOK, client, registry, pubSide, subSide, status,
      metadata
<1>5. CASE Put(p)
  BY <1>5
  DEF Put, AddTransaction, DataOK, client, registry, pubSide, subSide, status
<1>6. CASE EndPub(p)
  <2>1. pubBarrier' \in Nat
    BY <1>6, RegistrySizes DEF EndPub
  <2> QED
    BY <1>6, <2>1
    DEF EndPub, DataOK, client, pubSide, subSide, status, metadata
<1>7. CASE Commit(p)
  <2>1. pubInProgress' \in BOOLEAN /\ completedPub' \in Nat
    <3>1. completedPub \in Nat
      BY DEF DataOK
    <3>2. completedPub' = completedPub + 1
      BY <1>7 DEF Commit
    <3>3. completedPub' \in Nat
      BY <3>1, <3>2
    <3>4. pubInProgress' \in BOOLEAN
      BY <1>7 DEF Commit
    <3> QED
      BY <3>3, <3>4
  <2> QED
    BY <1>7, <2>1
    DEF Commit, DataOK, client, registry, subSide, status, metadata,
        transport
<1>8. CASE ClosePub(p)
  <2>1. /\ toWrite' \in [Pubs -> Nat] /\ publishers' \in SUBSET Pubs
        /\ UNCHANGED <<subscribers, pubBarrier, subBarrier, pubEverPresent>>
    <3>1. CASE CloseMustWait(p)
      BY <1>8, <3>1 DEF ClosePub, DataOK, registry
    <3>2. CASE ~CloseMustWait(p)
      <4>1. /\ toWrite' = [toWrite EXCEPT ![p] = 0]
            /\ publishers' = publishers \ {p}
            /\ UNCHANGED <<subscribers, pubBarrier, subBarrier, pubEverPresent>>
        BY <1>8, <3>2 DEF ClosePub, LeavePub
      <4> QED
        BY <4>1 DEF DataOK
    <3> QED
      BY <3>1, <3>2
  <2> QED
    BY <1>8, <2>1
    DEF ClosePub, DataOK, client, pubSide, subSide, status, metadata
<1>9. CASE CloseLastPub(p)
  <2>1. \A i \in 1..Len(flushed) : flushed[i] \in Nat
    BY DEF DataOK
  <2>2. infos \in SUBSET Nat
    BY DEF DataOK
  <2>3. Listing \in SUBSET Nat
    BY <2>1, <2>2 DEF Listing
  <2> QED
    BY <1>9, <2>3
    DEF CloseLastPub, ExportMetadata, DataOK, client, registry, pubSide,
        subSide, transport
<1> QED
  BY <1>1, <1>2, <1>3, <1>4, <1>5, <1>6, <1>7, <1>8, <1>9 DEF PubStep

LEMMA SubData ==
  ASSUME DataOK, NEW s \in Subs, SubStep(s)
  PROVE  DataOK'
<1>0. s \in Actors
  BY Sides
<1>1. CASE Open(s)
  BY <1>0, <1>1
  DEF Open, DataOK, client, pubSide, subSide, status, metadata, transport
<1>2. CASE BeginSub(s)
  <2>1. begun' \in [Actors -> Nat]
    BY <1>0, <1>2 DEF BeginSub, Begins, DataOK
  <2>2. /\ currentSub' \in {currentSub, currentSub + 1}
        /\ subInProgress' \in BOOLEAN
        /\ UNCHANGED <<subsCompleted, evicting>>
    <3>1. CASE UNCHANGED subSide
      BY <3>1 DEF subSide, DataOK
    <3>2. CASE ~UNCHANGED subSide
      BY <1>2, <3>2 DEF BeginSub
    <3> QED
      BY <3>1, <3>2
  <2>3. currentSub' \in Nat
    BY <2>2 DEF DataOK
  <2> QED
    BY <1>2, <2>1, <2>2, <2>3
    DEF BeginSub, DataOK, registry, pubSide, status, metadata, transport
<1>3. CASE AwaitCompleted(s)
  <2>1. (subInProgress /\ AwaitOutcome \notin {"canceled", "eos"}) \in BOOLEAN
    OBVIOUS
  <2> QED
    BY <1>3, <2>1
    DEF AwaitCompleted, DataOK, client, registry, pubSide, status, metadata,
        transport
<1>4. CASE \E wanted \in SUBSET Pubs : Get(s, wanted)
  <2>1. LastTx \in 0..currentPub
    BY LastTxType DEF DataOK
  <2> QED
    BY <1>4, <2>1
    DEF Get, DataOK, client, registry, pubSide, subSide, status
<1>5. CASE EndSub(s) \/ AwaitWritten(s) \/ ReadAborted(s)
  BY <1>5
  DEF EndSub, AwaitWritten, ReadAborted, StartReads, AbortSub, DataOK, client,
      registry, pubSide, status, metadata
<1>6. CASE LockToRead(s) \/ CloseLastSub(s)
  BY <1>6
  DEF LockToRead, CloseLastSub, DataOK, client, registry, pubSide, subSide,
      status, metadata, transport
<1>7. CASE ReadOver(s)
  <2>1. subBarrier' \in Nat
    BY <1>7, RegistrySizes DEF ReadOver, DataOK
  <2>2. wants' \in [Subs -> SUBSET Pubs] /\ subInProgress' \in BOOLEAN
    BY <1>7 DEF ReadOver, AbortSub, DataOK
  <2> QED
    BY <1>7, <2>1, <2>2 DEF ReadOver, DataOK, client, pubSide, status, metadata
<1>8. CASE CountRead(s)
  <2>1. subsCompleted' \in Nat
    <3>1. subsCompleted' \in {0, subsCompleted + 1}
      BY <1>8 DEF CountRead
    <3>2. subsCompleted \in Nat
      BY DEF DataOK
    <3> QED
      BY <3>1, <3>2
  <2>2. evicting' \in [Subs -> Nat]
    <3>1. evicting' \in {evicting, [evicting EXCEPT ![s] = currentSub]}
      BY <1>8 DEF CountRead, TxToEvict
    <3>2. evicting \in [Subs -> Nat] /\ currentSub \in Nat
      BY DEF DataOK
    <3> QED
      BY <3>1, <3>2
  <2> QED
    BY <1>8, <2>1, <2>2
    DEF CountRead, DataOK, client, registry, pubSide, status, metadata, transport
<1>9. CASE EvictRead(s)
  <2>1. evicting' \in [Subs -> Nat] /\ evicting[s] \in Nat
    BY <1>9 DEF EvictRead, DataOK
  <2>2. /\ blocks' \in SUBSET (Nat \X Pubs) /\ infos' \in SUBSET (0..currentPub)
        /\ flushed' \in Seq(Nat) /\ exported' \in SUBSET Nat
    <3>1. CASE UNCHANGED metadata
      BY <3>1 DEF metadata, DataOK
    <3>2. CASE Evict(evicting[s])
      <4>1. flushed' \in {flushed, Append(flushed, evicting[s])}
        BY <3>2 DEF Evict, Flushed
      <4>2. flushed' \in Seq(Nat)
        <5>1. flushed \in Seq(Nat)
          BY DEF DataOK
        <5>2. Append(flushed, evicting[s]) \in Seq(Nat)
          BY <2>1, <5>1
        <5> QED
          BY <4>1, <5>1, <5>2
      <4> QED
        BY <3>2, <4>2 DEF Evict, DataOK
    <3> QED
      BY <1>9, <3>1, <3>2 DEF EvictRead
  <2> QED
    BY <1>9, <2>1, <2>2
    DEF EvictRead, DataOK, client, registry, pubSide, status, transport
<1>10. CASE CloseSub(s)
  BY <1>10
  DEF CloseSub, DataOK, client, pubSide, subSide, status, metadata, transport
<1> QED
  BY <1>1, <1>2, <1>3, <1>4, <1>5, <1>6, <1>7, <1>8, <1>9, <1>10 DEF SubStep

LEMMA OutsideData ==
  ASSUME DataOK, TimeStep \/ \E tx \in 0..MaxTx : CancelTransaction(tx)
  PROVE  DataOK'
<1>1. CASE TimeStep
  <2>1. PICK written \in SUBSET Pubs, read \in SUBSET Subs : Advance(written, read)
    BY <1>1 DEF TimeStep
  <2>2. \A p \in written : writes[p] - 1 \in Nat
    BY <2>1 DEF Advance, InFlight, DataOK
  <2>3. writes' \in [Pubs -> Nat]
    BY <2>1, <2>2 DEF Advance, DataOK
  <2> QED
    BY <2>1, <2>3
    DEF Advance, DataOK, client, registry, pubSide, subSide, status, metadata
<1>2. CASE \E tx \in 0..MaxTx : CancelTransaction(tx)
  <2>1. PICK tx \in 0..MaxTx : CancelTransaction(tx)
    BY <1>2
  <2>2. canceledTx' \in Nat /\ writes' \in [Pubs -> Nat]
    BY <2>1, TxAssumption DEF CancelTransaction
  <2> QED
    BY <2>1, <2>2
    DEF CancelTransaction, DataOK, client, registry, pubSide, subSide, metadata
<1> QED
  BY <1>1, <1>2

LEMMA NextType == TypeInv /\ [Next]_vars => TypeInv'
<1> SUFFICES ASSUME TypeInv, [Next]_vars PROVE TypeInv'
  OBVIOUS
<1> USE DEF TypeInv
<1>1. CASE \E p \in Pubs : PubStep(p)
  BY <1>1, PubMoves, PubData
<1>2. CASE \E s \in Subs : SubStep(s)
  BY <1>2, SubMoves, SubData
<1>3. CASE TimeStep \/ \E tx \in 0..MaxTx : CancelTransaction(tx)
  BY <1>3, TimeMoves, CancelMoves, OutsideData
<1>4. CASE UNCHANGED vars
  BY <1>4
  DEF vars, PlacesOK, DataOK, client, registry, pubSide, subSide, status,
      metadata, transport
<1> QED
  BY <1>1, <1>2, <1>3, <1>4 DEF Next, Terminated

\* In every reachable state every actor is at a place of its side and every
\* variable of the engine, of its metadata and of its transport has its type.
THEOREM FileTypes == Spec => []TypeOK
<1>1. TypeInv => TypeOK
  BY DEF TypeInv, DataOK, TypeOK
<1> QED
  BY <1>1, InitType, NextType, PTL DEF Spec

-----------------------------------------------------------------------------
(* What an actor that does not act may do: nothing brings it to sleep, into *)
(* a publication, out of a transaction, or into close                       *)

Publishing == {"flushLock", "cvFlush", "flush", "tx", "put"}
Gone == {"closeBarrier", "closeLast", "closed"}

LEMMA PassiveMoves ==
  ASSUME NEW b, Freed(b)
  PROVE  /\ pc'[b] = "cvCompleted" => pc[b] = "cvCompleted"
         /\ pc'[b] \in Publishing => pc[b] \in Publishing
         /\ pc'[b] \in Gone => pc[b] \in Gone
         /\ pc[b] \in InTransaction => pc'[b] \in InTransaction
<1>1. CASE pc'[b] = pc[b]
  BY <1>1
<1>2. CASE Wakes(pc[b], pc'[b])
  BY <1>2 DEF Wakes, Publishing, Gone, InTransaction
<1>3. CASE Resumes(pc[b], pc'[b])
  BY <1>3 DEF Resumes, Publishing, Gone, InTransaction
<1>4. CASE pc[b] = "read" /\ pc'[b] \in {"readOver", "aborted"}
  BY <1>4 DEF Publishing, Gone, InTransaction
<1> QED
  BY <1>1, <1>2, <1>3, <1>4 DEF Freed, Waits

LEMMA OthersPassive ==
  ASSUME NEW a, Others(a)
  PROVE  \A b \in Actors : b # a => Freed(b)
BY DEF Others, Freed

\* After a notification of pub_transaction_completed_ nobody sleeps there.
LEMMA AllAwake ==
  ASSUME NEW f, PlacesOK(f), NEW cvs \in SUBSET CondVars, "cvCompleted" \in cvs
  PROVE  \A a \in Actors : Notify(f, cvs)[a] # "cvCompleted"
BY NotifyPlaces DEF Wakes

-----------------------------------------------------------------------------
(* A subscriber asleep until a transaction completes has to wait for it     *)

SleepInv == SubscribersSleepForAReason /\ CancellationWakesSubscribers

\* What the reason to sleep depends on.
awaited == <<completedPub, pubStreamEnded, canceledTx, currentSub>>

\* No step but a new transaction of the subscribers changes what a sleeping
\* subscriber waits for and leaves it asleep.
LEMMA StillAsleep ==
  ASSUME SleepInv, UNCHANGED awaited,
         \A s \in Subs : pc'[s] = "cvCompleted" => pc[s] = "cvCompleted"
  PROVE  SleepInv'
BY DEF SleepInv, SubscribersSleepForAReason, CancellationWakesSubscribers,
       Canceled, awaited

LEMMA NobodyAsleep ==
  ASSUME \A s \in Subs : pc'[s] # "cvCompleted"
  PROVE  SleepInv'
BY DEF SleepInv, SubscribersSleepForAReason, CancellationWakesSubscribers

LEMMA PubSleep ==
  ASSUME TypeInv, SleepInv, NEW p \in Pubs, PubStep(p)
  PROVE  SleepInv'
<1>0. p \in Actors /\ \A s \in Subs : s \in Actors /\ s # p
  BY Sides
<1>1. CASE Commit(p) \/ CloseLastPub(p)
  <2>1. \/ pc' = Notify(Goto(p, "idle"), CommitWakes)
        \/ pc' = Notify(Goto(p, "closed"), EndWakes)
    BY <1>1 DEF Commit, CloseLastPub
  <2>2. /\ CommitWakes \in SUBSET CondVars /\ "cvCompleted" \in CommitWakes
        /\ EndWakes \in SUBSET CondVars /\ "cvCompleted" \in EndWakes
    BY DEF CommitWakes, EndWakes, CondVars
  <2>3. PlacesOK(Goto(p, "idle")) /\ PlacesOK(Goto(p, "closed"))
    BY <1>0, GotoPlaces, Sides DEF TypeInv, PubPlaces
  <2> QED
    BY <1>0, <2>1, <2>2, <2>3, AllAwake, NobodyAsleep
<1>2. CASE ~(Commit(p) \/ CloseLastPub(p))
  <2>1. UNCHANGED awaited
    BY <1>2
    DEF PubStep, Open, BeginPub, LockToFlush, RecheckFlush, Put, EndPub,
        ClosePub, LockToClose, awaited, pubSide, subSide, status
  <2>2. \A s \in Subs : Freed(s)
    BY <1>0, PubMoves, OthersPassive DEF TypeInv
  <2> QED
    BY <2>1, <2>2, PassiveMoves, StillAsleep
<1> QED
  BY <1>1, <1>2

LEMMA SubSleep ==
  ASSUME TypeInv, SleepInv, NEW s \in Subs, SubStep(s)
  PROVE  SleepInv'
<1>0. s \in Actors /\ \A b \in Subs : b \in Actors
  BY Sides
<1>1. \A b \in Subs : b # s /\ pc'[b] = "cvCompleted" => pc[b] = "cvCompleted"
  <2>1. \A b \in Subs : b # s => Freed(b)
    BY <1>0, SubMoves, OthersPassive DEF TypeInv
  <2> QED
    BY <2>1, PassiveMoves
<1>2. \A to : pc' = Goto(s, to) => pc'[s] = to
  BY <1>0 DEF Goto, TypeInv, PlacesOK
<1>3. CASE AwaitCompleted(s)
  <2>1. UNCHANGED awaited /\ pc'[s] = AwaitOutcome
    BY <1>2, <1>3 DEF AwaitCompleted, awaited, pubSide, status
  <2>2. AwaitOutcome = "cvCompleted" =>
          ~Canceled(currentSub) /\ completedPub < currentSub /\ ~pubStreamEnded
    BY DEF AwaitOutcome, TypeInv, DataOK
  <2> QED
    BY <1>1, <2>1, <2>2
    DEF SleepInv, SubscribersSleepForAReason, CancellationWakesSubscribers,
        Canceled, awaited
<1>4. CASE BeginSub(s)
  <2>1. /\ UNCHANGED <<completedPub, pubStreamEnded, canceledTx>>
        /\ currentSub' \in {currentSub, currentSub + 1}
        /\ currentSub' = currentSub \/ canceledTx # currentSub'
    BY <1>4 DEF BeginSub, Canceled, pubSide, subSide, status
  <2>2. pc'[s] \in {"canceled", "await", "eos", "tx"}
    BY <1>2, <1>4 DEF BeginSub
  <2>3. currentSub \in Nat /\ completedPub \in Nat
    BY DEF TypeInv, DataOK
  <2> QED
    BY <1>1, <2>1, <2>2, <2>3
    DEF SleepInv, SubscribersSleepForAReason, CancellationWakesSubscribers,
        Canceled
<1>5. CASE \/ Open(s) \/ (\E wanted \in SUBSET Pubs : Get(s, wanted))
           \/ EndSub(s) \/ LockToRead(s) \/ AwaitWritten(s) \/ ReadAborted(s)
           \/ ReadOver(s) \/ CountRead(s) \/ EvictRead(s) \/ CloseLastSub(s)
  <2>1. UNCHANGED awaited
    BY <1>5
    DEF Open, Get, EndSub, LockToRead, AwaitWritten, ReadAborted, ReadOver,
        CountRead, EvictRead, CloseLastSub, awaited, pubSide, subSide, status
  <2>2. \E to \in {"idle", "get", "readLock", "canceled", "readOver", "read",
                   "count", "evict", "cvWritten", "closed"} : pc' = Goto(s, to)
    BY <1>5
    DEF Open, Get, EndSub, LockToRead, AwaitWritten, ReadAborted, ReadOver,
        CountRead, EvictRead, CloseLastSub, StartReads, AbortSub
  <2> QED
    BY <1>1, <1>2, <2>1, <2>2, StillAsleep
<1>6. CASE CloseSub(s)
  <2>1. UNCHANGED awaited
    BY <1>6 DEF CloseSub, awaited, pubSide, subSide, status
  <2>2. \/ pc' = Goto(s, "closed")
        \/ Arrive(s, Subs, subBarrier, "closeBarrier", "closeLast")
    BY <1>6 DEF CloseSub, ArriveToClose
  <2>3. {"closeBarrier", "closeLast"} \subseteq SubPlaces
    BY DEF SubPlaces
  <2>4. pc'[s] \in {"closed", "closeBarrier", "closeLast"}
    BY <1>2, <2>2, <2>3, ArrivePlaces, Sides DEF TypeInv
  <2> QED
    BY <1>1, <2>1, <2>4, StillAsleep
<1> QED
  BY <1>3, <1>4, <1>5, <1>6 DEF SubStep

LEMMA OutsideSleep ==
  ASSUME TypeInv, SleepInv,
         TimeStep \/ \E tx \in 0..MaxTx : CancelTransaction(tx)
  PROVE  SleepInv'
<1>1. CASE TimeStep
  <2>1. UNCHANGED awaited
    BY <1>1 DEF TimeStep, Advance, awaited, pubSide, subSide, status
  <2>2. \A s \in Subs : Freed(s)
    BY <1>1, TimeMoves, Sides DEF TypeInv
  <2> QED
    BY <2>1, <2>2, PassiveMoves, StillAsleep
<1>2. CASE \E tx \in 0..MaxTx : CancelTransaction(tx)
  <2> DEFINE f == [a \in Actors |-> IF pc[a] = "read" THEN "aborted" ELSE pc[a]]
  <2>1. pc' = Notify(f, CancelWakes)
    BY <1>2 DEF CancelTransaction
  <2>2. CancelWakes \in SUBSET CondVars /\ "cvCompleted" \in CancelWakes
    BY DEF CancelWakes, WriteWakes, CondVars
  <2>3. \A a \in Actors : pc[a] = "read" => a \in Subs
    BY DEF TypeInv, PlacesOK, PubPlaces, Actors
  <2>4. PlacesOK(f)
    <3>1. \A p \in Pubs : f[p] \in PubPlaces
      BY <2>3, Sides DEF TypeInv, PlacesOK
    <3>2. \A s \in Subs : f[s] \in SubPlaces
      BY Sides DEF TypeInv, PlacesOK, SubPlaces
    <3> QED
      BY <3>1, <3>2 DEF PlacesOK, Actors
  <2> HIDE DEF f
  <2> QED
    BY <2>1, <2>2, <2>4, AllAwake, NobodyAsleep, Sides
<1> QED
  BY <1>1, <1>2

LEMMA SleepInvariant == Spec => []SleepInv
<1>1. Init => SleepInv
  BY Sides
  DEF Init, SleepInv, SubscribersSleepForAReason, CancellationWakesSubscribers
<1>2. ASSUME TypeInv, SleepInv, [Next]_vars
      PROVE  SleepInv'
  <2>1. CASE UNCHANGED vars
    BY <1>2, <2>1, StillAsleep DEF vars, awaited, pubSide, subSide, status
  <2> QED
    BY <1>2, <2>1, PubSleep, SubSleep, OutsideSleep DEF Next, Terminated
<1> QED
  BY <1>1, <1>2, InitType, NextType, PTL DEF Spec

\* A subscriber that sleeps until a transaction completes has missed neither
\* its completion nor the end of the stream, although the counter that says
\* which one it is may be moved on by another subscriber meanwhile.
THEOREM FileNoLostWakeUp == Spec => []SubscribersSleepForAReason
<1>1. SleepInv => SubscribersSleepForAReason
  BY DEF SleepInv
<1> QED
  BY <1>1, SleepInvariant, PTL

\* Nor has it missed a cancellation of the transaction it waits for.
THEOREM FileCancelWakes == Spec => []CancellationWakesSubscribers
<1>1. SleepInv => CancellationWakesSubscribers
  BY DEF SleepInv
<1> QED
  BY <1>1, SleepInvariant, PTL

-----------------------------------------------------------------------------
(* While the flag of the subscribers is set one of them is in a transaction *)

\* The subscriber that is inside stays there when somebody else acts.
LEMMA StaysInside ==
  ASSUME SubFlagNeverSticks, subInProgress' => subInProgress,
         \A s \in Subs : pc[s] \in InTransaction => pc'[s] \in InTransaction
  PROVE  SubFlagNeverSticks'
BY DEF SubFlagNeverSticks

LEMMA PubFlag ==
  ASSUME TypeInv, SubFlagNeverSticks, NEW p \in Pubs, PubStep(p)
  PROVE  SubFlagNeverSticks'
<1>1. \A s \in Subs : Freed(s)
  BY PubMoves, OthersPassive, Sides DEF TypeInv
<1>2. subInProgress' = subInProgress
  BY DEF PubStep, Open, BeginPub, LockToFlush, RecheckFlush, Put, EndPub,
         Commit, ClosePub, LockToClose, CloseLastPub, subSide
<1> QED
  BY <1>1, <1>2, PassiveMoves, StaysInside

LEMMA SubFlag ==
  ASSUME TypeInv, SubFlagNeverSticks, NEW s \in Subs, SubStep(s)
  PROVE  SubFlagNeverSticks'
<1>0. s \in Actors /\ \A b \in Subs : b \in Actors
  BY Sides
<1>1. \A b \in Subs : b # s /\ pc[b] \in InTransaction => pc'[b] \in InTransaction
  <2>1. \A b \in Subs : b # s => Freed(b)
    BY <1>0, SubMoves, OthersPassive DEF TypeInv
  <2> QED
    BY <2>1, PassiveMoves
<1>2. \A to : pc' = Goto(s, to) => pc'[s] = to
  BY <1>0 DEF Goto, TypeInv, PlacesOK
<1>3. CASE pc'[s] \in InTransaction
  BY <1>3 DEF SubFlagNeverSticks
<1>4. CASE ~subInProgress'
  BY <1>4 DEF SubFlagNeverSticks
<1>5. CASE pc[s] \notin InTransaction /\ subInProgress' = subInProgress
  BY <1>1, <1>5, StaysInside
<1>6. CASE Open(s) \/ CloseSub(s) \/ CloseLastSub(s)
  BY <1>5, <1>6
  DEF Open, CloseSub, Closes, CloseLastSub, subSide, InTransaction
<1>7. CASE BeginSub(s)
  <2>1. \/ pc[s] \notin InTransaction /\ subInProgress' = subInProgress
        \/ ~subInProgress' \/ pc' \in {Goto(s, "await"), Goto(s, "tx")}
    BY <1>7 DEF BeginSub, Begins, subSide, InTransaction
  <2> QED
    BY <1>2, <1>3, <1>4, <1>5, <2>1 DEF InTransaction
<1>8. CASE AwaitCompleted(s)
  <2>1. \/ ~subInProgress'
        \/ pc' = Goto(s, AwaitOutcome) /\ AwaitOutcome \in InTransaction
    BY <1>8 DEF AwaitCompleted, AwaitOutcome, InTransaction
  <2> QED
    BY <1>2, <1>3, <1>4, <2>1
<1>9. CASE (\E wanted \in SUBSET Pubs : Get(s, wanted)) \/ LockToRead(s)
  BY <1>2, <1>3, <1>9 DEF Get, LockToRead, InTransaction
<1>10. CASE \/ EndSub(s) \/ AwaitWritten(s) \/ ReadAborted(s) \/ ReadOver(s)
            \/ CountRead(s) \/ EvictRead(s)
  <2>1. \/ ~subInProgress'
        \/ pc' \in {Goto(s, "readLock"), Goto(s, "readOver"), Goto(s, "read"),
                   Goto(s, "count"), Goto(s, "evict")}
    BY <1>10
    DEF EndSub, AwaitWritten, ReadAborted, ReadOver, StartReads, AbortSub,
        CountRead, EvictRead
  <2> QED
    BY <1>2, <1>3, <1>4, <2>1 DEF InTransaction
<1> QED
  BY <1>6, <1>7, <1>8, <1>9, <1>10 DEF SubStep

LEMMA OutsideFlag ==
  ASSUME TypeInv, SubFlagNeverSticks,
         TimeStep \/ \E tx \in 0..MaxTx : CancelTransaction(tx)
  PROVE  SubFlagNeverSticks'
<1>1. \A s \in Subs : Freed(s)
  BY TimeMoves, CancelMoves, Sides DEF TypeInv
<1>2. subInProgress' = subInProgress
  BY DEF TimeStep, Advance, CancelTransaction, subSide
<1> QED
  BY <1>1, <1>2, PassiveMoves, StaysInside

\* sub_transaction_in_progress_ is set only while a subscriber is inside a
\* transaction: each of the ways out, by the end of the stream and by the
\* three exceptions included, leaves the next one to begin a new transaction.
THEOREM FileFlagNeverSticks == Spec => []SubFlagNeverSticks
<1>1. Init => SubFlagNeverSticks
  BY DEF Init, SubFlagNeverSticks
<1>2. ASSUME TypeInv, SubFlagNeverSticks, [Next]_vars
      PROVE  SubFlagNeverSticks'
  <2>1. CASE UNCHANGED vars
    BY <1>2, <2>1 DEF vars, subSide, SubFlagNeverSticks
  <2> QED
    BY <1>2, <2>1, PubFlag, SubFlag, OutsideFlag DEF Next, Terminated
<1> QED
  BY <1>1, <1>2, InitType, NextType, PTL DEF Spec

-----------------------------------------------------------------------------
(* A publisher that went through close has written all that it published.   *)
(* The condition of the wait in pub_close looks at the number of the current*)
(* transaction, which is that of no cancellation unless it is 0; then no    *)
(* publisher wrote anything yet.                                            *)

NothingBefore ==
  currentPub = 0 => /\ ~pubInProgress
                    /\ \A p \in Pubs : writes[p] = 0 /\ pc[p] \notin Publishing
CloseInv == NothingBefore /\ CloseMeansWritten

\* Nothing that matters for CloseInv gets worse for the publishers in `who`.
Kept(who) == \A p \in who : /\ writes'[p] \in {0, writes[p]}
                            /\ pc'[p] \in Publishing => pc[p] \in Publishing
                            /\ pc'[p] \in Gone => pc[p] \in Gone

LEMMA KeptCloses ==
  ASSUME CloseInv, Kept(Pubs), canceledTx' = 0 => canceledTx = 0,
         UNCHANGED <<currentPub, pubInProgress>>
  PROVE  CloseInv'
BY DEF CloseInv, NothingBefore, CloseMeansWritten, Kept, Gone

LEMMA PubClose ==
  ASSUME TypeInv, CloseInv, NEW p \in Pubs, PubStep(p)
  PROVE  CloseInv'
<1>0. p \in Actors /\ \A q \in Pubs : q \in Actors
  BY Sides
<1>1. \A to : pc' = Goto(p, to) => pc'[p] = to
  BY <1>0 DEF Goto, TypeInv, PlacesOK
<1>2. \A q \in Pubs : q # p => Freed(q)
  BY <1>0, PubMoves, OthersPassive DEF TypeInv
<1>3. \A q \in Pubs : q # p => writes'[q] = writes[q]
  BY DEF PubStep, Open, BeginPub, LockToFlush, RecheckFlush, Put, EndPub,
         Commit, ClosePub, LockToClose, CloseLastPub, transport, TypeInv, DataOK
<1>4. Kept(Pubs \ {p})
  BY <1>2, <1>3, PassiveMoves DEF Kept
<1>5. canceledTx' = canceledTx
  BY DEF PubStep, Open, BeginPub, LockToFlush, RecheckFlush, Put, EndPub,
         Commit, ClosePub, LockToClose, CloseLastPub, status
<1>6. ASSUME UNCHANGED <<currentPub, pubInProgress>>, writes'[p] = writes[p],
             pc'[p] \in Publishing => pc[p] \in Publishing,
             pc'[p] \in Gone => pc[p] \in Gone
      PROVE  CloseInv'
  BY <1>4, <1>5, <1>6, KeptCloses DEF Kept
<1>7. CASE Open(p) \/ LockToFlush(p) \/ Put(p) \/ LockToClose(p)
  BY <1>1, <1>6, <1>7
  DEF Open, LockToFlush, Put, LockToClose, pubSide, transport, Publishing, Gone
<1>8. CASE RecheckFlush(p)
  <2>1. /\ UNCHANGED <<currentPub, pubInProgress>> /\ writes'[p] = writes[p]
        /\ pc[p] \in Publishing
        /\ \E to \in {"flushLock", "canceled", "tx"} : pc' = Goto(p, to)
    BY <1>8 DEF RecheckFlush, Flush, pubSide, Publishing
  <2> QED
    BY <1>1, <1>6, <2>1 DEF Gone
<1>9. CASE BeginPub(p)
  <2>1. /\ writes' = writes
        /\ \E to \in {"flushLock", "canceled", "tx"} : pc' = Goto(p, to)
    BY <1>9 DEF BeginPub, Flush
  <2>2. pc'[p] \notin Gone
    BY <1>1, <2>1 DEF Gone
  <2>3. CASE UNCHANGED pubSide /\ pc' = Goto(p, "canceled")
    BY <1>1, <1>6, <2>1, <2>3 DEF pubSide, Publishing, Gone
  <2>4. CASE currentPub' = PubTx
    <3>1. currentPub' # 0
      BY <2>4 DEF PubTx, CloseInv, NothingBefore, TypeInv, DataOK
    <3> QED
      BY <1>4, <1>5, <2>1, <2>2, <3>1
      DEF CloseInv, NothingBefore, CloseMeansWritten, Kept, Gone
  <2> QED
    BY <1>9, <2>3, <2>4 DEF BeginPub
<1>10. CASE EndPub(p)
  <2>1. currentPub' = currentPub /\ currentPub # 0
    BY <1>10 DEF EndPub, CloseInv, NothingBefore, Publishing, pubSide
  <2>2. Arrive(p, Pubs, pubBarrier', "endBarrier", "commit")
    BY <1>10 DEF EndPub
  <2>3. pc'[p] \in {"endBarrier", "commit"}
    BY <2>2, ArrivePlaces, Sides DEF TypeInv, PubPlaces
  <2> QED
    BY <1>4, <1>5, <2>1, <2>3
    DEF CloseInv, NothingBefore, CloseMeansWritten, Kept, Gone
<1>11. CASE Commit(p) \/ CloseLastPub(p)
  <2>1. PICK to \in {"idle", "closed"} :
          /\ pc' = Notify(Goto(p, to), CommitWakes)
          /\ to = "closed" => pc[p] = "closeLast"
    BY <1>11 DEF Commit, CloseLastPub, CommitWakes, EndWakes
  <2>2. PlacesOK(Goto(p, to)) /\ Goto(p, to)[p] = to
    BY <1>0, GotoPlaces, Sides DEF TypeInv, PubPlaces
  <2>3. pc'[p] = to
    BY <1>0, <2>1, <2>2, NotifyPlaces DEF CommitWakes, CondVars
  <2>4. /\ currentPub' = currentPub /\ writes' = writes
        /\ pubInProgress' => pubInProgress
    BY <1>11 DEF Commit, CloseLastPub, pubSide, transport
  <2> QED
    BY <1>4, <1>5, <2>1, <2>3, <2>4
    DEF CloseInv, NothingBefore, CloseMeansWritten, Kept, Gone, Publishing
<1>12. CASE ClosePub(p)
  <2>1. UNCHANGED <<currentPub, pubInProgress, writes>>
    BY <1>12 DEF ClosePub, pubSide
  <2>2. CASE pc' = Goto(p, "closeLock")
    BY <1>1, <1>6, <2>1, <2>2 DEF Publishing, Gone
  <2>3. CASE ~CloseMustWait(p) /\ LeavePub(p)
    <3>1. writes[p] = 0 \/ canceledTx # 0
      BY <2>3
      DEF CloseMustWait, Canceled, CloseInv, NothingBefore, TypeInv, DataOK
    <3>2. \/ pc' = Goto(p, "closed")
          \/ Arrive(p, Pubs, pubBarrier, "closeBarrier", "closeLast")
      BY <2>3 DEF LeavePub, ArriveToClose
    <3>3. pc'[p] \in {"closed", "closeBarrier", "closeLast"}
      BY <1>1, <3>2, ArrivePlaces, Sides DEF TypeInv, PubPlaces
    <3> QED
      BY <1>4, <1>5, <2>1, <3>1, <3>3
      DEF CloseInv, NothingBefore, CloseMeansWritten, Kept, Gone, Publishing
  <2> QED
    BY <1>12, <2>2, <2>3 DEF ClosePub
<1> QED
  BY <1>7, <1>8, <1>9, <1>10, <1>11, <1>12 DEF PubStep

LEMMA SubClose ==
  ASSUME TypeInv, CloseInv, NEW s \in Subs, SubStep(s)
  PROVE  CloseInv'
<1>1. \A p \in Pubs : Freed(p)
  BY SubMoves, OthersPassive, Sides DEF TypeInv
<1>2. UNCHANGED <<currentPub, pubInProgress, writes, canceledTx>>
  BY DEF SubStep, Open, BeginSub, AwaitCompleted, Get, EndSub, LockToRead,
         AwaitWritten, ReadAborted, ReadOver, CountRead, EvictRead, CloseSub,
         CloseLastSub, pubSide, status, transport
<1>3. Kept(Pubs)
  BY <1>1, <1>2, PassiveMoves DEF Kept
<1> QED
  BY <1>2, <1>3, KeptCloses

LEMMA OutsideClose ==
  ASSUME TypeInv, CloseInv,
         TimeStep \/ \E tx \in 0..MaxTx : CancelTransaction(tx)
  PROVE  CloseInv'
<1>1. \A p \in Pubs : Freed(p)
  BY TimeMoves, CancelMoves, Sides DEF TypeInv
<1>2. UNCHANGED <<currentPub, pubInProgress>>
  BY DEF TimeStep, Advance, CancelTransaction, pubSide
<1>3. CASE TimeStep
  <2>1. PICK written \in SUBSET Pubs, read \in SUBSET Subs : Advance(written, read)
    BY <1>3 DEF TimeStep
  <2>2. \A p \in Pubs : writes[p] = 0 => writes'[p] = 0
    BY <2>1 DEF Advance, InFlight
  <2>3. canceledTx' = canceledTx
    BY <2>1 DEF Advance, status
  <2> QED
    BY <1>1, <1>2, <2>2, <2>3, PassiveMoves
    DEF CloseInv, NothingBefore, CloseMeansWritten, Gone
<1>4. CASE \E tx \in 0..MaxTx : CancelTransaction(tx)
  <2>1. canceledTx = 0 /\ \A p \in Pubs : writes'[p] = 0
    BY <1>4 DEF CancelTransaction
  <2>2. Kept(Pubs)
    BY <1>1, <2>1, PassiveMoves DEF Kept
  <2> QED
    BY <1>2, <2>1, <2>2, KeptCloses
<1> QED
  BY <1>3, <1>4

\* Whatever the clients do, and however many publishers write, none goes
\* through close with a write in flight unless there was a cancellation.
THEOREM FileCloseMeansWritten == Spec => []CloseMeansWritten
<1>1. Init => CloseInv
  BY Sides
  DEF Init, CloseInv, NothingBefore, CloseMeansWritten, Publishing
<1>2. ASSUME TypeInv, CloseInv, [Next]_vars
      PROVE  CloseInv'
  <2>1. CASE UNCHANGED vars
    BY <1>2, <2>1
    DEF vars, pubSide, status, transport, CloseInv, NothingBefore,
        CloseMeansWritten
  <2> QED
    BY <1>2, <2>1, PubClose, SubClose, OutsideClose DEF Next, Terminated
<1>3. CloseInv => CloseMeansWritten
  BY DEF CloseInv
<1> QED
  BY <1>1, <1>2, <1>3, InitType, NextType, PTL DEF Spec
=============================================================================
