------------------------------ MODULE FileEngine ------------------------------
(***************************************************************************)
(* The File engine of the DTL: publishers write the blocks of a variable   *)
(* to files with asynchronous writes, subscribers read them from there,    *)
(* and the two sides may be any number of transactions apart.              *)
(*                                                                         *)
(* Sources: FileEngine.cpp (the transaction protocol), Engine.cpp (call    *)
(* dispatch, cancellation), ActorRegistry.hpp (registries and barriers),   *)
(* FileTransport.cpp (what to write and to read), Metadata.cpp and         *)
(* Stream.cpp (metadata: recorded, flushed to the progress file, exported).*)
(*                                                                         *)
(* As in StagingEngine, pc[a] is where actor a is, and what it does between*)
(* two blocking calls is one step.  "cvFlush", "cvClose" and "cvWritten"   *)
(* are the actors that wait on pub_activities_completed_, "cvCompleted"    *)
(* those that wait on pub_transaction_completed_.  The places in "Lock"    *)
(* lie between a condition that was checked without the mutex and the wait *)
(* itself.  Nobody keeps a mutex while blocked, so no state stands for it. *)
(* Export of the metadata is on; each put writes one block, and each get   *)
(* reads the default transaction, the last one of the metadata.            *)
(***************************************************************************)
EXTENDS Naturals, FiniteSets, Sequences

CONSTANTS
  Pubs, Subs,   \* the actors that open the stream in each mode
  MinTx, MaxTx, \* bounds of the number of transactions the publishers plan
  MayCancel,    \* whether another actor may call cancel_transaction (once)
  Gathered,     \* client: nobody begins before every actor has opened
  Paced         \* client: other work between end and the next begin, so that
                \* no begin runs just when the last actor leaves a barrier

ASSUME ActorsAssumption ==
  IsFiniteSet(Pubs) /\ IsFiniteSet(Subs) /\ Pubs \cap Subs = {}
ASSUME TxAssumption == MinTx \in Nat /\ MaxTx \in Nat /\ MinTx <= MaxTx
ASSUME ClientAssumption == {MayCancel, Gathered, Paced} \subseteq BOOLEAN

Actors == Pubs \cup Subs

VARIABLES
  pc, begun, plan,              \* per actor: position, calls of begin, quota
  publishers, subscribers,      \* the two registries
  pubBarrier, subBarrier,       \* size of each registry's barrier, 0 if null
  pubEverPresent,
  currentPub, completedPub, pubInProgress,
  currentSub, subInProgress,
  subsCompleted,                \* subscribers that ended their transaction
  evicting,                     \* per subscriber: what it will evict, or 0
  pubStreamEnded, canceledTx, streamOpen,
  blocks,                       \* metadata in memory: <<tx, publisher>>
  infos,                        \* the transactions metadata has an entry for
  flushed,                      \* those in the progress file, in that order
  exported,                     \* those that the exported file lists
  toWrite, writes,              \* per publisher: blocks put, writes in flight
  wants                         \* per subscriber: whose files it reads

client == <<begun, plan>>
registry == <<publishers, subscribers, pubBarrier, subBarrier, pubEverPresent>>
pubSide == <<currentPub, completedPub, pubInProgress>>
subSide == <<currentSub, subInProgress, subsCompleted, evicting>>
status == <<pubStreamEnded, canceledTx, streamOpen>>
metadata == <<blocks, infos, flushed, exported>>
transport == <<toWrite, writes, wants>>
vars == <<pc, client, registry, pubSide, subSide, status, metadata, transport>>

Init ==
  /\ pc = [a \in Actors |-> "new"]
  /\ begun = [a \in Actors |-> 0]
  /\ \E n \in MinTx..MaxTx :
       plan \in {f \in [Actors -> {n, n + 1}] : \A p \in Pubs : f[p] = n}
  /\ publishers = {} /\ subscribers = {} /\ pubBarrier = 0 /\ subBarrier = 0
  /\ pubEverPresent = FALSE
  /\ currentPub = 0 /\ completedPub = 0 /\ pubInProgress = FALSE
  /\ currentSub = 0 /\ subInProgress = FALSE /\ subsCompleted = 0
  /\ evicting = [s \in Subs |-> 0]
  /\ pubStreamEnded = FALSE /\ canceledTx = 0 /\ streamOpen = TRUE
  /\ blocks = {} /\ infos = {} /\ flushed = <<>> /\ exported = {}
  /\ toWrite = [p \in Pubs |-> 0] /\ writes = [p \in Pubs |-> 0]
  /\ wants = [s \in Subs |-> {}]

-----------------------------------------------------------------------------
(* Condition variables, barriers and time                                   *)

Woken(at) == CASE at = "cvFlush" -> "flush"
               [] at = "cvClose" -> "closing"
               [] at = "cvWritten" -> "written"
               [] at = "cvCompleted" -> "await"

Notify(f, cvs) ==
  [a \in Actors |-> IF f[a] \in cvs THEN Woken(f[a]) ELSE f[a]]

Goto(a, to) == [pc EXCEPT ![a] = to]

AtBarrier == {"endBarrier", "closeBarrier"}

\* Barrier::wait by a, of a barrier of that size: the last actor to arrive
\* goes to `last` and resumes the others, an earlier one blocks at `at`.
Resumed(place) == IF place = "endBarrier" THEN "idle" ELSE "closed"
Arrive(a, side, size, at, last) ==
  LET waiting == {b \in side : pc[b] \in AtBarrier}
  IN  pc' = IF Cardinality(waiting) + 1 < size
            THEN Goto(a, at)
            ELSE [b \in Actors |-> IF b = a THEN last
                                   ELSE IF b \in waiting THEN Resumed(pc[b])
                                   ELSE pc[b]]

\* get_or_create_barrier.
BarrierFor(size, members) == IF size = 0 THEN Cardinality(members) ELSE size

\* is_last_at_barrier of a closing actor, whose side may have no barrier.
ArriveToClose(a, side, size) ==
  IF size = 0 THEN pc' = Goto(a, "closed")
              ELSE Arrive(a, side, size, "closeBarrier", "closeLast")

\* The places where an actor can run: time advances in none of them.
Running == {"flushLock", "flush", "commit", "closeLock", "closing", "closeLast",
            "await", "readLock", "written", "readOver", "count", "evict",
            "aborted"}

-----------------------------------------------------------------------------
(* Conditions of the protocol, each beside a faulty variant of it that the  *)
(* properties are shown to reject.                                          *)

\* is_transaction_canceled
Canceled(tx) == canceledTx = tx

\* Whom the end of a write, a completed transaction, and the end of the
\* stream notify.
SubscribersOnly == {"cvWritten"}
WriteWakes == {"cvFlush", "cvClose", "cvWritten"}
Nobody == {}
CommitWakes == {"cvCompleted"}
EndWakes == {"cvCompleted"}
WritersOnly == WriteWakes
CancelWakes == WriteWakes \cup {"cvCompleted"}

\* A write that can end; and one whose callback may be fired a second time.
FiredTwice(p) == toWrite[p] > 0
InFlight(p) == writes[p] > 0

\* The transaction that a publisher begins.
EveryPubStartsOne == currentPub + 1
PubTx == IF pubInProgress THEN currentPub ELSE currentPub + 1

\* The while conditions of begin_pub_transaction and pub_close.
NoWait(p) == FALSE
FlushMustWait(p) == canceledTx = 0 /\ writes[p] > 0
CloseMustWait(p) == ~Canceled(currentPub) /\ writes[p] > 0

\* How the wait of begin_sub_transaction ends, or that it sleeps.
TooEarly ==
  IF Canceled(currentSub) THEN "canceled"
  ELSE IF completedPub + 1 >= currentSub THEN "tx"
  ELSE IF pubStreamEnded THEN "eos" ELSE "cvCompleted"
AwaitOutcome ==
  IF Canceled(currentSub) THEN "canceled"
  ELSE IF completedPub >= currentSub THEN "tx"
  ELSE IF pubStreamEnded THEN "eos" ELSE "cvCompleted"

\* The transaction that is evicted when every subscriber has read.
EvictsNewest == currentPub
TxToEvict == currentSub

\* What flush_and_evict_transaction leaves in the progress file: nothing more
\* once the metadata was exported.
ForgetsToFlush(tx) == flushed
Flushed(tx) == IF ~pubStreamEnded /\ tx \in infos THEN Append(flushed, tx)
                                                  ELSE flushed
-----------------------------------------------------------------------------
(* Opening, and what every call of begin_transaction shares                 *)

\* Stream::open, for an actor that gets this engine.
Open(a) ==
  /\ pc[a] = "new" /\ streamOpen
  /\ pc' = Goto(a, "idle")
  /\ publishers' = IF a \in Pubs THEN publishers \cup {a} ELSE publishers
  /\ subscribers' = IF a \in Subs THEN subscribers \cup {a} ELSE subscribers
  /\ pubEverPresent' = (pubEverPresent \/ a \in Pubs)
  /\ UNCHANGED <<pubBarrier, subBarrier, client, pubSide, subSide, status,
                 metadata, transport>>

Begins(a) ==
  /\ pc[a] \in {"idle", "canceled"} /\ begun[a] < plan[a]
  /\ Gathered => \A b \in Actors : pc[b] # "new"
  /\ Paced => \A b \in Actors : pc[b] \notin {"commit", "closeLast"}
  /\ begun' = [begun EXCEPT ![a] = @ + 1]

\* The client's decision to close.
Closes(a) ==
  \/ pc[a] = "idle" /\ begun[a] = plan[a]
  \/ pc[a] \in {"canceled", "eos"}

-----------------------------------------------------------------------------
(* Publishers                                                               *)

\* Evaluation of the loop condition of begin_pub_transaction by p in
\* transaction tx, and what follows when it does not wait.
Flush(p, tx) ==
  LET next == IF FlushMustWait(p) THEN "flushLock"
              ELSE IF Canceled(tx) THEN "canceled" ELSE "tx"
  IN  /\ pc' = Goto(p, next)
      /\ toWrite' = IF next = "tx" THEN [toWrite EXCEPT ![p] = 0] ELSE toWrite

BeginPub(p) ==
  /\ Begins(p)
  /\ IF Canceled(currentPub + 1)
     THEN pc' = Goto(p, "canceled") /\ UNCHANGED <<pubSide, toWrite>>
     ELSE /\ pubInProgress' = TRUE /\ currentPub' = PubTx
          /\ IF PubTx > 1 THEN Flush(p, PubTx)
                          ELSE pc' = Goto(p, "tx") /\ UNCHANGED toWrite
          /\ UNCHANGED completedPub
  /\ UNCHANGED <<plan, registry, subSide, status, metadata, writes, wants>>

\* The mutex is taken after the condition was checked, and the wait follows
\* without another look at it.
LockToFlush(p) ==
  /\ pc[p] = "flushLock"
  /\ pc' = Goto(p, "cvFlush")
  /\ UNCHANGED <<client, registry, pubSide, subSide, status, metadata, transport>>

RecheckFlush(p) ==
  /\ pc[p] = "flush"
  /\ Flush(p, currentPub)
  /\ UNCHANGED <<client, registry, pubSide, subSide, status, metadata, writes,
                 wants>>

\* Metadata::add_transaction
AddTransaction(tx, p) == /\ blocks' = blocks \cup {<<tx, p>>}
                         /\ infos' = infos \cup {tx}

\* FileTransport::put of the block of p.
Put(p) ==
  /\ pc[p] = "tx"
  /\ pc' = Goto(p, "put")
  /\ AddTransaction(currentPub, p)
  /\ toWrite' = [toWrite EXCEPT ![p] = @ + 1]
  /\ UNCHANGED <<client, registry, pubSide, subSide, status, flushed, exported,
                 writes, wants>>

\* Start the writes of the transaction, then wait at the barrier.
EndPub(p) ==
  /\ pc[p] = "put"
  /\ pubBarrier' = BarrierFor(pubBarrier, publishers)
  /\ writes' = [writes EXCEPT ![p] = @ + toWrite[p]]
  /\ Arrive(p, Pubs, pubBarrier', "endBarrier", "commit")
  /\ UNCHANGED <<publishers, subscribers, subBarrier, pubEverPresent, client,
                 pubSide, subSide, status, metadata, toWrite, wants>>

\* The last publisher at the barrier, when SimGrid schedules it again.
Commit(p) ==
  /\ pc[p] = "commit"
  /\ pubInProgress' = FALSE
  /\ completedPub' = completedPub + 1
  /\ pc' = Notify(Goto(p, "idle"), CommitWakes)
  /\ UNCHANGED <<client, registry, currentPub, subSide, status, metadata,
                 transport>>

LeavePub(p) ==
  /\ toWrite' = [toWrite EXCEPT ![p] = 0]
  /\ publishers' = publishers \ {p}
  /\ ArriveToClose(p, Pubs, pubBarrier)
  /\ UNCHANGED <<subscribers, pubBarrier, subBarrier, pubEverPresent>>

\* Evaluation of the loop condition of pub_close, at the call and when woken.
ClosePub(p) ==
  /\ Closes(p) \/ pc[p] = "closing"
  /\ IF CloseMustWait(p)
     THEN pc' = Goto(p, "closeLock") /\ UNCHANGED <<registry, toWrite>>
     ELSE LeavePub(p)
  /\ UNCHANGED <<client, pubSide, subSide, status, metadata, writes, wants>>

LockToClose(p) ==
  /\ pc[p] = "closeLock"
  /\ pc' = Goto(p, "cvClose")
  /\ UNCHANGED <<client, registry, pubSide, subSide, status, metadata, transport>>

\* export_to_file: what the progress file holds, then what is in memory.
Listing == {flushed[i] : i \in 1..Len(flushed)} \cup infos

\* export_metadata_to_file, which leaves the metadata in memory as it is.
ExportMetadata == exported' = Listing /\ UNCHANGED <<blocks, infos, flushed>>

\* The last publisher closes the stream, exports the metadata and marks the
\* end of the stream (pubStreamEnded also stands for metadata_exported_).
CloseLastPub(p) ==
  /\ pc[p] = "closeLast"
  /\ streamOpen' = FALSE /\ pubStreamEnded' = TRUE
  /\ ExportMetadata
  /\ pc' = Notify(Goto(p, "closed"), EndWakes)
  /\ UNCHANGED <<client, registry, pubSide, subSide, canceledTx, transport>>

-----------------------------------------------------------------------------
(* Subscribers                                                              *)

\* With no publisher registered, only a stream known to have ended stops s.
BeginSub(s) ==
  /\ Begins(s)
  /\ IF Canceled(currentSub + 1)
     THEN pc' = Goto(s, "canceled") /\ UNCHANGED subSide
     ELSE LET tx == IF subInProgress THEN currentSub ELSE currentSub + 1
              ended == publishers = {} /\ pubStreamEnded /\ completedPub < tx
          IN  /\ currentSub' = tx
              /\ subInProgress' = ~ended
              /\ pc' = Goto(s, IF publishers # {} THEN "await"
                               ELSE IF ended THEN "eos" ELSE "tx")
              /\ UNCHANGED <<subsCompleted, evicting>>
  /\ UNCHANGED <<plan, registry, pubSide, status, metadata, transport>>

\* The wait for the publishers, the mutex held.
AwaitCompleted(s) ==
  /\ pc[s] = "await"
  /\ pc' = Goto(s, AwaitOutcome)
  /\ subInProgress' = (subInProgress /\ AwaitOutcome \notin {"canceled", "eos"})
  /\ UNCHANGED <<client, registry, pubSide, currentSub, subsCompleted, evicting,
                 status, metadata, transport>>

\* The last transaction the metadata of the variable knows.
LastTx == IF infos = {} THEN 0
          ELSE CHOOSE t \in infos : \A u \in infos : u <= t
Holders == {p \in Pubs : <<LastTx, p>> \in blocks}

\* FileTransport::get: the selection of s intersects the blocks of wanted.
\* Looking the transaction up adds an entry for it.
Get(s, wanted) ==
  /\ pc[s] = "tx" /\ wanted \subseteq Holders
  /\ pc' = Goto(s, "get")
  /\ infos' = infos \cup {LastTx}
  /\ wants' = [wants EXCEPT ![s] = wanted]
  /\ UNCHANGED <<client, registry, pubSide, subSide, status, blocks, flushed,
                 exported, toWrite, writes>>

\* The exits by TransactionCanceledException of end_sub_transaction, and the
\* same that does not clear the flag.
AbortKeepsFlag(s) ==
  /\ pc' = Goto(s, "canceled")
  /\ wants' = [wants EXCEPT ![s] = {}]
  /\ UNCHANGED subInProgress
AbortSub(s) ==
  /\ pc' = Goto(s, "canceled")
  /\ wants' = [wants EXCEPT ![s] = {}]
  /\ subInProgress' = FALSE

\* Check of a cancellation, then start the reads.
StartReads(s) ==
  IF Canceled(currentSub)
  THEN AbortSub(s)
  ELSE /\ pc' = Goto(s, IF wants[s] = {} THEN "readOver" ELSE "read")
       /\ UNCHANGED <<wants, subInProgress>>

\* A write of the transaction may be in flight.
MustAwaitWrites == /\ ~Canceled(currentSub)
                   /\ currentSub = currentPub /\ publishers # {}

EndSub(s) ==
  /\ pc[s] = "get"
  /\ IF MustAwaitWrites
     THEN pc' = Goto(s, "readLock") /\ UNCHANGED <<wants, subInProgress>>
     ELSE StartReads(s)
  /\ UNCHANGED <<client, registry, pubSide, currentSub, subsCompleted, evicting,
                 status, metadata, toWrite, writes>>

\* The mutex, then an unconditional wait.
LockToRead(s) ==
  /\ pc[s] = "readLock"
  /\ pc' = Goto(s, "cvWritten")
  /\ UNCHANGED <<client, registry, pubSide, subSide, status, metadata, transport>>

AwaitWritten(s) ==
  /\ pc[s] = "written"
  /\ StartReads(s)
  /\ UNCHANGED <<client, registry, pubSide, currentSub, subsCompleted, evicting,
                 status, metadata, toWrite, writes>>

\* The CancelException of a canceled read.
ReadAborted(s) ==
  /\ pc[s] = "aborted"
  /\ AbortSub(s)
  /\ UNCHANGED <<client, registry, pubSide, currentSub, subsCompleted, evicting,
                 status, metadata, toWrite, writes>>

\* flush_and_evict_transaction
Evict(tx) ==
  /\ flushed' = Flushed(tx)
  /\ infos' = infos \ {tx}
  /\ blocks' = {b \in blocks : b[1] # tx}
  /\ UNCHANGED exported

\* The reads of s are over.  Without publishers there is nothing to evict.
ReadOver(s) ==
  /\ pc[s] = "readOver"
  /\ IF Canceled(currentSub)
     THEN AbortSub(s) /\ UNCHANGED subBarrier
     ELSE /\ pc' = Goto(s, IF pubEverPresent THEN "count" ELSE "idle")
          /\ wants' = [wants EXCEPT ![s] = {}]
          /\ subInProgress' = (subInProgress /\ pubEverPresent)
          /\ subBarrier' = BarrierFor(subBarrier, subscribers)
  /\ UNCHANGED <<client, publishers, subscribers, pubBarrier, pubEverPresent,
                 pubSide, currentSub, subsCompleted, evicting, status, metadata,
                 toWrite, writes>>

\* With the mutex, s counts itself: the last one to do so is to evict what is
\* then the current transaction.
CountRead(s) ==
  /\ pc[s] = "count"
  /\ pc' = Goto(s, "evict")
  /\ IF subsCompleted + 1 = Cardinality(subscribers)
     THEN subsCompleted' = 0 /\ evicting' = [evicting EXCEPT ![s] = TxToEvict]
     ELSE subsCompleted' = subsCompleted + 1 /\ UNCHANGED evicting
  /\ UNCHANGED <<client, registry, pubSide, currentSub, subInProgress, status,
                 metadata, transport>>

\* The transaction is over for s.
EvictRead(s) ==
  /\ pc[s] = "evict"
  /\ pc' = Goto(s, "idle")
  /\ IF evicting[s] > 0 THEN Evict(evicting[s]) ELSE UNCHANGED metadata
  /\ evicting' = [evicting EXCEPT ![s] = 0]
  /\ subInProgress' = FALSE
  /\ UNCHANGED <<client, registry, pubSide, currentSub, subsCompleted, status,
                 transport>>

CloseSub(s) ==
  /\ Closes(s)
  /\ subscribers' = subscribers \ {s}
  /\ ArriveToClose(s, Subs, subBarrier)
  /\ UNCHANGED <<publishers, pubBarrier, subBarrier, pubEverPresent, client,
                 pubSide, subSide, status, metadata, transport>>

CloseLastSub(s) ==
  /\ pc[s] = "closeLast"
  /\ pc' = Goto(s, "closed")
  /\ streamOpen' = FALSE
  /\ UNCHANGED <<client, registry, pubSide, subSide, pubStreamEnded, canceledTx,
                 metadata, transport>>

-----------------------------------------------------------------------------
(* Time, and a cancellation                                                 *)

\* No actor can run, so time advances to a date where a write of each
\* publisher in written and the reads of each subscriber in read end.  The
\* callback of a write notifies, then forgets the write.
Advance(written, read) ==
  /\ \A a \in Actors : pc[a] \notin Running
  /\ written \cup read # {}
  /\ \A p \in written : InFlight(p)
  /\ \A s \in read : pc[s] = "read"
  /\ writes' = [p \in Pubs |-> IF p \in written THEN writes[p] - 1 ELSE writes[p]]
  /\ LET over == [a \in Actors |-> IF a \in read THEN "readOver" ELSE pc[a]]
     IN  pc' = IF written = {} THEN over ELSE Notify(over, WriteWakes)
  /\ UNCHANGED <<client, registry, pubSide, subSide, status, metadata, toWrite,
                 wants>>

\* Engine::cancel_transaction by an actor that takes no part in the
\* transactions.  A call on a transaction that both sides left does nothing.
CancelTransaction(tx) ==
  /\ MayCancel /\ canceledTx = 0
  /\ ~(currentPub > tx /\ currentSub > tx)
  /\ canceledTx' = IF tx = 0 THEN 1 ELSE tx
  /\ writes' = [p \in Pubs |-> 0]
  /\ LET torn == [a \in Actors |-> IF pc[a] = "read" THEN "aborted" ELSE pc[a]]
     IN  pc' = Notify(torn, CancelWakes)
  /\ UNCHANGED <<client, registry, pubSide, subSide, pubStreamEnded, streamOpen,
                 metadata, toWrite, wants>>

-----------------------------------------------------------------------------
PubStep(p) ==
  \/ Open(p) \/ BeginPub(p) \/ LockToFlush(p) \/ RecheckFlush(p) \/ Put(p)
  \/ EndPub(p) \/ Commit(p) \/ ClosePub(p) \/ LockToClose(p) \/ CloseLastPub(p)

SubStep(s) ==
  \/ Open(s) \/ BeginSub(s) \/ AwaitCompleted(s)
  \/ (\E wanted \in SUBSET Pubs : Get(s, wanted))
  \/ EndSub(s) \/ LockToRead(s) \/ AwaitWritten(s) \/ ReadAborted(s)
  \/ ReadOver(s) \/ CountRead(s) \/ EvictRead(s)
  \/ CloseSub(s) \/ CloseLastSub(s)

TimeStep == \E written \in SUBSET Pubs, read \in SUBSET Subs :
              Advance(written, read)

AllClosed == \A a \in Actors : pc[a] = "closed"
Terminated == AllClosed /\ UNCHANGED vars

Next ==
  \/ \E p \in Pubs : PubStep(p)
  \/ \E s \in Subs : SubStep(s)
  \/ TimeStep
  \/ \E tx \in 0..MaxTx : CancelTransaction(tx)
  \/ Terminated

Spec == Init /\ [][Next]_vars

\* SimGrid schedules every actor that can run, and time advances when none
\* can, so that I/O ends; nothing says that anybody cancels.
Fairness ==
  /\ \A p \in Pubs : WF_vars(PubStep(p))
  /\ \A s \in Subs : WF_vars(SubStep(s))
  /\ WF_vars(TimeStep)

FairSpec == Spec /\ Fairness
=============================================================================
