---------------------------- MODULE FileProperties ----------------------------
(***************************************************************************)
(* What FileEngine promises to the actors that use it.  The first part     *)
(* holds whatever the client does; the second part is about clients that   *)
(* open the stream together, leave time between transactions and have one  *)
(* subscriber (Gathered and Paced).                                        *)
(***************************************************************************)
EXTENDS FileEngine

PubPlaces == {"new", "idle", "flushLock", "cvFlush", "flush", "tx", "put",
              "endBarrier", "commit", "canceled", "closeLock", "cvClose",
              "closing", "closeBarrier", "closeLast", "closed"}
SubPlaces == {"new", "idle", "await", "cvCompleted", "tx", "get", "readLock",
              "cvWritten", "written", "read", "readOver", "count", "evict",
              "aborted", "canceled", "eos", "closeBarrier", "closeLast", "closed"}

PlacesOK(f) ==
  /\ f \in [Actors -> PubPlaces \cup SubPlaces]
  /\ \A p \in Pubs : f[p] \in PubPlaces
  /\ \A s \in Subs : f[s] \in SubPlaces

\* Every variable has its type; the counters, unsigned in FileEngine.hpp, and
\* the sizes of the sets of pending writes are natural numbers.
TypeOK ==
  /\ PlacesOK(pc)
  /\ begun \in [Actors -> Nat] /\ plan \in [Actors -> Nat]
  /\ publishers \in SUBSET Pubs /\ subscribers \in SUBSET Subs
  /\ pubBarrier \in Nat /\ subBarrier \in Nat /\ pubEverPresent \in BOOLEAN
  /\ currentPub \in Nat /\ completedPub \in Nat /\ pubInProgress \in BOOLEAN
  /\ currentSub \in Nat /\ subInProgress \in BOOLEAN /\ subsCompleted \in Nat
  /\ pubStreamEnded \in BOOLEAN /\ canceledTx \in Nat /\ streamOpen \in BOOLEAN
  /\ blocks \in SUBSET (Nat \X Pubs) /\ infos \in SUBSET Nat
  /\ flushed \in Seq(Nat) /\ exported \in SUBSET Nat
  /\ toWrite \in [Pubs -> Nat] /\ writes \in [Pubs -> Nat]
  /\ wants \in [Subs -> SUBSET Pubs] /\ evicting \in [Subs -> Nat]

-----------------------------------------------------------------------------
(* Whatever the client does                                                 *)

\* A subscriber asleep until a transaction completes still has to wait for it:
\* the completion and the end of the stream notify, also when another
\* subscriber moves the common counter on in the meantime.
SubscribersSleepForAReason ==
  \A s \in Subs : pc[s] = "cvCompleted" =>
    completedPub < currentSub /\ ~pubStreamEnded

\* Nor does a cancellation leave a subscriber of the transaction asleep there.
CancellationWakesSubscribers ==
  \A s \in Subs : pc[s] = "cvCompleted" => ~Canceled(currentSub)

\* sub_transaction_in_progress_ never sticks: while it is set a subscriber is
\* inside a transaction, so that the first to begin later starts a new one.
\* Each way out of a transaction clears it, the three exceptions included.
InTransaction == {"await", "cvCompleted", "tx", "get", "readLock", "cvWritten",
                  "written", "read", "readOver", "count", "evict", "aborted"}
SubFlagNeverSticks ==
  subInProgress => \E s \in Subs : pc[s] \in InTransaction

\* A publisher that went through close has written all that it published,
\* unless there was a cancellation: its file is complete when it is closed.
CloseMeansWritten ==
  \A p \in Pubs : pc[p] \in {"closeBarrier", "closeLast", "closed"} =>
    writes[p] = 0 \/ canceledTx # 0

-----------------------------------------------------------------------------
(* Clients that are Gathered and Paced, without cancellation                *)

\* Publishers move together: the n-th put of each belongs to transaction n.
PublishersInStep ==
  \A p \in Pubs : pc[p] \in {"tx", "put"} => begun[p] = currentPub

\* What a publisher wrote in the previous transaction is on storage when it
\* puts anything in the next one.
PreviousWritten ==
  \A p \in Pubs : pc[p] \in {"tx", "put"} => writes[p] = 0

\* The metadata of a completed transaction stays in memory until the
\* subscriber has read: with it every publisher's block.
ReadsAhead == InTransaction \ {"count", "evict"}
EvictedWhenRead ==
  \A t \in 1..completedPub : ~({t} \X Pubs \subseteq blocks) =>
    \A s \in Subs : begun[s] > t \/ (begun[s] = t /\ pc[s] \notin ReadsAhead)

\* The exported metadata lists every transaction: what was evicted is in the
\* progress file, once and in order, and what comes later is newer.
ExportComplete ==
  /\ pubStreamEnded => exported = 1..completedPub
  /\ \A i, j \in 1..Len(flushed) : i < j => flushed[i] < flushed[j]
  /\ \A i \in 1..Len(flushed) : \A t \in infos : flushed[i] < t

\* The publishers never wait for the subscriber: they eventually close,
\* whatever it does.
PublishersClose == <>(\A p \in Pubs : pc[p] = "closed")

-----------------------------------------------------------------------------
(* What the documentation says, and the code does not always do             *)

\* Inside_File_engine.rst:80 "subscribers have to wait for the file(s) they need
\* to read to be fully written": a subscriber starts to read the transaction
\* that it is in when none of the writes of that transaction is in flight.
ReadsWhatIsWritten ==
  [][\A s \in Subs : pc[s] # "read" /\ pc'[s] = "read" /\ begun[s] = completedPub
       => \A p \in wants[s] : writes[p] = 0]_vars

\* Inside_File_engine.rst:81 "waiting on a condition variable until subscribers
\* are notified of the completion of the corresponding I/O activities": the
\* subscriber gets out of that wait and eventually closes.
EverybodyCloses == <>(\A a \in Actors : pc[a] = "closed")
=============================================================================
