-------------------------- MODULE StagingProperties --------------------------
(***************************************************************************)
(* What StagingEngine promises to the actors that use it.  The first part  *)
(* holds whatever the client does; the second part is about clients that   *)
(* open the stream together and go from one transaction to the next        *)
(* without doing anything else (Gathered and Prompt).                      *)
(***************************************************************************)
EXTENDS StagingEngine

Request == [from : Subs, wants : BOOLEAN]

PubPlaces == {"new", "idle", "lock", "flush", "cvStarted", "recheck", "tx",
              "put", "endBarrier", "commit", "serve", "overBarrier",
              "clearFlag", "canceled", "closeFlush", "closeBarrier",
              "closeLast", "closed", "crashed"}
SubPlaces == {"new", "idle", "first", "cvFirst", "start", "await",
              "cvCompleted", "tx", "get", "endBarrier", "collect", "over",
              "overBarrier", "release", "clearFlag", "canceled", "eos",
              "closeFlush", "closeBarrier", "closeLast", "closed", "crashed"}

PlacesOK(f) ==
  /\ f \in [Actors -> PubPlaces \cup SubPlaces]
  /\ \A p \in Pubs : f[p] \in PubPlaces
  /\ \A s \in Subs : f[s] \in SubPlaces

\* Every variable has its type; the counters, unsigned in StagingEngine.hpp,
\* are natural numbers.
TypeOK ==
  /\ PlacesOK(pc)
  /\ begun \in [Actors -> Nat] /\ plan \in [Actors -> Nat]
  /\ publishers \in SUBSET Pubs /\ subscribers \in SUBSET Subs
  /\ pubBarrier \in Nat /\ subBarrier \in Nat
  /\ currentPub \in Nat /\ completedPub \in Nat
  /\ pubInProgress \in BOOLEAN /\ pubClosing \in BOOLEAN
  /\ pubMutex \in Pubs \cup {Free}
  /\ currentSub \in Nat /\ numStarting \in Nat
  /\ subInProgress \in BOOLEAN /\ subClosing \in BOOLEAN
  /\ pubStreamEnded \in BOOLEAN /\ canceledTx \in Nat /\ streamOpen \in BOOLEAN
  /\ blocks \in SUBSET (Nat \X Pubs)
  /\ pending \in [Pubs -> Nat] /\ requests \in [Pubs -> Seq(Request)]
  /\ rdv \in SUBSET Pairs
  /\ puts \in [Pairs -> Nat] /\ gets \in [Pairs -> Nat]
  /\ pubAborted \in BOOLEAN /\ subAborted \in BOOLEAN

-----------------------------------------------------------------------------
(* Whatever the client does                                                 *)

\* The positions of a subscriber that num_subscribers_starting_ counts: it
\* has joined a transaction and has neither ended it nor been thrown out.
Counted == {"await", "cvCompleted", "tx", "get", "endBarrier", "collect",
            "over", "overBarrier", "release", "clearFlag", "crashed"}

\* num_subscribers_starting_ counts exactly the subscribers inside a
\* transaction: every exit (normal end, cancellation, end of stream) takes
\* back what the begin added, so the unsigned counter never wraps.
StartingBalanced == numStarting = Cardinality({s \in Subs : pc[s] \in Counted})

\* No lost wake-up: a subscriber asleep on a condition variable has still
\* something to wait for.  Each step that provides it (the first publisher's
\* begin, the completion of a transaction, the end of the stream) notifies.
\* It takes publishers that do not close before their first transaction: when
\* all do, there is no barrier, none of them is the last one (pub_close), and
\* the stream never ends.
SubscribersSleepForAReason ==
  \A s \in Subs :
    /\ pc[s] = "cvFirst" => currentPub = 0 /\ ~pubStreamEnded
    /\ pc[s] = "cvCompleted" => completedPub < currentSub /\ ~pubStreamEnded

\* Why: a publisher that closes before any transaction was started had begun
\* one that was canceled, and a subscriber that would wait for the first
\* transaction is told so.
SleepInv ==
  /\ SubscribersSleepForAReason
  /\ \A p \in Pubs : plan[p] >= MinTx
  /\ \A p \in Pubs : pc[p] \notin {"new", "idle"} => begun[p] > 0
  /\ pubInProgress => currentPub > 0
  /\ currentPub = 0 =>
       /\ currentSub = 0
       /\ \A s \in Subs : pc[s] # "start"
       /\ \A p \in Pubs : begun[p] > 0 => canceledTx = 1
  /\ canceledTx = 1 /\ currentSub = 0 => \A s \in Subs : pc[s] # "cvFirst"

\* The barrier of the subscribers, made at their first end of a transaction,
\* expects all of them.  One that opens the stream later arrives at the barrier
\* in the place of another, which lets that one pass too early.
AllExpected == subBarrier \in {0, Cardinality(Subs)}

\* Nor does a cancellation leave a subscriber of the transaction asleep.
CancellationWakesSubscribers ==
  \A s \in Subs :
    /\ pc[s] = "cvFirst" => ~Canceled(currentSub + 1)
    /\ pc[s] = "cvCompleted" /\ AllExpected => ~Canceled(currentSub)

\* No transaction is completed that was not started.
CompletedWithinStarted == completedPub <= currentPub

\* Only a cancellation aborts an activity: the CancelException that wait_all
\* throws is always turned into a TransactionCanceledException.
AbortedOnlyByCancel == pubAborted \/ subAborted => canceledTx # 0

\* A subscriber that leaves a transaction has received everything that it
\* asked for: none of its receptions is still in flight.  A cancellation, after
\* which one of them leaves without the others, ends this too.
EndMeansReceived ==
  canceledTx = 0 /\ AllExpected =>
    \A x \in Pairs : pc[x[2]] \in {"release", "clearFlag", "idle"} => gets[x] = 0

-----------------------------------------------------------------------------
(* Clients that are Gathered and Prompt, without cancellation               *)

\* The n-th get of a subscriber reads the n-th transaction, with a block of
\* every publisher in it: neither an older nor a newer transaction is served,
\* and the rendez-vous points that the get uses exist.
ReadsItsTransaction ==
  [][\A s \in Subs : pc[s] = "tx" /\ pc'[s] # "tx" =>
        pc'[s] = "get" /\ LastTx = begun[s] /\ Holders = Pubs]_vars

\* Publishers move together: the n-th put of each belongs to transaction n.
PublishersInStep ==
  \A p \in Pubs : pc[p] \in {"tx", "put"} => begun[p] = currentPub

\* A publisher starts to wait for the subscribers of a transaction when all the
\* data of the previous one has arrived: at most one transaction is in flight.
OneTransactionInFlight ==
  \A p \in Pubs : pc[p] \in {"cvStarted", "recheck", "tx", "put"} => AllOver(puts)

\* The put requests of a transaction are all served within it: none is left
\* to be taken for a request of the next one.
NoStrayRequest ==
  \A p \in Pubs : pc[p] \in {"overBarrier", "clearFlag", "idle", "tx"} =>
    pending[p] = 0 /\ requests[p] = <<>>

\* A publisher that sleeps until the subscribers have reached its transaction is
\* right to: one of them has not begun it, or is still about to join it.
PublishersSleepForAReason ==
  \A p \in Pubs : pc[p] = "cvStarted" =>
    \E s \in Subs : begun[s] < begun[p] \/ pc[s] \in {"first", "cvFirst", "start"}

\* What the position of an actor, and what it waits for there, allow it to do.
\* Who sleeps on a condition variable or waits at a barrier moves only when
\* somebody else resumes it.
PubMayStep(p) ==
  /\ Turn(p)
  /\ \/ pc[p] = "new" /\ streamOpen
     \/ /\ pc[p] \in {"idle", "canceled"} /\ begun[p] < plan[p]
        /\ Gathered /\ currentPub = 0 =>
             publishers = Pubs /\ \A s \in Subs : pc[s] = "cvFirst"
     \/ pc[p] = "idle" /\ begun[p] = plan[p]
     \/ pc[p] \in {"lock", "recheck"} /\ pubMutex = Free
     \/ pc[p] = "flush" /\ (pubAborted \/ PreviousOver)
     \/ pc[p] = "serve" /\ (pending[p] = 0 \/ requests[p] # <<>>)
     \/ pc[p] = "closeFlush" /\ PubCloseOver
     \/ pc[p] \in {"tx", "put", "commit", "clearFlag", "canceled", "closeLast"}
SubMayStep(s) ==
  /\ Turn(s)
  /\ \/ pc[s] = "new" /\ streamOpen
     \/ pc[s] = "idle" /\ begun[s] <= plan[s]
     \/ pc[s] = "collect" /\ (subAborted \/ ReceptionsOver)
     \/ pc[s] = "closeFlush" /\ (subAborted \/ AllOver(gets))
     \/ pc[s] \in {"first", "start", "await", "tx", "get", "over", "release",
                   "clearFlag", "canceled", "eos", "closeLast"}

\* No deadlock: until everybody has closed, somebody can move or a
\* communication is under way.
NeverStuck == \/ AllClosed
              \/ \E p \in Pubs : PubMayStep(p)
              \/ \E s \in Subs : SubMayStep(s)
              \/ \E x \in Pairs : InFlight(x)

\* Every actor eventually closes the engine, also the subscribers that ask
\* for a transaction that never comes.
EverybodyCloses == <>(\A a \in Actors : pc[a] = "closed")

-----------------------------------------------------------------------------
(* What the documentation says, and the code does not always do             *)

\* Engine.hpp:171 "Cancel all in-flight activities of a specific transaction,
\* unblocking publishers and subscribers": after a cancellation nobody that uses
\* the engine stays blocked, so that it eventually closes.
CancelUnblocks ==
  \A a \in Actors : (canceledTx # 0 /\ pc[a] # "new") ~> pc[a] = "closed"

\* StagingEngine.cpp:262 "Prevent subscribers to start a new transaction before
\* this one is really over": a subscriber whose begin returned is in a
\* transaction that it was not in before.
SubscribersInStep ==
  \A s \in Subs : pc[s] = "tx" => begun[s] = currentSub
=============================================================================
