---------------------------- MODULE StagingEngine ----------------------------
(***************************************************************************)
(* The Staging engine of the DTL: publishers and subscribers that have     *)
(* opened one stream meet in transactions, and the data of a transaction   *)
(* travels in direct communications between them.                          *)
(*                                                                         *)
(* Sources: StagingEngine.cpp (the transaction protocol), Engine.cpp (call *)
(* dispatch, cancellation), ActorRegistry.hpp (who takes part, and the     *)
(* barrier of each side), StagingTransport.cpp with StagingMboxTransport   *)
(* and StagingMqTransport (put requests, rendez-vous points, transfers).   *)
(*                                                                         *)
(* Actors are SimGrid actors: cooperative, so that what an actor does      *)
(* between two blocking calls is one step here.  pc[a] says where actor a  *)
(* is; the names that start with "cv" are the wait queues of the three     *)
(* condition variables, and those that end in "Barrier" are the actors     *)
(* blocked in Barrier::wait.  The client of the engine is the loop that    *)
(* the tests run: open, then plan[a] times begin / put or get of one       *)
(* variable / end, then close; it closes after an end of stream, and after *)
(* a cancellation it either closes or begins again.                        *)
(***************************************************************************)
EXTENDS Naturals, FiniteSets, Sequences

CONSTANTS
  Pubs, Subs,  \* the actors that open the stream in each mode
  MinTx, MaxTx,\* bounds of the number of transactions the publishers plan
  Free,        \* stands for "no actor holds the publishers' mutex"
  MayCancel,   \* whether another actor may call cancel_transaction (once)
  Gathered,    \* client: the first transaction waits for every actor
  Prompt       \* client: no other work between end and the next call, which
               \* is the same for all the actors of a side

ASSUME ActorsAssumption ==
  /\ IsFiniteSet(Pubs) /\ IsFiniteSet(Subs) /\ Pubs \cap Subs = {}
  /\ Free \notin Pubs \cup Subs
ASSUME TxAssumption == MinTx \in Nat /\ MaxTx \in Nat /\ MinTx <= MaxTx
ASSUME ClientAssumption == {MayCancel, Gathered, Prompt} \subseteq BOOLEAN

Actors == Pubs \cup Subs
Pairs == Pubs \X Subs

VARIABLES
  pc, begun, plan,              \* per actor: position, calls of begin, quota
  publishers, subscribers,      \* the two registries
  pubBarrier, subBarrier,       \* size of each registry's barrier, 0 if null
  currentPub, completedPub, pubInProgress, pubClosing, pubMutex,
  currentSub, numStarting, subInProgress, subClosing,
  pubStreamEnded, canceledTx, streamOpen,
  blocks,                       \* metadata of the variable: <<tx, publisher>>
  pending, requests,            \* per publisher: posted receptions, messages
  rdv, puts, gets,              \* rendez-vous points, activities of each side
  pubAborted, subAborted        \* a canceled activity is still in the set

client == <<begun, plan>>
registry == <<publishers, subscribers, pubBarrier, subBarrier>>
pubSide == <<currentPub, completedPub, pubInProgress, pubClosing, pubMutex>>
subSide == <<currentSub, numStarting, subInProgress, subClosing>>
status == <<pubStreamEnded, canceledTx, streamOpen>>
messages == <<blocks, pending, requests, rdv>>
activities == <<puts, gets, pubAborted, subAborted>>
transport == <<messages, activities>>
vars == <<pc, client, registry, pubSide, subSide, status, transport>>

NoActivity == [x \in Pairs |-> 0]

Init ==
  /\ pc = [a \in Actors |-> "new"]
  /\ begun = [a \in Actors |-> 0]
  /\ \E n \in MinTx..MaxTx :
       plan \in {f \in [Actors -> {n, n + 1}] :
                  /\ \A p \in Pubs : f[p] = n
                  /\ Prompt => \A r, s \in Subs : f[r] = f[s]}
  /\ publishers = {} /\ subscribers = {} /\ pubBarrier = 0 /\ subBarrier = 0
  /\ currentPub = 0 /\ completedPub = 0 /\ pubMutex = Free
  /\ pubInProgress = FALSE /\ pubClosing = FALSE
  /\ currentSub = 0 /\ numStarting = 0
  /\ subInProgress = FALSE /\ subClosing = FALSE
  /\ pubStreamEnded = FALSE /\ canceledTx = 0 /\ streamOpen = TRUE
  /\ blocks = {} /\ rdv = {}
  /\ pending = [p \in Pubs |-> 0] /\ requests = [p \in Pubs |-> <<>>]
  /\ puts = NoActivity /\ gets = NoActivity
  /\ pubAborted = FALSE /\ subAborted = FALSE

-----------------------------------------------------------------------------
(* Condition variables and barriers                                         *)

\* Where an actor woken from a condition variable re-evaluates its condition.
Woken(at) == CASE at = "cvFirst" -> "first"
               [] at = "cvStarted" -> "recheck"
               [] at = "cvCompleted" -> "await"

\* notify_all on the condition variables cvs, on top of the positions f.
Notify(f, cvs) ==
  [a \in Actors |-> IF f[a] \in cvs THEN Woken(f[a]) ELSE f[a]]

Goto(a, to) == [pc EXCEPT ![a] = to]

\* SimGrid runs every actor that a barrier resumed before any of them runs
\* twice.  A Prompt client has nothing to do between end_transaction and its
\* next call: the actors of a side that leave a transaction make that call
\* before one of them goes further.
Returning == {"idle", "release", "clearFlag"}
Side(a) == IF a \in Pubs THEN Pubs ELSE Subs
Turn(a) == Prompt => \/ pc[a] \in Returning \cup {"new"}
                     \/ \A b \in Side(a) : pc[b] \in Returning => begun[b] = 0

\* Actor a is in one of these places and SimGrid schedules it.
At(a, places) == pc[a] \in places /\ Turn(a)

AtBarrier == {"endBarrier", "overBarrier", "closeBarrier"}

\* Where an actor goes on when Barrier::wait returns false to it.
Resumed(a) ==
  CASE pc[a] = "endBarrier" -> IF a \in Pubs THEN "serve" ELSE "over"
    [] pc[a] = "overBarrier" -> IF a \in Pubs THEN "idle" ELSE "release"
    [] pc[a] = "closeBarrier" -> "closed"

\* Barrier::wait by a, of a barrier of that size: the last actor to arrive
\* goes to `last` and resumes the others, an earlier one blocks at `at`.
Arrive(a, side, size, at, last) ==
  LET waiting == {b \in side : pc[b] \in AtBarrier}
  IN  pc' = IF Cardinality(waiting) + 1 < size
            THEN Goto(a, at)
            ELSE [b \in Actors |-> IF b = a THEN last
                                   ELSE IF b \in waiting THEN Resumed(b)
                                   ELSE pc[b]]

\* get_or_create_barrier: sized by who is registered at the first end, and the
\* same that forgets the caller.
OneMissing(size, members) == IF size = 0 THEN Cardinality(members) - 1 ELSE size
BarrierFor(size, members) == IF size = 0 THEN Cardinality(members) ELSE size

\* is_last_at_barrier of a closing actor, whose side may have no barrier.
ArriveToClose(a, side, size) ==
  IF size = 0 THEN pc' = Goto(a, "closed")
              ELSE Arrive(a, side, size, "closeBarrier", "closeLast")

-----------------------------------------------------------------------------
(* Conditions of the protocol, each beside a faulty variant of it that the  *)
(* properties are shown to reject.                                          *)

\* is_transaction_canceled
Canceled(tx) == canceledTx = tx

\* The condition variables that a cancellation, and the end of the stream,
\* notify.
CancelWakesPubsOnly == {"cvStarted"}
CancelWakes == {"cvFirst", "cvStarted", "cvCompleted"}
EndWakesFirstOnly == {"cvFirst"}
EndWakes == {"cvFirst", "cvCompleted"}

\* The transaction that a publisher begins.
EveryPubStartsOne == currentPub + 1
PubTx == IF pubInProgress THEN currentPub ELSE currentPub + 1

\* The put requests that a put expects: one from each subscriber.
AllButOneRequest == Cardinality(subscribers) - 1
ExpectedRequests == Cardinality(subscribers)

\* This completion has not been counted yet.
MustComplete == completedPub < currentPub

\* The n-th subscriber that starts transaction tx tells the publishers: the
\* counter is read after it was incremented.
NobodyTells(n, tx) == FALSE
CountedBefore(n, tx) == n - 1 = Cardinality(subscribers) /\ currentPub = tx
TellsPublishers(n, tx) == n = Cardinality(subscribers) /\ currentPub = tx

\* How await_completed_pub_transaction ends, or that it sleeps.
TooEarly ==
  IF Canceled(currentSub) THEN "canceled"
  ELSE IF completedPub + 1 >= currentSub THEN "tx"
  ELSE IF pubStreamEnded THEN "eos" ELSE "cvCompleted"
AwaitOutcome ==
  IF Canceled(currentSub) THEN "canceled"
  ELSE IF completedPub >= currentSub THEN "tx"
  ELSE IF pubStreamEnded THEN "eos" ELSE "cvCompleted"

\* num_subscribers_starting_ after an exit by exception.
NoRollBack(thrown) == numStarting
AlwaysRollBack(thrown) == numStarting - 1
RollBack(thrown) == IF thrown THEN numStarting - 1 ELSE numStarting

-----------------------------------------------------------------------------
(* Activities: puts and gets count, for each publisher and subscriber, the  *)
(* communications posted by each side and not over.  One that both posted   *)
(* is a single communication in flight.                                     *)

InFlight(x) == puts[x] > 0 /\ gets[x] > 0
AllOver(acts) == \A x \in Pairs : acts[x] = 0

\* wait_all of the previous transaction's puts, of a closing publisher, and of
\* the last subscriber at the end of a transaction.
NoWait == TRUE
PreviousOver == AllOver(puts)
PubCloseOver == pubAborted \/ AllOver(puts)
ReceptionsOver == AllOver(gets)

\* What is left of one side when the other side cancels its communications.
Unmatched(mine, theirs) ==
  [x \in Pairs |-> IF mine[x] > theirs[x] THEN mine[x] - theirs[x] ELSE 0]

\* cancel_pending_activities and clear, on the publishers' set.
DrainPuts ==
  /\ puts' = NoActivity /\ pubAborted' = FALSE
  /\ gets' = Unmatched(gets, puts)
  /\ subAborted' = (subAborted \/ \E x \in Pairs : InFlight(x))

\* The same on the subscribers' set.
DrainGets ==
  /\ gets' = NoActivity /\ subAborted' = FALSE
  /\ puts' = Unmatched(puts, gets)
  /\ pubAborted' = (pubAborted \/ \E x \in Pairs : InFlight(x))

\* A communication that both sides posted ends.
Transfer(x) ==
  /\ InFlight(x)
  /\ puts' = [puts EXCEPT ![x] = @ - 1]
  /\ gets' = [gets EXCEPT ![x] = @ - 1]
  /\ UNCHANGED <<pc, client, registry, pubSide, subSide, status, messages,
                 pubAborted, subAborted>>

-----------------------------------------------------------------------------
(* Opening, and what every call of begin_transaction shares                 *)

\* Stream::open, for an actor that gets this engine.
Open(a) ==
  /\ At(a, {"new"}) /\ streamOpen
  /\ pc' = Goto(a, "idle")
  /\ publishers' = IF a \in Pubs THEN publishers \cup {a} ELSE publishers
  /\ subscribers' = IF a \in Subs THEN subscribers \cup {a} ELSE subscribers
  /\ UNCHANGED <<pubBarrier, subBarrier, client, pubSide, subSide, status,
                 transport>>

Begins(a) ==
  /\ At(a, {"idle", "canceled"}) /\ begun[a] < plan[a]
  /\ begun' = [begun EXCEPT ![a] = @ + 1]

\* The client's decision to close.
Closes(a) ==
  \/ At(a, {"idle"}) /\ begun[a] = plan[a]
  \/ At(a, {"canceled", "eos"})

-----------------------------------------------------------------------------
(* Publishers                                                               *)

BeginPub(p) ==
  /\ Begins(p)
  /\ Gathered /\ currentPub = 0 =>
       (publishers = Pubs /\ \A s \in Subs : pc[s] = "cvFirst")
  /\ IF Canceled(currentPub + 1)
     THEN pc' = Goto(p, "canceled") /\ UNCHANGED pubSide
     ELSE /\ pubInProgress' = TRUE
          /\ currentPub' = PubTx
          /\ pc' = IF ~pubInProgress /\ currentPub = 0
                   THEN Notify(Goto(p, "lock"), {"cvFirst"})
                   ELSE Goto(p, "lock")
          /\ UNCHANGED <<completedPub, pubClosing, pubMutex>>
  /\ UNCHANGED <<plan, registry, subSide, status, transport>>

MustAwaitSubs == subscribers = {} \/ currentPub > currentSub

PubWaitOutcome == IF Canceled(currentPub) THEN "canceled"
                  ELSE IF MustAwaitSubs THEN "cvStarted" ELSE "tx"

KeepsMutex(p) == pc' = Goto(p, PubWaitOutcome) /\ pubMutex' = p

\* The wait for the subscribers, with the mutex: it is free afterwards,
\* whether p waits, throws or goes on.
AwaitSubs(p) ==
  /\ pc' = Goto(p, PubWaitOutcome)
  /\ pubMutex' = Free

LockPub(p) ==
  /\ At(p, {"lock"}) /\ pubMutex = Free
  /\ IF currentPub > 1 THEN pubMutex' = p /\ pc' = Goto(p, "flush")
                       ELSE AwaitSubs(p)
  /\ UNCHANGED <<client, registry, currentPub, completedPub, pubInProgress,
                 pubClosing, subSide, status, transport>>

\* Woken from sub_transaction_started_: the mutex is taken again first.
Recheck(p) ==
  /\ At(p, {"recheck"}) /\ pubMutex = Free
  /\ AwaitSubs(p)
  /\ UNCHANGED <<client, registry, currentPub, completedPub, pubInProgress,
                 pubClosing, subSide, status, transport>>

\* wait_all on what the previous transaction published, the mutex held.
Flush(p) ==
  /\ At(p, {"flush"})
  /\ IF pubAborted
     THEN /\ DrainPuts
          /\ pc' = Goto(p, "canceled") /\ pubMutex' = Free
     ELSE /\ PreviousOver
          /\ AwaitSubs(p)
          /\ UNCHANGED activities
  /\ UNCHANGED <<client, registry, currentPub, completedPub, pubInProgress,
                 pubClosing, subSide, status, messages>>

\* Engine::put of the variable: record the block, expect one request from
\* every subscriber.
Put(p) ==
  /\ At(p, {"tx"})
  /\ pc' = Goto(p, "put")
  /\ blocks' = blocks \cup {<<currentPub, p>>}
  /\ pending' = [pending EXCEPT ![p] = @ + ExpectedRequests]
  /\ UNCHANGED <<client, registry, pubSide, subSide, status, requests, rdv,
                 activities>>

EndPub(p) ==
  /\ At(p, {"put"})
  /\ pubBarrier' = BarrierFor(pubBarrier, publishers)
  /\ Arrive(p, Pubs, pubBarrier', "endBarrier", "commit")
  /\ UNCHANGED <<publishers, subscribers, subBarrier, client, pubSide, subSide,
                 status, transport>>

\* The last publisher at the first barrier completes the transaction.
Commit(p) ==
  /\ At(p, {"commit"})
  /\ IF MustComplete
     THEN /\ completedPub' = completedPub + 1
          /\ pc' = Notify(Goto(p, "serve"), {"cvCompleted"})
     ELSE pc' = Goto(p, "serve") /\ UNCHANGED completedPub
  /\ UNCHANGED <<client, registry, currentPub, pubInProgress, pubClosing,
                 pubMutex, subSide, status, transport>>

\* One turn of get_requests_and_do_put.  A missing rendez-vous point is a
\* null pointer that the code dereferences.
Serve(p) ==
  /\ At(p, {"serve"}) /\ pending[p] > 0 /\ requests[p] # <<>>
  /\ LET r == Head(requests[p])
         x == <<p, r.from>>
     IN  /\ puts' = IF r.wants /\ x \in rdv THEN [puts EXCEPT ![x] = @ + 1]
                                            ELSE puts
         /\ pc' = IF r.wants /\ x \notin rdv THEN Goto(p, "crashed") ELSE pc
  /\ pending' = [pending EXCEPT ![p] = @ - 1]
  /\ requests' = [requests EXCEPT ![p] = Tail(@)]
  /\ UNCHANGED <<client, registry, pubSide, subSide, status, blocks, rdv, gets,
                 pubAborted, subAborted>>

EndServe(p) ==
  /\ At(p, {"serve"}) /\ pending[p] = 0
  /\ Arrive(p, Pubs, pubBarrier, "overBarrier", "clearFlag")
  /\ UNCHANGED <<client, registry, pubSide, subSide, status, transport>>

ClearPub(p) ==
  /\ At(p, {"clearFlag"})
  /\ pc' = Goto(p, "idle")
  /\ pubInProgress' = FALSE
  /\ UNCHANGED <<client, registry, currentPub, completedPub, pubClosing,
                 pubMutex, subSide, status, transport>>

LeavePub(p) ==
  /\ publishers' = publishers \ {p}
  /\ ArriveToClose(p, Pubs, pubBarrier)
  /\ UNCHANGED <<subscribers, pubBarrier, subBarrier>>

ClosePub(p) ==
  /\ Closes(p)
  /\ IF pubClosing THEN LeavePub(p)
                   ELSE pc' = Goto(p, "closeFlush") /\ UNCHANGED registry
  /\ pubClosing' = TRUE
  /\ UNCHANGED <<client, currentPub, completedPub, pubInProgress, pubMutex,
                 subSide, status, transport>>

\* The first publisher to close waits for what is still in flight.
CloseFlushPub(p) ==
  /\ At(p, {"closeFlush"}) /\ PubCloseOver
  /\ DrainPuts
  /\ currentPub' = currentPub + 1
  /\ LeavePub(p)
  /\ UNCHANGED <<client, completedPub, pubInProgress, pubClosing, pubMutex,
                 subSide, status, messages>>

\* The last publisher closes the stream, exports the metadata and marks the
\* end of the stream (one step: pubStreamEnded stands for both).
CloseLastPub(p) ==
  /\ At(p, {"closeLast"})
  /\ streamOpen' = FALSE /\ pubStreamEnded' = TRUE
  /\ pc' = Notify(Goto(p, "closed"), EndWakes)
  /\ UNCHANGED <<client, registry, pubSide, subSide, canceledTx, transport>>

-----------------------------------------------------------------------------
(* Subscribers                                                              *)

\* Join the transaction in progress, or start the next one.
JoinTransaction(s) ==
  /\ currentSub' = IF subInProgress THEN currentSub ELSE currentSub + 1
  /\ subInProgress' = TRUE
  /\ numStarting' = numStarting + 1
  /\ pc' = IF TellsPublishers(numStarting', currentSub')
           THEN Notify(Goto(s, "await"), {"cvStarted"})
           ELSE Goto(s, "await")
  /\ UNCHANGED subClosing

BeginSub(s) ==
  /\ Begins(s)
  /\ IF Canceled(currentSub + 1)
     THEN pc' = Goto(s, "canceled") /\ UNCHANGED subSide
     ELSE IF currentSub = 0 THEN pc' = Goto(s, "first") /\ UNCHANGED subSide
     ELSE JoinTransaction(s)
  /\ UNCHANGED <<plan, registry, pubSide, status, transport>>

\* create_rendez_vous_points by s: one with each publisher known at that time.
RendezVousOf(s) == publishers \X {s}

\* await_first_pub_transaction, then create_rendez_vous_points.
AwaitFirst(s) ==
  /\ At(s, {"first"})
  /\ LET next == IF Canceled(currentSub + 1) THEN "canceled"
                 ELSE IF currentPub > 0 THEN "start"
                 ELSE IF pubStreamEnded THEN "eos" ELSE "cvFirst"
     IN  /\ pc' = Goto(s, next)
         /\ rdv' = IF next = "start" THEN rdv \cup RendezVousOf(s) ELSE rdv
  /\ UNCHANGED <<client, registry, pubSide, subSide, status, blocks, pending,
                 requests, activities>>

StartSub(s) ==
  /\ At(s, {"start"})
  /\ JoinTransaction(s)
  /\ UNCHANGED <<client, registry, pubSide, status, transport>>

\* await_completed_pub_transaction, with its roll-back.
AwaitCompleted(s) ==
  /\ At(s, {"await"})
  /\ LET thrown == AwaitOutcome \in {"canceled", "eos"}
     IN  /\ pc' = Goto(s, AwaitOutcome)
         /\ subInProgress' = (subInProgress /\ ~thrown)
         /\ numStarting' = RollBack(thrown)
  /\ UNCHANGED <<client, registry, pubSide, currentSub, subClosing, status,
                 transport>>

\* The last transaction the metadata of the variable knows.
LastTx == IF blocks = {} THEN 0
          ELSE CHOOSE t \in {b[1] : b \in blocks} : \A b \in blocks : b[1] <= t
Holders == {p \in Pubs : <<LastTx, p>> \in blocks}

\* Engine::get of the variable: the selection of s intersects the blocks of
\* wanted.  One request to every publisher, also to those that it wants
\* nothing from.
Get(s, wanted) ==
  /\ At(s, {"tx"}) /\ wanted \subseteq Holders
  /\ IF wanted \X {s} \subseteq rdv
     THEN /\ pc' = Goto(s, "get")
          /\ gets' = [x \in Pairs |-> IF x \in wanted \X {s} THEN gets[x] + 1
                                                             ELSE gets[x]]
          /\ requests' = [p \in Pubs |->
               IF p \in publishers \cup wanted
               THEN Append(requests[p], [from |-> s, wants |-> p \in wanted])
               ELSE requests[p]]
     ELSE pc' = Goto(s, "crashed") /\ UNCHANGED <<gets, requests>>
  /\ UNCHANGED <<client, registry, pubSide, subSide, status, blocks, pending,
                 rdv, puts, pubAborted, subAborted>>

EndSub(s) ==
  /\ At(s, {"get"})
  /\ subBarrier' = BarrierFor(subBarrier, subscribers)
  /\ Arrive(s, Subs, subBarrier', "endBarrier", "collect")
  /\ UNCHANGED <<publishers, subscribers, pubBarrier, client, pubSide, subSide,
                 status, transport>>

\* The last subscriber at the first barrier waits for everything received.
Collect(s) ==
  /\ At(s, {"collect"})
  /\ IF subAborted
     THEN /\ DrainGets
          /\ pc' = Goto(s, "canceled")
          /\ subInProgress' = FALSE /\ numStarting' = numStarting - 1
     ELSE /\ ReceptionsOver
          /\ pc' = Goto(s, "over")
          /\ UNCHANGED <<activities, subInProgress, numStarting>>
  /\ UNCHANGED <<client, registry, pubSide, currentSub, subClosing, status,
                 messages>>

Over(s) ==
  /\ At(s, {"over"})
  /\ Arrive(s, Subs, subBarrier, "overBarrier", "clearFlag")
  /\ UNCHANGED <<client, registry, pubSide, subSide, status, transport>>

ReleaseSub(s) ==
  /\ At(s, {"release", "clearFlag"})
  /\ pc' = Goto(s, "idle")
  /\ subInProgress' = (subInProgress /\ pc[s] = "release")
  /\ numStarting' = numStarting - 1
  /\ UNCHANGED <<client, registry, pubSide, currentSub, subClosing, status,
                 transport>>

LeaveSub(s) ==
  /\ subscribers' = subscribers \ {s}
  /\ ArriveToClose(s, Subs, subBarrier)
  /\ UNCHANGED <<publishers, pubBarrier, subBarrier>>

CloseSub(s) ==
  /\ Closes(s)
  /\ IF subClosing THEN LeaveSub(s)
                   ELSE pc' = Goto(s, "closeFlush") /\ UNCHANGED registry
  /\ subClosing' = TRUE
  /\ UNCHANGED <<client, pubSide, currentSub, numStarting, subInProgress,
                 status, transport>>

CloseFlushSub(s) ==
  /\ At(s, {"closeFlush"}) /\ (subAborted \/ AllOver(gets))
  /\ DrainGets
  /\ LeaveSub(s)
  /\ UNCHANGED <<client, pubSide, subSide, status, messages>>

CloseLastSub(s) ==
  /\ At(s, {"closeLast"})
  /\ pc' = Goto(s, "closed")
  /\ streamOpen' = FALSE
  /\ UNCHANGED <<client, registry, pubSide, subSide, pubStreamEnded, canceledTx,
                 transport>>

-----------------------------------------------------------------------------
(* Cancellation, by an actor that takes no part in the transactions.  A     *)
(* call on a transaction that both sides left does nothing.                 *)

CancelTransaction(tx) ==
  /\ MayCancel /\ canceledTx = 0
  /\ ~(currentPub > tx /\ currentSub > tx)
  /\ canceledTx' = IF tx = 0 THEN 1 ELSE tx
  /\ puts' = NoActivity /\ gets' = NoActivity
  /\ pubAborted' = (pubAborted \/ ~AllOver(puts))
  /\ subAborted' = (subAborted \/ ~AllOver(gets))
  /\ pc' = Notify(pc, CancelWakes)
  /\ UNCHANGED <<client, registry, pubSide, subSide, pubStreamEnded, streamOpen,
                 messages>>

-----------------------------------------------------------------------------
PubStep(p) ==
  \/ Open(p) \/ BeginPub(p) \/ LockPub(p) \/ Recheck(p) \/ Flush(p)
  \/ Put(p) \/ EndPub(p) \/ Commit(p) \/ Serve(p) \/ EndServe(p) \/ ClearPub(p)
  \/ ClosePub(p) \/ CloseFlushPub(p) \/ CloseLastPub(p)

SubStep(s) ==
  \/ Open(s) \/ BeginSub(s) \/ AwaitFirst(s) \/ StartSub(s)
  \/ AwaitCompleted(s) \/ (\E wanted \in SUBSET Pubs : Get(s, wanted))
  \/ EndSub(s) \/ Collect(s) \/ Over(s) \/ ReleaseSub(s)
  \/ CloseSub(s) \/ CloseFlushSub(s) \/ CloseLastSub(s)

\* Every actor has closed the engine (or its process is dead).
AllClosed == \A a \in Actors : pc[a] \in {"closed", "crashed"}
Terminated == AllClosed /\ UNCHANGED vars

Next ==
  \/ \E p \in Pubs : PubStep(p)
  \/ \E s \in Subs : SubStep(s)
  \/ \E x \in Pairs : Transfer(x)
  \/ \E tx \in 0..MaxTx : CancelTransaction(tx)
  \/ Terminated

Spec == Init /\ [][Next]_vars

\* SimGrid schedules every actor that can run, and time advances, so that
\* communications end; nothing says that anybody cancels.
Fairness ==
  /\ \A p \in Pubs : WF_vars(PubStep(p))
  /\ \A s \in Subs : WF_vars(SubStep(s))
  /\ \A x \in Pairs : WF_vars(Transfer(x))

FairSpec == Spec /\ Fairness
=============================================================================
