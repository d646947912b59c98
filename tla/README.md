# A verification development for DTLMod

DTLMod simulates the Data Transport Layer of in situ workflows on top of SimGrid. Actors
(simulated processes) connect to a DTL, open *streams* as publishers or as subscribers, and move
blocks of *variables* in *transactions*, through an *engine* that either writes files (File) or
lets both sides communicate directly (Staging). This directory models the concurrent core of that
code in TLA+, checks it with TLC and proves part of it with TLAPS.

## 1. Inventory

| Component (source) | State | Operations | Interacts with |
|---|---|---|---|
| Staging engine (`src/src/StagingEngine.cpp`) | counters of the current and completed transactions of each side, in-progress and closing flags, `num_subscribers_starting_`, three condition variables, the publishers' mutex, a set of activities per side | begin, end, close for each side, `cancel_activities` | registries, transport, stream, metadata |
| Staging transports (`StagingTransport.cpp`, `StagingMboxTransport.cpp`, `StagingMqTransport.cpp`) | pending put requests, one queue of requests per publisher, one rendez-vous point per pair | `put`, `get_requests_and_do_put`, `get`, creation of rendez-vous points | engine's activity sets, metadata |
| File engine (`FileEngine.cpp`) | counters of each side, flags, `subs_completed_current_tx_`, two condition variables, sets of writes and reads in flight | begin, end, close for each side, `cancel_activities`, completion callbacks of writes | registries, transport, stream (eviction, export) |
| File transport (`FileTransport.cpp`) | files per publisher, what to write and to read in the transaction | `put`, `get`, opening and closing of files | engine, metadata, file system (FSMod) |
| Engine base class (`Engine.cpp`, `Engine.hpp`) | registries, canceled transaction, end-of-stream mark | dispatch by role, `cancel_transaction`, `drain`, `put`/`get` with the cost of reductions | every engine |
| Actor registry (`ActorRegistry.hpp`) | members, a lazily created barrier, a mutex | `add`, `remove`, `get_or_create_barrier`, `is_last_at_barrier` | engines |
| Metadata (`Metadata.cpp`) | transaction -> block -> (location, publisher), number of flushed transactions | `add_transaction`, look-up (which inserts), eviction, export | variables, stream, File engine |
| Variable, selections (`Variable.cpp`, `Transport.cpp`) | shape, local blocks, selections, reduction, metadata | definition, selection, `get_sizes_to_get_per_block`, `check_selection_and_get_blocks_to_get` | transports, reduction |
| Decimation (`DecimationReductionMethod.cpp`) | per object of a variable, by its address: stride, interpolation, reduced shape, reduced block per actor | `parameterize_for_variable`, `reduce_variable`, `propagate_for_subscriber` | variables, `Engine::put` and `get` |
| Compression (`CompressionReductionMethod.cpp`) | per object of a variable, by its address: accuracy, profile, ratio, variability | the same, derivation and noise of the ratio | variables, `Engine::put` and `get` |
| Stream (`Stream.cpp`) | engine type, transport, engine, variables, access mode | settings, `open`, `close`, `define_variable`, `inquire_variable`, eviction and export of metadata | DTL, engines, variables |
| DTL and connection manager (`DTL.cpp`) | streams, connected actors, two message queues | server loop, `connect`, `disconnect`, `add_stream` | actors, streams |
| Python bindings | none | forwarding | everything |

What is hard here: actors of two roles meet through condition variables whose predicates read
counters that others change; barriers are sized once, and their last arriver does the work for
the others; flags are cleared after others were resumed; asynchronous activities outlive the call
that started them and can be canceled at any moment; the end of a stream has to reach subscribers
that sleep and subscribers that come later. `PROJECT.json` lists each hazard at its line.

What makes each component correct:

* engines: transactions are produced one by one and consumed in order, each once and complete;
  nobody sleeps without a reason; a cancellation and the end of the stream reach everybody; nothing
  is reported as over (a close, an end) that is still in flight; everybody who plays the game ends;
* metadata: everything that was put is there until it has been read, and in the exported file;
* variables: accepted blocks lie in the variable, blocks that tile it still do so once decimated,
  a selection finds every element once;
* reductions: a method knows every object that is reduced with it, whatever was at its address; the
  copy of a subscriber shows what the publishers had done at the inquiry; data is reduced on one side
  only, and never grows;
* stream and connection manager: an answer goes to the actor that asked; engines have the settings of
  their stream; those who use a stream at the same time use one engine, whose barriers expect
  exactly them; who reduces a variable is judged by its own role.

## 2. How the code becomes a model

**SimGrid.** Actors are cooperative: one runs until its next *simcall* that blocks, then another
one that is ready does. What an actor does between two blocking calls is one action, and `pc[a]`
tells between which calls actor `a` is. The order in which ready actors run is left open.

* `ConditionVariable::wait` with a predicate: a place (`"cv..."`) where the actor sleeps, and one
  where it re-evaluates the predicate after `notify_all` (`Woken`, `Notify`). No spurious wake-ups.
* `Barrier::wait`: the last arriver gets `true` and goes on to a place of its own, where it acts when
  it is scheduled again; the actors that it resumed may run before it (`Arrive`, `Resumed`).
* A mutex that nobody holds across a blocking call needs no state. The publishers' mutex of the
  Staging engine, held across `wait_all`, has one (`pubMutex`).
* Time advances only when no actor can run. The File model uses this (`Running`, `Advance`),
  because its code relies on it: a write cannot end between a check and the wait that follows it
  at the same date. In the Staging model communications may end at any moment, which is weaker.
* `cancel` of a set of activities is one step. In the code it is a simcall per activity (`Engine.cpp:110-116`),
  all at one date, and an actor that the first of them resumes may run before the last: it may wake others, leave
  its transaction or post activities while the rest of the set is still to be canceled. The model has no such
  interleaving, and one cancellation per behaviour: what is said of cancellations holds for canceling a set at once.
* `MessageQueue`: first in, first out, also for the actors that wait in it. Actors whose request was
  taken reach their get in that order (`resumed`), since each of them runs the same simcalls.

**Clients.** An actor opens the stream, goes `plan[a]` times through begin, one put or get of the
one variable, end, and closes. Subscribers may plan one transaction more than publishers. An actor
told the end of the stream closes; one that was told a cancellation may begin again or close.
In the model of the stream an actor does anything in any order between connect and disconnect:
adds the stream, sets it, opens it as one or the other, closes it, opens it again. (What a client does
with a stream that it has obtained while it is disconnected is its own affair, and left out.)
In the model of the reductions a publisher defines, inquires, reduces, puts and removes in any order
while the stream is open for publishing, also while the reduction of another one's put takes its
time; a subscriber inquires as often as it wants and gets; it reduces its copy when the stream was
opened for subscribing. The stream is closed and opened in the other mode when nobody puts, and
subscribers inquire anew. The address of a new object is any that no object and no metadata occupies.
Three constants restrict clients further, each to what the tests of the repository do:

* `Gathered`: nobody goes on before everybody has opened (in the Staging model: has also begun; in
  that of the stream: nobody opens again before all have closed, and one may leave out a round);
* `Prompt` (Staging): nothing else happens between the end of a transaction and the next call, so
  SimGrid runs the calls of all the actors of a side before one of them goes further;
* `Paced` (File): there is other work between transactions, so that no actor begins at the very
  date where the last one leaves a barrier.

The *free* runs use none of them. What needs them says so, and section 5 tells what breaks without.

## 3. Modules

| Module | Stands for |
|---|---|
| `TransactionStream` | abstract specification: what an engine promises, whatever moves the data |
| `StagingEngine` | Staging engine, its transports, registries and cancellation |
| `StagingProperties` | its type invariant, safety, action and liveness properties |
| `StagingRefinement` | the refinement of `TransactionStream` with `Window = 1` |
| `StagingSafety` | TLAPS proofs of what holds for every client of a Staging engine |
| `StagingRounds` | TLAPS proofs about its clients in rounds, and of the refinement |
| `StagingProgress` | TLAPS proof that these clients have no deadlock |
| `FileEngine` | File engine, its transport, metadata, eviction, export and cancellation |
| `FileProperties`, `FileRefinement` | its properties, the refinement with `Window = MaxTx + 1` |
| `FileProofs` | TLAPS proofs of what holds for every client of a File engine |
| `FileRounds` | TLAPS proofs about publishers in rounds, of the refinement and about the metadata |
| `VariableBlocks` | definition of a variable, decimation, metadata, sizes that a get finds |
| `VariableProperties` | its properties, stated on the cells of the variable |
| `VariableProofs` | TLAPS proofs about `VariableBlocks` |
| `ConnectionManager` | the DTL's server and its callers |
| `StreamLifecycle` | extends it with a stream, its settings, the engines it creates, their registries |
| `ReductionRoles` | extends that with a variable and those who reduce it: the whole system of the DTL |
| `StreamProperties` | their properties |
| `StreamProofs` | TLAPS proofs about them |
| `ReductionMethods` | the objects of one variable, both reduction methods, put and get of reduced data |
| `ReductionProperties` | its properties |
| `ReductionProofs` | TLAPS proofs of all of them |
| `MCStaging`, `MCFile`, `MCVariable`, `MCStream`, `MCReduction` | symmetry and instances for TLC |

`StagingEngine`: `BeginPub` is `begin_pub_transaction` up to the mutex, `LockPub`, `Flush` and
`Recheck` its two waits; `Put` the put; `EndPub`, `Commit`, `Serve`, `EndServe`, `ClearPub` are
`end_pub_transaction` between its barriers, `Serve` being one turn of `get_requests_and_do_put`;
`ClosePub`, `CloseFlushPub`, `CloseLastPub` are `pub_close`. `BeginSub`, `AwaitFirst`, `StartSub`,
`AwaitCompleted` are `begin_sub_transaction`, `Get` the get, `EndSub`, `Collect`, `Over`,
`ReleaseSub` are `end_sub_transaction`, `CloseSub`, `CloseFlushSub`, `CloseLastSub` `sub_close`.
`puts` and `gets` count, per pair, the communications posted by each side and not over: one that
both posted is in flight (`Transfer` ends it). Mailbox and message queue transports differ only in
the kind of channel and share this model. The name of a place is where the actor will go on.

`FileEngine`: the same layout. `flushLock`, `closeLock` and `readLock` lie between a condition that
the code checks without the mutex and the wait. `writes[p]` counts the writes of publisher `p` in
flight; all writes of one publisher go to one file and end one per date. `Advance` is time: any
set of publishers' writes and subscribers' reads may end at the same date. The end of a subscriber's transaction
has three steps, because two mutexes are taken on the way: `ReadOver` when the reads are over, `CountRead`, where the
last subscriber to be counted decides what to evict (`evicting`, the local `tx_to_evict`), and `EvictRead`. `blocks`, `infos`,
`flushed` and `exported` are the metadata: blocks in memory, transactions with an entry (a look-up
creates one), the progress file, the exported file.

`VariableBlocks`: vectors are functions of the dimensions, blocks pairs of vectors. `Define` is
`define_variable` with its validation, on `size_t` numbers that include a wrapped negative one;
`Reduce` is `set_reduction_operation` with a decimation whose parameters have a valid stride, an
invalid one (which throws) or none (which keeps the one before), and for an actor without a block, which throws when stride
and shape have changed; the method is set when some call came through (`IsReduced`); `Put` is `add_transaction_metadata`; `Get`
is `check_selection_and_get_blocks_to_get` with its unsigned, wrapping sum; `SizeInDim` and
`SizeToGet` are the intersection of a selection with a block. Sums of the code in `double` are
modelled as exact integers, which they are below 2^53. The element size is a common factor and left
out.

`ConnectionManager`: `Ask` is the put of `connect` or `disconnect`, `GetAnswer` its get, `Take` and
`Answer` the two halves of a turn of `connection_manager_init`. `inbox`, `getters` and `answers` are
the two message queues, `active` is `active_connections_`. The payload of an answer is its kind,
a pointer to the DTL or a bool, which nothing in the message tells.

`StreamLifecycle`: `AddStream` is `add_stream`, under the mutex of the DTL, with the exception of a
setter that leaves the stream half set; `Set` the setters; `Create` the critical section of `open`, `Register`
what follows it, with `engine_` read again; `Begin` stands for the first transaction, that
creates the barrier of a side; `Close` and `CloseStream` are `close` up to the barrier and what the last
actor does. Transactions themselves are the engines' modules, which begin where a stream is open.
`built`, `registered`, `barrier` and `files` describe every engine created so far; `users` is an
auxiliary variable that only properties read.

`ReductionRoles`: `Define` and `Inquire` give an actor the stream's own object of the variable or a copy
of its own, `Reduce` is `set_reduction_operation` with the checks of roles. Its `Next` composes the
three modules. It has the roles; what the methods do is in `ReductionMethods`.

`ReductionMethods`: `session` is the mode in which the stream is open (what `set_reduction_operation`
goes by), `directory` the address of the variable's object in the stream, `holds` the object that each
actor has, `object` what is at each address, `stored` the last put of each publisher in each
`Metadata`. `Settle` is the work of the shared pointers: an object goes with its last reference, its
metadata with the last object that has it, and the memory of the object that a metadata was created
for is not used again before, because of the metadata's weak pointer. `decimations` and
`compressions` are the maps of the two methods from addresses to parameters, from which nothing is
ever erased. `Define`, `InquirePublisher`, `InquireSubscriber` (with `propagate_for_subscriber`),
`Remove` and `Drop` are the life of objects; `Decimate` and `Compress` are `set_reduction_operation` with
`parameterize_for_variable` and `reduce_variable`, a call with parameters that are refused being one
that changes nothing; `StartPut` and `FinishPut` are `Engine::put` before and after the execution of the
reduction, in which time others act; `Get` is `Engine::get`, which decimates what a subscriber reduces
itself. `seen` is an auxiliary variable: what a subscriber's last inquiry showed. The empirical
formulas for the ratio are a constant, `Fit`, of which only the lower bound in
`derive_compression_ratio` is used; variability and noise are tenths.

Each model keeps, beside the definitions that carry the protocol's decisions, faulty variants of
them (`TooEarly`, `NoRollBack`, `OneMissing`, ...). No action uses them: each property of a passing
run is violated when one of them takes the place of the definition it belongs to, so that every
property is known to constrain the code. `PROJECT.json` pairs them under "mutants".

## 4. Runs

| Run | Instance | Shows |
|---|---|---|
| `staging_free` | 1 publisher, 2 subscribers, up to 2 transactions, 1 cancellation, free clients | whatever clients do: types (no counter wraps), `num_subscribers_starting_` balanced on all exits, no lost wake-up of subscribers, also by a cancellation, an end means that data arrived (when the barrier expects every subscriber and nothing is canceled) |
| `staging_transactions` | 2 x 2, up to 3 transactions, Gathered, Prompt, fair | publishers in step, one transaction in flight, no stray put request, gets read the right transaction, nobody stuck (`NeverStuck`: barriers, condition variables, the publishers' mutex), no lost wake-up of publishers (`PublishersSleepForAReason`), everybody closes, `TransactionStream` implemented; deadlock checked |
| `file_free` | 1 publisher, 2 subscribers, up to 2 transactions, 1 cancellation, free clients | types, no lost wake-up of subscribers that wait for a transaction, also by a cancellation, the in-progress flag never sticks |
| `file_transactions` | 2 publishers, 1 subscriber, up to 3 transactions, Gathered, Paced, fair | publishers in step and always close, close means written, previous writes are over at a put, metadata is evicted when read and exported complete, `TransactionStream` implemented |
| `variable_tiles` | 2 publishers, 3 x 2 variable, two valid strides and two invalid ones, 2 transactions | accepted blocks fit, decimated blocks still tile, a get finds every element once, a get creates no later transaction |
| `stream_sessions` | 2 actors, 2 engines, 2 rounds, up to 3 calls and rounds per actor, Gathered, fair | answers to their callers, engines with the stream's settings, one engine shared by a session, with barriers that expect those who arrive, subscribers keep to their role in an engine of their own, no call and no close blocks for ever |
| `reduction_methods` | 2 publishers, 1 subscriber, 3 addresses, up to 3 objects and 2 reductions, 7 parameters of each method, noises of -1 and 1 | references never dangle, a method knows whom it reduces, copies keep what they saw, no double reduction, no put grows |
| `staging_reentry`, `staging_cancel_blocks`, `file_lost_wake_up`, `file_read_early`, `variable_restride` | the smallest instance that shows it | disagreements of code and documentation, section 5 |

**Bounds.** Two actors on a side are needed for a barrier with a last and an earlier arriver, and are
enough to interleave any two calls of a side; one on the other side suffices where its actors do
not interact. Three transactions give a first one (where rendez-vous points and barriers are made),
a middle one (with a previous and a next) and a last one (the end of the stream). One cancellation is all
that the code can hold (`canceled_transaction_id_`); it may name any transaction, at any moment.
The 3 x 2 variable has a dimension that the strides do not divide and blocks that keep no
element; 18 x 18 pairs of blocks are all there are. In `stream_sessions` two
actors suffice for two calls in the queues, two openers, a barrier with a last and an earlier arriver;
two rounds let a stream close and open again, in other roles; calls and sessions of an actor
share one bound (an actor that disconnects cannot open, so one of each kind is explored with two of
the other). The engine type is File, which also numbers files, and of
the two transports one goes with it and the other does not; the type makes no other difference in
this model. In `reduction_methods` two publishers share an object, one of which may have parameterized
it while the other puts; three objects at three addresses are an original, its copy, and a second
original or copy, which may be at the address of one that is gone; two reductions are one and a
change of it, or one and a second one by somebody else. The parameters include partial ones, every kind of
invalid one, a ratio with a noise that could pass below one, an accuracy whose formula gives less
than one. Its proofs hold without the bounds. Deadlock is checked in `staging_transactions`
only: elsewhere a behaviour may legitimately stop (a client that does not close, the findings
below), and the number of transactions is bounded.

**Fairness.** Weak fairness of the steps of every actor: SimGrid schedules every actor that can run
before time advances. Weak fairness of `Transfer` and of `Advance`: a communication that both sides
posted, and an I/O operation, take finite time. Weak fairness of the DTL's server (`Serve`) and of an
actor that is inside an open, a close or a call (`GoOn`), which also makes it close what it has
opened; it need not begin, reduce or connect. Nothing obliges anybody to cancel. In the fair runs
clients plan finitely many transactions, so that liveness means that the protocol does not get stuck.

## 5. Where code and documentation disagree

* `staging_reentry`: a subscriber that begins before the last one has cleared the in-progress flag
  joins the transaction it has just ended (`SubscribersInStep`).
* `staging_cancel_blocks`: a publisher in `get_requests_and_do_put` is not unblocked by a cancellation
  (`CancelUnblocks`).
* `file_lost_wake_up`: a subscriber that ends a transaction whose writes are over waits for ever
  (`EverybodyCloses` of the File engine).
* `file_read_early`: a subscriber reads a transaction whose writes are in flight because a publisher
  has already begun the next one (`ReadsWhatIsWritten`).
* `variable_restride`: after a change of stride a publisher keeps its old reduced block
  (`ReducedBlocksTile`).

Met while modelling, and left out of the runs:

* If all publishers close without a transaction there is no barrier, nobody is the last one
  (`ActorRegistry.hpp:65`, `StagingEngine.cpp:154`), the end of the stream is never set, and a subscriber
  waits for ever. `Engine.hpp:117` says "Set once the last publisher has closed the engine".
* A Staging subscriber that first begins when another one is already in transaction 1 has no rendez-vous
  points (`StagingEngine.cpp:211`); its get dereferences a null pointer (`StagingMqTransport.cpp:53`).
  In `StagingEngine` it goes to `"crashed"`.
* A barrier expects as many subscribers as were registered at the first end (`ActorRegistry.hpp:57-65`). One
  that opens later arrives at it in the place of another. With three subscribers two are then the last one
  of a transaction, and one leaves with its receptions in flight (`EndMeansReceived` fails); with five,
  the flag that a transaction is in progress may be cleared twice, and a subscriber that begins
  meanwhile sleeps through a cancellation. `AllExpected` excludes this where a property needs it.
* An actor that is between the two halves of `open` when the last actor of a side closes finds `engine_`
  reset (`Stream.cpp:258`) and dereferences a null pointer. In `StreamLifecycle` it goes to
  `"crashed"`, which TLC finds as soon as `Gathered` is false.
* The role that `set_reduction_operation` goes by is the stream's access mode, that of the actor that
  created the engine. When publishers and subscribers use one stream at the same time and a publisher
  was first, a subscriber may compress a variable or reduce what a publisher has reduced, which
  `Variable.cpp:67-80` means to refuse; when a subscriber was first, a publisher's compression throws, and
  its decimation is recorded as the subscriber's, so that gets decimate again. `ReductionRoles` has the
  mode as the code has it, `ReductionMethods` sessions of one mode at a time.
* Parameters are never erased, and are found by address (`DecimationReductionMethod.hpp:59`,
  `CompressionReductionMethod.hpp:50`). A variable that is removed and defined again may be created at the
  address of the old one; a call that leaves options out then keeps those of the old variable, and a first
  compression with the profile "fixed" and no ratio, which should throw, is accepted. `ReductionMethods`
  has this behaviour, and what is proved holds in spite of it.
* A first decimation without a stride passes the validation and makes `reduce_variable` read beyond an
  empty vector (`DecimationReductionMethod.cpp:156`). The model leaves this call out.
* A publisher that inquired for a variable and defined no block makes `reduce_variable` throw after the
  parameters have changed and before the variable has (`DecimationReductionMethod.cpp:162`): `Decimate`.
* A publisher that decimates again changes what another one, whose put is under way, will publish
  (`Engine.cpp:39-43`). A publisher that took no part in the decimation throws in its put: `FinishPut`.
* A subscriber that inquires before the publishers reduce has a copy that does not know of it, for good.
* On the side of a subscriber, the first get charges the decimation of a block of no element, because the
  copy gets its block only when the get is over; later gets charge it for an already reduced block.
* `Engine::get` runs the decompression when the get has been posted (`Engine.cpp:63-70`), while
  `Compression.rst:91-92` puts it after the reception. `Compression.rst:51-55` gives another formula for SZ
  than `CompressionReductionMethod.cpp:79`. `Decimation.rst:67` says that sizes are in elements; they are in
  bytes, times the number of transactions.
* A get of a transaction that was evicted inserts an empty entry (`Metadata.hpp:41`), which the export
  lists again.
* Two subscribers of a File engine drift apart, since they end without a barrier. One begins transaction 2 while
  the other still reads 1; the latter, counted last, evicts what is then the current transaction, 2
  (`FileEngine.cpp:298`), which the first has not been given yet: TLC finds `EvictedWhenRead` and `ExportComplete`
  violated in `file_transactions` with two subscribers. `FileEngine.cpp:290` says "Evict this transaction's metadata
  once all subscribers have completed their reads".
* A publisher of a File engine that begins again at the date where the last one is still to clear the in-progress flag joins
  the transaction that is over (`FileEngine.cpp:153`), as in `staging_reentry`; without `Paced` TLC finds `PublishersInStep`
  violated. A subscriber that begins at the date where the last publisher has left the registry and not yet
  marked the end of the stream (224) finds neither, and goes on into a transaction that was never produced; without
  `Paced` TLC finds `ImplementsStream` violated.
* A second definition of a variable is validated against the shape that it passes, and the variable keeps the first one
  (`Stream.cpp:379`): the block may lie outside of it. Without `Settled`, and with two shapes, TLC finds `AcceptedBlocksFit` violated.

Each of them limits what the passing runs may assume, and they do so explicitly: plans have at
least one transaction, clients are Gathered and Prompt or Paced, `EverybodyCloses` is not claimed of
the File engine, its metadata is checked with one subscriber, `Settled` publishers choose shape and stride once, actors
open a stream in rounds and use it in one mode at a time. No passing run exercises what these exclude: the hazards
concerned are listed in `PROJECT.json` without a property, and with the reason.

## 6. Proofs

TLAPS proves, for every number of actors, every bound and every client:

| Theorem (module) | Says |
|---|---|
| `TypeCorrect`, `StartingIsBalanced` (`StagingSafety`) | `Spec => []TypeOK`, `Spec => []StartingBalanced` |
| `AbortMeansCanceled`, `CompletesWhatStarted` (`StagingSafety`) | `[]AbortedOnlyByCancel`, `[]CompletedWithinStarted` |
| `NoLostWakeUp` (`StagingSafety`) | `MinTx > 0` implies `Spec => []SubscribersSleepForAReason` |
| `CancelWakesStaging` (`StagingSafety`) | `MinTx > 0` implies `Spec => []CancellationWakesSubscribers` |
| `EndHasReceived` (`StagingSafety`) | `Spec => []EndMeansReceived` |
| `RoundsInvariant` (`StagingRounds`) | `Regular` implies `Spec => []RegularInv`, the rounds of both sides |
| `StagingPublishersInStep`, `StagingOneTransaction`, `StagingNoStrayRequest` (`StagingRounds`) | `Regular` implies `Spec => []PublishersInStep`, `[]OneTransactionInFlight`, `[]NoStrayRequest` |
| `StagingReadsItsTransaction`, `StagingImplementsStream` (`StagingRounds`) | `Regular` implies `Spec => ReadsItsTransaction`, `Spec => ImplementsStream` |
| `StagingNeverStuck`, `StagingPublishersSleepForAReason` (`StagingProgress`) | `Regular` implies `Spec => []NeverStuck`, `[]PublishersSleepForAReason` |
| `LiveIsInvariant` (`StagingProgress`) | `Regular` implies `Spec => [](Known /\ LiveInv)`, the invariant of the line above |
| `FileTypes`, `FileNoLostWakeUp`, `FileCancelWakes` (`FileProofs`) | `Spec => []TypeOK`, `[]SubscribersSleepForAReason`, `[]CancellationWakesSubscribers` |
| `FileFlagNeverSticks`, `FileCloseMeansWritten` (`FileProofs`) | `Spec => []SubFlagNeverSticks`, `[]CloseMeansWritten` |
| `FilePublishersInStep`, `FilePreviousWritten` (`FileRounds`) | `Regular` implies `Spec => []PublishersInStep`, `[]PreviousWritten` |
| `FileImplementsStream` (`FileRounds`) | `Regular` and one subscriber imply `Spec => ImplementsStream` |
| `FileEvictedWhenRead`, `FileExportComplete` (`FileRounds`) | `Regular` and one subscriber imply `Spec => []EvictedWhenRead`, `[]ExportComplete` |
| `SizeIsIntersection` (`VariableProofs`) | what a get takes of a block in a dimension is the size of the intersection of two intervals |
| `DecimationKeepsTiling` (`VariableProofs`) | blocks that tile a shape, each decimated on its own, tile the decimated shape |
| `TilesAreFoundOnce` (`VariableProofs`) | of blocks that tile a shape, what lies in a selection adds up to the size of the selection |
| `GetsFindEveryElement` (`VariableProofs`) | `Settled` implies `Spec => []EveryElementOnce` |
| `VariableTypes`, `BlocksStayInside`, `TilingSurvivesDecimation` (`VariableProofs`) | `Settled` implies `Spec => []TypeOK`, `[]AcceptedBlocksFit`, `[]ReducedBlocksTile` |
| `LookUpsLeaveLastTransaction` (`VariableProofs`) | `Spec => GetsLeaveLastTransaction`, for unsettled publishers too |
| `CallsGetTheirAnswers` (`StreamProofs`) | `Spec => CallsAreAnswered` |
| `StreamTypes`, `EnginesKeepSettings` (`StreamProofs`) | `Spec => []TypeOK`, `[]EnginesMatchSettings` |
| `StreamSessionsAreShared` (`StreamProofs`) | `Gathered` implies `Spec => []SessionsAreShared` |
| `StreamSubscribersKeepToTheirRole` (`StreamProofs`) | `Gathered` implies `Spec => SubscribersKeepToTheirRole` |
| `LookUpsNeverFail`, `NoDoubleReduction` (`ReductionProofs`) | `Spec => []LookUpsSucceed`, `[]DataReducedOnce` |
| `ReductionsAreWellFormed`, `CopiesAreIndependent`, `ReductionsReduce` (`ReductionProofs`) | `Spec => []TypeOK`, `[]CopiesKeepWhatTheySaw`, `[]PutsNoMoreThanItsBlock` |

*Types and balance.* `TypeOK` is not inductive alone: `numStarting - 1` is a natural number only
because `numStarting` counts the subscribers inside a transaction. `TypeOK /\ StartingBalanced` is
inductive. `PubMoves` and `SubMoves` say how positions change in each step: the one actor that acts
and those that it wakes or resumes, none of which enters or leaves the counted places. `CountFollows`
turns that into the cardinality, by the theorems on finite sets. `PubData` and `SubData` do the
other variables, one step per action. The assumptions on the constants are those of
`StagingEngine`: finite, disjoint sets of actors, natural bounds.

*No lost wake-up.* `SubscribersSleepForAReason` alone is not inductive: the end of the stream notifies
`first_pub_transaction_started_` only through `EndWakes`, but a subscriber could go to sleep
afterwards, unless a first transaction exists. `SleepInv` adds why it does: a publisher that
closes has begun a transaction (that is where `MinTx > 0` is used), and one whose begin did
not start the first transaction found it canceled, which a subscriber is told.

*A cancellation wakes.* A canceled transaction must never be what a sleeping subscriber waits for, and
`cancel_transaction` notifies only once. `WakeInv` says what keeps a subscriber from going to sleep
afterwards: as long as one has not joined its first transaction, nobody is past the barrier that
expects it (`NonePast`), so that no transaction ended other than by a cancellation or by the end of the stream
(`OutOfOrder`), and the next to begin finds one of these two. `Listed` is that a subscriber is registered from
its open to its close, which makes `AllExpected` a statement about the barrier's size.

*An end means that data arrived.* `EndInv`, without a cancellation and with all subscribers expected: all
pass the first barrier together (`MidTogether`), the last one there collects before all are at the
second (`CollectedFirst`), and who is outside a transaction has asked for nothing (`NothingAsked`). Receptions
that are over do not come back, whatever publishers do (`PubSpares`).

*Rounds of a Staging engine.* `Regular` is: `Gathered` and `Prompt` clients, no cancellation, at least one
transaction, one publisher and one subscriber; section 5 tells what breaks without. `RoundInv` has a part for
each side and one for where they meet. `PubInv`: a publisher is in the open round or past the last one
(`InStep`), counted by `Round`, which is ahead of `completedPub` between the last arrival at the first barrier
and `Commit`; who returns while others are inside has never begun (`PubTogether`). `PubFlag` is the delicate
part: somebody may begin before the last publisher has cleared the flag, and joins the transaction that is over; it
goes no further before another publisher, still idle, has begun the next one. `SubInv` is the
same for subscribers, who count as `Received` the rounds that all of them have left, or that the one about to
clear the flag is leaving. `MeetInv` compares the two counters: the subscribers are in the round that publishers
have completed, or one behind, and the latter only while publishers serve (`Meeting`). Then requests can be
counted: a publisher that serves expects as many as are queued and as there are subscribers `Owing` one
(`Balance`), so that it leaves with an empty queue; and a subscriber in its transaction finds all publishers
serving it (`TransactionOpen`), which is why its get reads that one and no other. Data has arrived when a publisher is
let go on (`Arrived`), because the flush precedes the wait. No part is inductive without the others: that a
publisher may not start the next round comes from the subscribers, which it awaits, and theirs from its
completion. For the refinement, `RequestedIs` says what each subscriber has requested in terms of `Received` and
its place, so that `Commit` is allowed exactly when everybody has requested the transaction before.

*Nobody is stuck.* `NeverStuck` is the absence of deadlock as a state predicate: until everybody has closed, an
actor may move or a communication is under way. ENABLED is out of the prover's reach, so `PubMayStep` and `SubMayStep`
spell out the guards of all the steps of an actor; TLC confirms on the instances of the passing runs that they
are `ENABLED PubStep(p)` and `ENABLED SubStep(s)`, and checks deadlock itself in `staging_transactions`. The proof has two halves.
`NobodyWaitsInVain` shows that a state of the invariant in which nobody could move would be contradictory. The publishers' mutex
is free, because its holder only flushes (`FlusherHoldsMutex`) and all communications are over, which is where `Matched` comes in: a
reception without its put is exactly one message in the queue of a publisher, that could serve it. So everybody
is at a barrier, asleep or closed, or serves without a request; and no side is at a barrier as a whole
(`NotAllWait`). That leaves, on each side, somebody who sleeps or has closed. A sleeping publisher needs a subscriber
that lags behind its round (`PublishersSleepForAReason`), a sleeping subscriber needs a completion, but `RoundInv`
puts both sides in one round: one of them has what it waits for. Where one side has closed, it has closed as a whole and
ended the stream (`ClosedTogether`), and nobody sleeps through that. The other half is that `LiveInv` is inductive beside the
invariants proved before (`Known`). For the barriers, each step is one of five moves of a side (`PubPositions`,
`SubPositions`, `SideMoves`): the first to arrive leaves somebody behind because the barrier expects the whole side,
which for a closing subscriber needs that the side has met before (`SubSized`). For the sleeping publishers, `LastJoins`
is the heart: when no subscriber is `Missing` any more, the one that has just joined was the last of
`num_subscribers_starting_`, the two counters are equal, and `TellsPublishers` holds. Without any publisher
or subscriber, or without a transaction, the theorem is false; `Regular` excludes these (section 5).

*Every client of a File engine.* Types need that a subscriber that begins finds a last transaction:
transactions of the metadata lie between 0 and `currentPub` (`TypeInv`), so that there is a greatest
one, by well-founded induction (`Greatest`). `SubscribersSleepForAReason` and
`CancellationWakesSubscribers` are inductive together (`SleepInv`): what a sleeping subscriber waits for changes only in
steps that wake it, or when another subscriber begins the next transaction, which is then neither completed
nor canceled. `CloseInv` is why a closed file is complete even for
a publisher that never began a transaction: until the first one starts nobody has put anything
(`NothingBefore`), and from then on closing waits for the writes.

*Rounds of a File engine.* Here the order of arrivals at barriers matters, and the argument is about all
publishers at once. `Regular` is: everybody has opened before anybody begins (`Gathered`), nobody begins just
when the last one leaves a barrier (`Paced`), no cancellation, at least one transaction and one publisher;
publishers plan equally many transactions in every behaviour (`Init`). `RoundInv` says where each
publisher is in the open round: inside, with `begun[p] = completedPub + 1`, or past it, with as many
begun as `Round` says are over. Between the last arrival at the barrier and `Commit`, others already run
on while `completedPub` still has its old value: `Round` counts that transaction, and `InStep` allows
nobody inside a round then. `Current` ties `currentPub` to the same counter. `OneLast` is that exactly one
publisher completes a transaction and one closes the stream, `Registered` that the barriers wait for those who
have not left, `Written` that what was put before the open round is on disk. `PublishersInStep` and
`PreviousWritten` follow. For the refinement, `ReaderInv` bounds what the subscriber has entered by what is
completed; each step of the engine is then one of `TransactionStream` or stutters. One
subscriber, because several of them do drift apart (section 5).

*Metadata of a File engine.* `EvictedWhenRead` and `ExportComplete` bound what is missing from memory and from
the files, and neither is inductive: what an eviction removes, and whether the export finds the rest, depends
on exactly what is there. `MetaInv` says it. With `Done` transactions finished by the subscriber, memory has the blocks that were
put (`Recorded`: those of completed transactions, and of publishers past their put in the open one) and no
others (`InMemory`); the progress file has `1..Done` in order until the last publisher exports it along with
what is in memory, and stops there (`Progress`); the subscriber counts nobody's completions but its own (`Alone`),
so that what it is about to evict is its own transaction. It rests on the two invariants before it: `RoundInv` puts
every publisher's block in transaction `completedPub + 1` and completes it when all are recorded, and
`ReaderInv` says that a reading subscriber is in transaction `Done + 1`, which is therefore in memory. That is also why
its get adds no entry (`LastTxKnown`). With several subscribers the common counter of completions can evict
another transaction than the one that all have read (section 5), and the theorems do not claim otherwise.

*Blocks of a variable.* For every rank, shape, stride and number of publishers, with `Settled` where
the code needs it (`variable_restride` shows why). The heart is `CeilingBound`: rounding up is at most `c` iff
the number is at most `c` times the stride. From it follows `KeptCells`: a cell is in a reduced block
iff its multiple by the stride is in the block, so that existence and uniqueness of the owner carry
over from the shape to the reduced shape. The inductive invariants are `Recorded` (every reduced block is that of the
publisher's block under the current shape and stride, and lies inside) and `Stored` (every block of the
metadata lies inside). That the metadata has a last transaction (`HasLast`) is an invariant too, rather than
a fact about finite sets: what is put is the last one, and a get adds none after it.

*What a get finds.* `EveryElementOnce` adds up the parts of the blocks that lie in the selection. Sums and products
are folds, defined by recursion in an order that is not given. A function that takes one element off at a time, whichever
it is, agrees with such a fold on every subset: the smallest subset where it does not would have a
smaller one (`SetInduction`, from the library's well-founded ordering of finite subsets); that gives `ProductIs`
and `SumIs`. A box of cells grows by one dimension at a time (`BoxGrows`), so that the product of its sides is the
number of its cells (`BoxSize`), and what a get takes of a block is the number of cells that they share
(`SizeIsCells`). Blocks that tile the shape share no cell: the sum is the number of cells of the selection found in some
block (`SumIsFound`), which is all of them. Whether blocks tile is known from the block selections, and for reduced ones
from `DecimationKeepsTiling`.

*Answers.* That answers go to their callers needs the whole state of the queues, `QueueInv`: each actor is
in one of them at most once (`Requests`, `Taken`); either one actor waits for an answer, and then it is
the one whose request is being served, or the answers queued are those of the first resumed actors, in
order, the last one being served (`Ordered`); an actor is counted as connected as its last answer says, or
the one on its way (`Counted`). Each step of the queues has a lemma; all other steps leave them alone
(`QueuesMove`), so that the theorem holds whatever clients do with the stream.

*Settings.* `SettingsInv`: complete settings are compatible and final, an engine has complete ones, and
a stream that nobody has obtained has neither settings nor engine.

*Sessions.* The types of sessions need these two invariants (`TypeInv`): an actor calls the DTL outside a
session only, and `engine_` is one of those that were built. `ShareInv` is about `Gathered` clients, any number
of them, through all their rounds. Its key is `Opening`: somebody of the round under way (`Least`) is not in a
session. Until then nobody has closed, no barrier has a size and the numbers of the files are below the next one
(`OpeningInv`); afterwards nobody joins, and the engine may be forgotten. What carries over to
the next round is in `JoinedInv`: everybody in a session holds the engine built last, the registries hold those
that are open and nobody else, and a barrier with a size has an actor of its side until the one that is last clears
`engine_`, so that the next round never finds an old barrier. `FreshInv` is that
an engine not built yet has nothing, and that the role of the stream is that of an actor of the last engine, from
which `SubscribersKeepToTheirRole` follows. Without `Gathered` an actor may join an engine whose barriers are
sized already, or find none at all (at `crashed`).

*Reductions.* `IInv` is about objects and who has them: nothing dangles (`Structure`, which `SettleKeeps`
carries over every change of references), the publishers' objects are those that metadata was created
for and are never a subscriber's reduction (`Originals`), a copy belongs to one subscriber
(`Private`), and what is in the metadata of an object that is not reduced was put whole (`WholeData`).
The last is what excludes a double reduction: a subscriber's own reduction exists in its session only,
no put is under way then, and nothing reduced can have been put in the metadata of its copy. `VInv` adds the
values: parameters are valid in spite of what calls leave out (`ReducedIsDecimation`,
`CompressionKeeps`), reduced blocks lie in the variable (`ReducedBlockFits`, from the same `CeilingBound`), a
noise never makes the ratio smaller than one (`RatioReduces`), and a step by anybody else leaves
the address of a subscriber's copy alone (`SameCopy`, because copies are private and originals are not
copies). The formulas enter as natural numbers (`CompressionAssumption`).

**Only model-checked**, because the prover cannot do it: every liveness property (`EverybodyCloses`,
`NobodyIsStuck`, `PublishersClose`), which needs ENABLED and fairness. `StagingNeverStuck` is the safety half
of `EverybodyCloses` of a Staging engine: until all have closed, an actor can step or a
communication is under way. Every invariant and action property of a passing
run is the subject of a theorem, under the client that its run has; `MetaInv` and `ShareInv` were checked by TLC on the
instances of `FileTransactions` and `StreamSessions` before they were proved.

## 7. Not modelled

Costs, fidelity and smoothness: formulas on floating point numbers with no state; the ratio of a
compression is a constant function of profile and accuracy, and the undefined behaviour of a
decimation without stride is left out. Names, paths, text of metadata
files, reading of the configuration, logging, Python bindings. More than one stream: they share the
mutex of the DTL and nothing else. More than one variable, and several puts or gets in a transaction:
the transports treat them one after the other. Destruction of engines. The steps inside the cancellation of a
set of activities, between which actors that it resumes may run (`Engine.cpp:114`), and a second cancellation.

## 8. Plan

1. *Done*: `TransactionStream`, `StagingEngine` (the protocol with most interleavings), `FileEngine`,
   `VariableBlocks`, `ConnectionManager`, `StreamLifecycle`, `ReductionRoles`, `ReductionMethods`, their
   runs, the proofs of section 6.
2. `FileEngine`: drift of several subscribers, transaction selections (`set_transaction_selection`);
   progress after a cancellation in both engines.
3. `StreamLifecycle`: several streams, a failure in the construction of an engine.
4. Proofs: several subscribers of a File engine under a client that keeps them together; which parts of
   `RoundInv` of a Staging engine are left after a cancellation.
