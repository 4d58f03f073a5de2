# Verification of the FeatBit server-side SDK for Rust

TLA+ modules that model the concurrent core of the SDK in `src/src`, TLC
configurations that check them on small instances, and proofs of their main
safety properties for every instance.

## The system

One `FbClient` owns a snapshot store, a data synchronizer (one thread) and an
event processor (one thread). Application threads evaluate flags from the
store, record events and may flush and close at any time.

| Component | State | Operations | What is hard |
| --- | --- | --- | --- |
| Snapshot store (`store.rs`) | pointer to an immutable snapshot (flags, segments, prepared index, version, populated), `write_lock` | `populate`, `patch`, `load`, `version` | two writers, readers without a lock, data sets with old, duplicate or colliding objects |
| Data synchronizer (`data_sync.rs`, `connection.rs`, `protocol.rs`) | retry counter, `force_full_sync`, `awaiting_full_sync`, stop channel, `closed`, `close_complete` | the loop connect / request / apply / back off; `close` | connections lost at any point, conflicts, stop against messages, close that times out |
| Status tracker (`status.rs`) | status and initialized atomics, mutex, condition variable | `set`, `wait_until_initialized`, lock-free reads | lost wakeups, the order of the two stores |
| Event processor (`events.rs`) | bounded channel, two capacity counters, `closed`, `delivery_stopped`, abort and shutdown channels | `record_*`, `flush`, `flush_and_wait`, `close` | calls in flight while the client closes, the counters on every error path |
| Event worker (`events/worker.rs`) | buffer, `delivery_stopped`, `unreported_delivery_failure` | its select loop, requests with retries, exit | failures between two flushes, abort against a request, what is left in the channel |
| Worker thread (`worker.rs`) | completion flag, mutex, condition variable, join handle | `wait`, completion signal, drop | several waiters, deadlines, panics |
| Client (`client.rs`, `client/evaluation.rs`) | `closed`, options | startup, evaluation, tracking, close, drop | calls that race the close or new data, what is captured now and used later |
| Evaluator (`evaluation/`, `prepared.rs`) | none (pure) | `evaluate`, the prepared index | boundaries of rollouts, broken references, agreement of index and data |
| Options (`options.rs`, `options/validation.rs`) | none | the builder, validation | limits the workers rely on |
| Model, payload, observation, errors | none | parsing, formatting | |

How they interact: the synchronizer's thread is the store's only writer at run
time (the bootstrap is another, before it) and publishes its status after each
data set; evaluations read `closed`, `initialized`, the status and then one
snapshot; an evaluation hands an event to the event processor; `close` of the
client closes the synchronizer, then the event processor, each of which waits a
bounded time for its thread.

## Modules

| Module | Models | State and actions |
| --- | --- | --- |
| `StoreData` | the data of the store, and what a whole data set does to it, stated without loops | `PopulatedStore` and `PatchedStore` are `populate` and `patch`; an object is an id, a stamp (`updated_at`) and a body (everything else; a tombstone is one more body). Flags and segments follow the same rules, so one map holds both |
| `AtomicStore` | what the store promises: each call takes effect at one instant | `Invoke`, `CommitPopulate`, `CommitPatch` |
| `SnapshotStore` | `store.rs`: one step per object of a data set, under `write_lock`, then one pointer swap | `StartPopulate`, `PopulateEntry`, `PublishPopulate`, `StartPatch`, `PatchEntry`, `PublishPatch` |
| `DataSync` | the synchronizer's thread, its closers, the connection and (external) the server; the store is the atomic one | `worker` is the program counter of `run_sync_loop`, `run_connection` and `handle_apply_result`; the rest are their local variables, the status, and the flags of `close` |
| `StatusTracker` | `status.rs`, one step per access to an atomic, the mutex or the condition variable | `SetLocks` ... `SetUnlocks` are `set`, `WaitChecks` ... `WaitReturns` are `wait_until_initialized` |
| `EventProcessor` | `events.rs` and `events/worker.rs`: callers, channel, counters, worker, closers; the HTTP endpoint is any sequence of outcomes | `Record`, `FlushCall`, `Worker`, `Close`, each a disjunction of the steps of one thread |
| `Evaluation` | `evaluation/` and `prepared.rs`: one evaluation over one snapshot, as operators without recursion; parsers, patterns and the hash are constants or any function | `Evaluate`; `Prepared` is the index, `NoIndex` the code's path without one |
| `AwaitedWorker` | what a wait for a worker promises to a close call | `WorkerEnds`, `AnswerCompleted`, `AnswerPanicked`, `AnswerTimedOut` |
| `WorkerThread` | `worker.rs`, one step per access to the completion mutex, its condition variable and the handle; what the thread runs is external: it returns or panics | `RunEnds`, `GuardDropped`, `CompletionSignal` are the thread, `WaitLocks` ... `Join` are `wait` |
| `Options` | the builder: its defaults, what `build` accepts, what the workers rely on (`Runnable`) | operators only |
| `Synchronizer` | what the data synchronizer promises to the client | `StoreData`, the announcements of a status, `RequestStop`, `End` |
| `Client` | `client.rs` and `client/evaluation.rs` over `Options` and `Synchronizer`; of the event processor, whether it accepts, how far its close has come and whether its thread is over | `Build`, `StartOffline`, `StartOnline`, `Open`; a call is an agenda of accesses to shared state (`Check`, `Load`, `Gate`, `Record`, `Send`, `Notify`), taken one at a time; `CloseBegin`, `Closing` are `close` and the drop of the last handle; `CloseEvents`, `CloseDrained` are `EventProcessorInner::close` |
| `MC*` | small instances: model values, data sets, symmetry | |
| `*Proofs` | theorems and proofs about the module of that name; those about `Options` are in `ClientProofs` | |

`DataSync` and `SnapshotStore` compose through `StoreData`: the synchronizer
calls `PopulatedStore` and `PatchedStore`, and `SnapshotStore` is shown to
implement exactly these (`ImplementsAtomicStore`, proved as well as checked). `DataSync` treats a call of
`set` as one step; `StatusTracker` looks inside it. `DataSync` and
`EventProcessor` treat the wait of a close as one step; `WorkerThread` looks
inside it and is proved to implement `AwaitedWorker`. `Client` is composed of
`Synchronizer` and `Options`: `DataSync` is shown to implement the safety part
of `Synchronizer` (`ImplementsSynchronizer`, with the store as the snapshot and
the end of the thread as `ended`; proved as well as checked), and `StopsForGood` of `DataSync` is the
liveness part.

Some definitions are preceded by the words *Seeded fault*: they are variants of
the next definition with a plausible bug, used by nothing. Replacing the
definition by its variant makes a property fail, which shows that the property
depends on the code; `PROJECT.json` pairs them.

## Runs

| Run | Instance | Shows |
| --- | --- | --- |
| `snapshot_store` | 2 writers, 1 flag, 1 segment, stamps -1..1, 2 bodies, data sets of up to 2 objects with duplicates and the empty key; writers and bodies symmetric | `PreparedIsCurrent`; `VersionCoversItems`; `PatchNeverRegresses`; `ImplementsAtomicStore` |
| `sync_conflicts` | 1 flag, 2 bodies, stamps 0..2, 2 failures, 1 message on its way, 2 closers that may give up, code 4003, panics | `DisconnectedIsNotReady`, `ConflictIsNotReady`, `FullIsOwed`, `ConflictsHeal`, `CloseWaitsForWorker`, `StopsForGood`, `ImplementsSynchronizer` |
| `sync_converges` | 2 flags, stamps 0..3, delays zero / nonzero / zero, 5 failures | `Converges`, `ZeroDelaysAreBounded` |
| `status_tracker` | 2 setters, 2 waiters, 4 publications, deadlines | `ReadyIsInitialized`, `NoLostWakeup`, `WaitersReturn` |
| `events_capacity` | 3 events of sizes 1, 2, 1, two slots, three bytes, batches of 2, 1 `flush_and_wait`, 1 closer, timeouts, fatal answers, panics, 2 attempts | `CapacityExact`, `FullOnlyByFlushes`, `AckedIsNotResent`, `GracefulDrains`, `FlushTruth` |
| `events_drain` | 1 event, 2 `flush_and_wait`, 2 closers, no timeouts, fatal answers, panics | `GracefulCloseEnds`, `FlushReturns` |
| `evaluation` | 4 families of inputs, 22,158 in all: duplicate targets and ids; all pairs of ranges and splits in three over 5 points; every operator on texts that parse or not; two segments of 8 kinds | `IndexIsTransparent`, `WellFormedServes`, `ZeroShareUnserved`, `BadDataMatchesNothing` |
| `worker_thread` | 3 waiters, two of them with a deadline that does not pass, panics | `EndIsPublished`, `PanicIsTold`, `KeepsPromise`, `WaitsEnd` |
| `client` | 6 kinds of options (observer, events and tracking on or off, offline with and without bootstrap) and 12 with one thing wrong; 2 snapshots that differ in the flag's insights setting; 1 calling thread, one call of each kind and one with what it captured; 2 closers and the drop | `ClosedFallsBack`, `EvaluatesPublishedData`, `EventIsOfValue`, `ObservedOnce`, `CloseIsComplete`, `BuiltIsRunnable`, `ClosedSettles` |
| `sync_closed_is_final`, `sync_stale_until_full`, `events_unseen_failure` | | the three disagreements below |

Deadlock is checked except where the system may stop for good: after `close`
(or code 4003) the worker is done and all calls have returned.

Why the bounds are enough. The store's rules compare one object with one
offered object, so two ids and three stamps meet every case, two objects per
data set give duplicates and order, two writers give every race on one lock. A
conflict needs an equal stamp with another body; two failures lose a connection
twice while the conflict is open. In `sync_conflicts` one flag is enough, since
a patch with a newer edit of it moves the version past the conflict just as
another flag would; `sync_converges` has two. Five failures run
through the list of delays more than once. Three events and two slots fill the
channel and exhaust each counter alone; one large event exhausts the bytes
while a slot is free. The three events share the channel with one waiting
flush; two waiters and two closers that race are in `events_drain`. In `client` the calling threads share nothing but
what they read, so one of them meets every interleaving with the synchronizer,
the event processor and the closers; two snapshots are enough to tell the
captured one from the current one. Five points hold 0, 1, a point within the tolerance of 1
and two others, so every order of a hash and two bounds occurs; two targets,
two listed segments and two conditions give every order of a first match.
Bounds appear in guards only as `MaxFailures`,
`MaxInbox`, `MaxSets`, `MaxCalls` and `MaxUses`, and as the sizes of the sets of
threads and events. `MayTimeOut`, `MayRefuse`, `MayReject`, `MayPanic` and
`MayCollide` say which faults a run has.

## Fairness

`Spec` of each module has none; `FairSpec` adds what the code's scheduling
justifies.

- Threads that are in a call go on (WF). Nobody has to call anything, edit
  anything or time out, except that a wait of `close` ends.
- `DataSync`: the stop branch of the open connection competes with messages in
  an unbiased `tokio::select!`, which polls in random order, so it is taken
  eventually if it is ready again and again (SF on `StopSeen`). A connection or
  a write that does not fail completes, the server answers a request.
  `MaxFailures` makes the network eventually stable, which `Converges` needs.
- `WorkerThread`: a thread that is over signals it, a wait that has begun goes
  on (SF, for the same reason). What the thread runs need not end, no deadline
  has to pass and nobody has to call `wait`.
- `Client`: a close that has begun goes on; a synchronizer that was asked to
  stop ends, which is `StopsForGood` of `DataSync`. A wait of a close ends with
  the worker or by its timeout, which every such wait has. No call has to go
  on, no data has to arrive, and the event worker need not end.
- `EventProcessor`: the worker goes on (it never has to panic), and a request ends, because it has a
  timeout; WF on the worker as a whole is enough, because it finds something to
  do first in each round.
- `StatusTracker`: SF on a waiter, because `parking_lot` hands a mutex over
  before a waiter starves.

What the checks assume of the server (external): it answers a request for
everything newer than a stamp with exactly that, pushes every later edit over
the same ordered connection, and gives a new edit a newer stamp. An edit that
keeps its stamp while the client is disconnected cannot be seen by this
protocol; `sync_converges` therefore has no such edits, and `sync_conflicts`
has them.

## Properties worth knowing

- `PatchNeverRegresses`: no interleaving of patches loses an update, revives a
  deleted object or exchanges an object for another of the same stamp.
- `FullIsOwed`: a conflict found in a patch obliges the client to fetch a full
  data set. The obligation moves from `awaiting_full_sync` to
  `force_full_sync` and back when connections or writes fail; it is never lost.
- `DisconnectedIsNotReady`: while the client seeks a connection, asks for data
  over a new one, or holds one that has not brought a data set yet, its status
  is not Ready. The status lags behind in two places, which the property leaves
  out: from the loss of a connection to the Stale published of it
  (`connection.rs:95`), and from the stop, the panic or code 4003 to the Closed
  the worker publishes last. Both are short and nothing is waited for in them;
  no document promises more.
- `CloseWaitsForWorker`, `CloseIsComplete`: when a close has returned and no
  close gave up waiting, the thread of the synchronizer is over, and for a
  close of the client that of the event processor too, nothing is accepted and
  the status is Closed. It takes *no* close that gave up, not only *this* one:
  a late close that finds an earlier one complete returns at once, also when
  the earlier one timed out and the worker still runs.
- `CapacityExact`: the two counters always equal what live events hold, over
  every path on which an event ends.
- `GracefulDrains`: an event that was accepted while `close` began is still
  offered to the endpoint, because the worker leaves only when the last clone
  of the sender is gone.
- `FlushTruth`: `flush_and_wait` returns true only when everything accepted
  before it was delivered, or its loss was told to an earlier caller. (The run
  has one caller that waits, so that last case is met by the proof only.)
- `KeepsPromise`: a wait looks at the flag again under the mutex when its
  deadline has passed, so it never gives up on a worker that is over; a waiter
  that finds the handle taken answers `Completed` before the thread is joined,
  which is safe because the completion comes last.
- `EventIsOfValue`: an event shows the snapshot its call was answered from, or
  was handed, and collects insights by that snapshot, whatever data arrived
  since; a call records at most one.
- `ObservedOnce`: the observer hears once of each value and detail evaluation,
  of each completed raw one and of each raw one that failed, with the outcome
  the caller got, and of nothing else (not of `all_variations`, of a tracking
  call, or of a raw evaluation nobody completed), also when the event processor stops between the decision to
  complete the evaluation and its completion.
- `EvaluatesPublishedData`: `closed`, `initialized`, the status and the snapshot
  are four reads, and still no evaluation of an online client sees the empty
  store, because data precedes Ready and `initialized` never goes back.
- `ClosedFallsBack`: a call that begins after `close` did finds nothing open.
  One that began before may still answer and record, also after it.
- `WellFormedServes`, `ZeroShareUnserved`: the ranges of a rollout are closed at
  both ends and one of them, at zero, is special; still every hash finds a
  variation of a complete split, and none whose share is nothing.
- `BadDataMatchesNothing`: a value that does not parse or a segment that is not
  there makes a condition and its negation both fail, so broken data never
  targets anybody.

## Disagreements between documentation and code

- `events_unseen_failure`: a call of `flush`, which has no caller to tell,
  clears the memory of an earlier delivery failure; the next `flush_and_wait`
  returns true although an event is lost (`events/worker.rs:153-161` against
  `client.rs:280`).
- `sync_closed_is_final`: after a close that timed out, the worker can publish
  Ready or Stale over Closed for a moment (`data_sync.rs:104` against
  `client.rs:28`). `StopsForGood` shows that the status settles on Closed.
- `sync_stale_until_full`: while a full data set is awaited, a patch publishes
  Ready just before Stale (`protocol.rs:60` against the comment at
  `connection.rs:265`). `ConflictIsNotReady` shows that it is Stale again
  before the next message.

## Proofs

All for every value of the constants, from the named assumptions of the
modules only.

- `StoreDataProofs`: what `PopulatedStore` and `PatchedStore` return, for data
  sets of any length: the types and the version of the result, which covers
  every stamp of a whole data set, and what one more object at the end of a
  data set adds. The last makes it possible to follow the loops of the store
  without induction over data: a data set that has been worked through up to
  one object has left what the data set cut off there leaves at once.
- `SnapshotStoreProofs`: `TypeOK`, `PreparedIsCurrent`, `VersionCoversItems`,
  `PatchNeverRegresses`, and `ImplementsAtomicStore`, the refinement of
  `AtomicStore`. The properties are about the published snapshot; the
  invariant `IInv` adds what the writer that holds the lock has built so far:
  its items and index agree, its version covers its items, a patch started
  from the published snapshot and only moved forward, and nobody else is in a
  call. `PatchNeverRegresses` is an action property and follows from the part
  about the patch. The refinement needs `ProgressInv` besides: the draft of a
  writer is what the objects it has walked through make of an empty store, or
  of the published one, and the conflict it remembers is theirs. So a step per
  object is a stutter, and the pointer swap, with the whole data set behind
  it, is the commit. Assumptions: stamps are a range around 0, data sets are
  sequences of entries, the special values are distinct (among them `NoCall`
  from every call).
- `DataSyncProofs`: `TypeOK`, `InitializedIsPopulated`, `DisconnectedIsNotReady`,
  `ConflictIsNotReady`, `FullIsOwed`, `ZeroDelaysAreBounded`,
  `CloseWaitsForWorker` and `ImplementsSynchronizer`, the refinement of
  `Synchronizer`. The invariant says where the obligation
  is kept at each place of the loop (`OwedInv`), where the status cannot be
  Ready (`NotReadyInv`), and that data precedes Ready (`DataInv`). `FullIsOwed`
  alone is not inductive: between the message and the request the obligation is
  only in `outcome`, and between connections only in `force`. The bound on zero
  delays is inductive only with the delays the run has used (`RoundInv`): they
  are the ones just before the place of `retry` in the list, around its end,
  and all zero, so a run as long as the list would make all of them zero.
  `CloseWaitsForWorker` needs that a closer past its wait, or one that found
  the close complete, has a worker behind it that is over, unless someone gave
  up (`CloseInv`), and that a worker that is over has said Closed. Each step is
  then a step of `Synchronizer` or a stutter: what it publishes is
  `PopulatedStore` or `PatchedStore` of some data set, and Ready and Stale come
  with data, for which a message that is being handled must have left some
  (`OwedHasData`). Of the server these proofs use the order of its messages and
  that they are data sets over finitely many objects (`IdsAssumption`).
- `StatusTrackerProofs`: `TypeOK`, `ReadyIsInitialized`, `NoLostWakeup`. The
  invariant strengthens `NoLostWakeup`: a setter at the swap while someone is
  parked in vain is a setter of Ready, which always notifies.
- `EvaluationProofs`: `TypeOK`, `WellFormedServes`, `ZeroShareUnserved`,
  `IndexIsTransparent`, `BadDataMatchesNothing`. The first
  argument is about splits of any length. The first range that ends at the
  point or beyond and does not end at zero takes the point, because the one
  before it ends below and ranges meet (`SplitCovers`). Of the ranges that take
  a point the first is selected; were it empty, the one before it would end at
  the same point and be selected instead, and at zero an empty range takes
  nothing (`SelectedHasShare`). The rest follows the ways an evaluation can
  take; that the index leads to a variation with the right id is
  `KnownIsServed`. `IndexIsTransparent` is proved from the inside out: what the
  index holds of a condition is what its value parses to or of a kind nobody
  asks for there (`OperandIsParsed`), so a condition, a segment, a list of
  segments, a rule, a target and an id are answered alike with the index and
  without, and so is the whole evaluation (`EvaluationIsTransparent`). For
  `BadDataMatchesNothing` the segment a list ends at is either the first that
  is not live, and then nothing before it matches, or one that matches before
  all that are not live (`ListIsDecided`); each pair of opposite operators
  decides what both can read (`OperatorOpposites`). Assumptions: the inputs
  have the types of `model.rs` (nothing is assumed of the segments), the
  empty text is no number, a text is read as a number or not, as a list of
  texts, `null` or not, the hash of a text is a point.
- `WorkerThreadProofs`: `TypeOK`, `EndIsPublished`, `PanicIsTold` and
  `KeepsPromise`, the refinement of `AwaitedWorker`, for any number of waiting
  threads. The invariant says who owns the mutex at each place (`LockInv`),
  that the completion follows the guard (`SignalInv`), that a thread past the
  wait saw it (`WaiterInv`), and that the handle is in one place: in the value,
  with the one waiter that joins, or with the one that answered for it
  (`HandleInv`). Every step is then a step of `AwaitedWorker` or a stutter.
- `ClientProofs`: `TypeOK`, `ClosedFallsBack`, `EvaluatesPublishedData`,
  `EventIsOfValue`, `ObservedOnce`, `CloseIsComplete` and `BuiltIsRunnable`, for
  any number of callers, closers, calls and snapshots. A call is followed by the
  set of steps it has left (`Left`). Agendas are sorted by one rank, so a step
  that is due leaves nothing of a smaller rank behind it (`Behind`), and the
  invariant can say of a call what holds once a step is no longer left: after
  `initialized` the client is, after `load` the flag was served, and so on
  (`Underway`); a call that failed has only the observer to tell (`HasFailed`);
  a late call has the check before it that refuses it (`Refusable`). `SyncInv`
  is what the synchronizer promises, `CloseInv` what each close has done by the
  place it has reached, and `EventsInv` ties the end of the event worker to what
  its closers have waited for. Assumptions: what `ClientAssumption` says of the
  builders and the snapshots.
  Of `Options`: what `build` accepts is `Runnable`, which is what the
  assumptions of `DataSync` and `EventProcessor` about delays and limits ask
  for (`AcceptedIsRunnable`).
- `EventProcessorProofs`: `TypeOK`, `CapacityExact`, `AckedIsNotResent`,
  `GracefulDrains`, `FullOnlyByFlushes` and `FlushTruth`, for any events,
  callers, closers and limits. The invariant `IInv` follows an event through
  its places: its call, the queue, the hands of the worker, the buffer, the
  batch of a flush. They are disjoint and repeat no event (`PlacesInv`), and
  each step of a thread moves one event or one whole place (`Recording`,
  `Processes`, `TakesBuffer`, `Sending` and their like say which), so each
  counter stays the measure of a union of places (`CountersInv`). What was
  acknowledged is in no place (`AckedInv`), and what left them all was offered,
  unless delivery ended early; the worker leaves its loop unasked only when no
  sender is left, and then nothing can come in (`DrainInv`). `CapacityExact` is
  part of `IInv`; `GracefulDrains` is `DrainInv` at the end of the worker. A
  channel full of events alone would hold more than `queued` counts, because
  the call that reserved a slot counts too (`FullOfFlushes`). `FlushTruth`
  needs two more parts: while delivery goes on, what is lost is told or
  remembered (`FailureInv`), and what a flush answers for is ahead of its
  message in the queue, so nothing of it is left to send when it is answered
  (`FlushInv`). It assumes `Pokers = {}`: a flush that nobody waits for forgets
  failures, which is what `events_unseen_failure` shows. Assumptions: the
  limits are positive, there are finitely many events, and the bytes of a set
  of events (`BytesOf`) add up over disjoint sets.

Every invariant, every action property and every refinement that a passing run
checks is stated by a theorem. Only model-checked are the liveness properties,
because fairness and ENABLED are out of the prover's reach: `ConflictsHeal`,
`StopsForGood`, `Converges`, `WaitersReturn`, `GracefulCloseEnds`,
`FlushReturns`, `WaitsEnd` and `ClosedSettles`. What is proved leaves open too
what a parser makes of a text, and in `DataSync` what the server does with a
request: that a full data set has every object is only checked.

## Not modelled

URL, connection token and payload formatting and the estimate of an event's
size (no state); which text converts to a boolean, a number or JSON (a
conversion succeeds or fails); jitter of delays and all durations outside
`Options` (a timeout is a choice, a delay is zero or not); the saturation of the
retry counter at `usize::MAX` (it is kept modulo the number of delays);
successful pings and pongs; chunks that cannot be serialized; the flag that
limits overflow log lines; the wording of reasons and errors; the OpenTelemetry
adapter (it copies an observation into a log record), examples, benchmarks and
scripts. `flush` and `flush_and_wait` of the client only forward to the event
processor. Behaviour of the libraries is taken from their use: a bounded channel
of crossbeam is a FIFO queue that disconnects with its last sender or receiver
and drops its messages with the receiver; a waiter of a parking_lot condition
variable wakes only when it is notified or its deadline passes.

## What could follow

The facts the liveness properties rest on, as theorems: that a step of each
thread is possible where the properties need one. A model of the conversions of
`client/evaluation.rs` and of the size estimate of `events/payload.rs`.
