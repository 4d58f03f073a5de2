--------------------------- MODULE EventProcessor ---------------------------
(***************************************************************************)
(* The event processor: application threads that record events             *)
(* (src/events.rs), threads that flush and close it, the bounded channel   *)
(* and the capacity counters between them, and the worker thread that      *)
(* buffers, sends and retries (src/events/worker.rs).                      *)
(*                                                                         *)
(* A producer records one event, so producers stand for events.  A step of *)
(* a thread is one access to shared state: the compare-exchange loop of a  *)
(* counter is one atomic step, and so is the drop of an admission.  The    *)
(* HTTP endpoint is external: it answers each request in any way.  A       *)
(* timeout is a choice.                                                    *)
(***************************************************************************)
EXTENDS Integers, Sequences, FiniteSetsExt, SequencesExt

CONSTANTS
    Producers,      \* events, each recorded by one call
    Flushers,       \* calls of flush_and_wait
    Pokers,         \* calls of flush, which nobody waits for
    Closers,        \* threads that call close
    BytesOf,        \* the bytes a set of events retains
    MaxEvents,      \* max_events_in_queue
    MaxBytes,       \* max_event_queue_size_bytes
    MaxPerRequest,  \* max_events_per_request
    MaxAttempts,    \* max_send_event_attempts
    MayTimeOut,     \* flush_and_wait and close may give up waiting
    MayReject,      \* the endpoint may answer unrecoverably
    MayPanic        \* the worker may panic

ASSUME LimitsAssumption ==
    /\ MaxEvents \in Nat \ {0} /\ MaxBytes \in Nat \ {0}
    /\ MaxPerRequest \in Nat \ {0} /\ MaxAttempts \in Nat \ {0}
    /\ IsFiniteSet(Producers)
    /\ BytesOf \in [SUBSET Producers -> Nat]
    /\ \A s, t \in SUBSET Producers :
          s \cap t = {} => BytesOf[s \cup t] = BytesOf[s] + BytesOf[t]
    /\ MayTimeOut \in BOOLEAN /\ MayReject \in BOOLEAN /\ MayPanic \in BOOLEAN

VARIABLES
    producer,         \* where each record call is
    queue,            \* the bounded channel
    queued,           \* EventCapacity.queued_events
    retained,         \* EventCapacity.retained_bytes
    senderOpen,       \* the shared sender is not yet taken away
    flusher,          \* where each flush call is
    reply,            \* what the reply channel of each flush call holds
    result,           \* what each flush_and_wait returned
    closed, closeComplete, abort, shutdown,  \* the state of close
    closer,           \* where each closing thread is
    deliveryStopped,  \* the shared flag: nothing is accepted any more
    worker,           \* where the worker is
    closing,          \* it has seen the graceful shutdown
    buffer,           \* events it has received and not yet sent
    job,              \* the flush it is in
    stopped,          \* its own delivery_stopped
    unreported,       \* unreported_delivery_failure
    acked,            \* history: events in requests that were answered with success
    offered,          \* history: events in requests that were made
    covered,          \* history: events accepted before each flush call
    reported,         \* history: failed events a flush call was told of
    panicked          \* history: the worker panicked

callVars == <<producer, flusher, reply, result, covered>>
capacityVars == <<queued, retained>>
closeVars == <<closed, closeComplete, abort, shutdown, closer>>
workerVars == <<worker, closing, buffer, job, stopped, unreported>>
history == <<acked, offered, reported, panicked>>
vars == <<callVars, queue, capacityVars, senderOpen, closeVars, deliveryStopped,
          workerVars, history>>

NoJob == [batch |-> <<>>, todo |-> <<>>, attempt |-> 1, ok |-> TRUE,
          cancelled |-> FALSE, why |-> "none", to |-> {}]

Event(p) == [kind |-> "event", of |-> p]
Flush(f) == [kind |-> "flush", of |-> f]

Init ==
    /\ producer = [p \in Producers |-> "idle"]
    /\ queue = <<>> /\ queued = 0 /\ retained = 0 /\ senderOpen = TRUE
    /\ flusher = [f \in Flushers \cup Pokers |-> "idle"]
    /\ reply = [f \in Flushers |-> "none"] /\ result = [f \in Flushers |-> "none"]
    /\ closed = FALSE /\ closeComplete = FALSE /\ abort = FALSE /\ shutdown = <<>>
    /\ closer = [c \in Closers |-> "idle"]
    /\ deliveryStopped = FALSE
    /\ worker = "top" /\ closing = FALSE /\ buffer = <<>> /\ job = NoJob
    /\ stopped = FALSE /\ unreported = FALSE
    /\ acked = {} /\ offered = {} /\ reported = {} /\ panicked = FALSE
    /\ covered = [f \in Flushers |-> {}]

Accepted == {p \in Producers : producer[p] = "accepted"}

(* The worker has dropped its end of the channels.                         *)
ReceiverGone == worker \in {"signal", "done"}

(* A clone of the sender lives as long as the call that loaded it.         *)
SenderHeld ==
    \/ \E p \in Producers : producer[p] \in {"check", "slot", "bytes", "rollback", "send"}
    \/ \E f \in Flushers \cup Pokers : flusher[f] \in {"send", "await"}

Disconnected == ~ senderOpen /\ ~ SenderHeld

(* The bytes an event retains.                                             *)
SizeOf == [p \in Producers |-> BytesOf[{p}]]
-----------------------------------------------------------------------------
(***************************************************************************)
(* record, called for an evaluation or a metric event.                     *)
(***************************************************************************)
Go(p, place) == producer' = [producer EXCEPT ![p] = place]

producerOnly == <<flusher, reply, result, covered, senderOpen, closeVars,
                  deliveryStopped, workerVars, history>>

RecordChecks(p) ==
    /\ producer[p] = "idle"
    /\ Go(p, IF closed \/ deliveryStopped THEN "rejected" ELSE "load")
    /\ UNCHANGED <<producerOnly, queue, capacityVars>>

RecordLoads(p) ==
    /\ producer[p] = "load"
    /\ Go(p, IF senderOpen THEN "check" ELSE "rejected")
    /\ UNCHANGED <<producerOnly, queue, capacityVars>>

RecordSeesRoom(p) ==
    /\ producer[p] = "check"
    /\ Go(p, IF Len(queue) >= MaxEvents THEN "rejected" ELSE "slot")
    /\ UNCHANGED <<producerOnly, queue, capacityVars>>

(* try_reserve: a slot, then the bytes; without the bytes the slot is      *)
(* given back.                                                             *)
ReserveSlot(p) ==
    /\ producer[p] = "slot"
    /\ IF queued + 1 > MaxEvents
       THEN Go(p, "rejected") /\ UNCHANGED queued
       ELSE Go(p, "bytes") /\ queued' = queued + 1
    /\ UNCHANGED <<producerOnly, queue, retained>>

(* Seeded fault: the slot is not given back.                               *)
ReserveBytesOnly(p) ==
    /\ producer[p] = "bytes"
    /\ IF retained + SizeOf[p] > MaxBytes
       THEN Go(p, "rejected") /\ UNCHANGED retained
       ELSE Go(p, "send") /\ retained' = retained + SizeOf[p]
    /\ UNCHANGED <<producerOnly, queue, queued>>

ReserveBytes(p) ==
    /\ producer[p] = "bytes"
    /\ IF retained + SizeOf[p] > MaxBytes
       THEN Go(p, "rollback") /\ UNCHANGED retained
       ELSE Go(p, "send") /\ retained' = retained + SizeOf[p]
    /\ UNCHANGED <<producerOnly, queue, queued>>

RollbackSlot(p) ==
    /\ producer[p] = "rollback"
    /\ queued' = queued - 1
    /\ Go(p, "rejected")
    /\ UNCHANGED <<producerOnly, queue, retained>>

(* Seeded fault: the admission is dropped once the event is sent.          *)
RecordSendsBare(p) ==
    /\ producer[p] = "send"
    /\ queued' = queued - 1 /\ retained' = retained - SizeOf[p]
    /\ IF ReceiverGone \/ Len(queue) >= MaxEvents
       THEN Go(p, "rejected") /\ UNCHANGED queue
       ELSE Go(p, "accepted") /\ queue' = Append(queue, Event(p))
    /\ UNCHANGED producerOnly

(* try_send; an event the channel does not take drops its admission.       *)
RecordSends(p) ==
    /\ producer[p] = "send"
    /\ IF ReceiverGone \/ Len(queue) >= MaxEvents
       THEN /\ Go(p, "rejected")
            /\ queued' = queued - 1 /\ retained' = retained - SizeOf[p]
            /\ UNCHANGED queue
       ELSE /\ Go(p, "accepted")
            /\ queue' = Append(queue, Event(p))
            /\ UNCHANGED capacityVars
    /\ UNCHANGED producerOnly

Record(p) ==
    \/ RecordChecks(p) \/ RecordLoads(p) \/ RecordSeesRoom(p) \/ ReserveSlot(p)
    \/ ReserveBytes(p) \/ RollbackSlot(p) \/ RecordSends(p)
-----------------------------------------------------------------------------
(***************************************************************************)
(* flush_and_wait (Flushers) and flush (Pokers).                           *)
(***************************************************************************)
flusherOnly == <<producer, capacityVars, senderOpen, closeVars, deliveryStopped,
                 workerVars, history>>

MoveTo(f, place) == flusher' = [flusher EXCEPT ![f] = place]

ReturnWith(f, value) ==
    /\ MoveTo(f, "returned")
    /\ result' = IF f \in Flushers THEN [result EXCEPT ![f] = value] ELSE result

FlushChecks(f) ==
    /\ flusher[f] = "idle"
    /\ IF closed THEN ReturnWith(f, "false") ELSE MoveTo(f, "load") /\ UNCHANGED result
    /\ covered' = IF f \in Flushers THEN [covered EXCEPT ![f] = Accepted] ELSE covered
    /\ UNCHANGED <<flusherOnly, queue, reply>>

FlushLoads(f) ==
    /\ flusher[f] = "load"
    /\ IF senderOpen THEN MoveTo(f, "send") /\ UNCHANGED result ELSE ReturnWith(f, "false")
    /\ UNCHANGED <<flusherOnly, queue, reply, covered>>

FlushSends(f) ==
    /\ flusher[f] = "send" /\ ~ ReceiverGone /\ Len(queue) < MaxEvents
    /\ queue' = Append(queue, Flush(f))
    /\ MoveTo(f, IF f \in Flushers THEN "await" ELSE "returned")
    /\ UNCHANGED <<flusherOnly, reply, result, covered>>

(* The receiver is gone, or the channel stays full: for the whole timeout  *)
(* in flush_and_wait, at the one attempt in flush.                         *)
FlushNotSent(f) ==
    /\ flusher[f] = "send"
    /\ ReceiverGone \/ (Len(queue) >= MaxEvents /\ (f \in Pokers \/ MayTimeOut))
    /\ ReturnWith(f, "false")
    /\ UNCHANGED <<flusherOnly, queue, reply, covered>>

FlushAnswered(f) ==
    /\ flusher[f] = "await" /\ reply[f] # "none"
    /\ ReturnWith(f, reply[f])
    /\ UNCHANGED <<flusherOnly, queue, reply, covered>>

FlushTimesOut(f) ==
    /\ MayTimeOut
    /\ flusher[f] = "await" /\ reply[f] = "none"
    /\ ReturnWith(f, "false")
    /\ UNCHANGED <<flusherOnly, queue, reply, covered>>

FlushCall(f) ==
    \/ FlushChecks(f) \/ FlushLoads(f) \/ FlushSends(f) \/ FlushNotSent(f)
    \/ FlushAnswered(f) \/ FlushTimesOut(f)
-----------------------------------------------------------------------------
(***************************************************************************)
(* The worker.  It polls the shutdown channel, then waits in a select for  *)
(* whatever comes first.  The shutdown channel is never found disconnected *)
(* before its Abort is read: its sender is dropped only after a close.     *)
(***************************************************************************)
workerOnly == <<callVars, senderOpen, closed, closeComplete, abort, closer>>

ReadShutdown ==
    /\ shutdown # <<>>
    /\ shutdown' = Tail(shutdown)
    /\ IF Head(shutdown) = "graceful"
       THEN closing' = TRUE ELSE UNCHANGED closing

AfterShutdown(next) == IF Head(shutdown) = "abort" THEN "exiting" ELSE next

TopPoll ==
    /\ worker = "top"
    /\ \/ /\ shutdown = <<>>
          /\ worker' = "select" /\ UNCHANGED <<shutdown, closing>>
       \/ /\ ReadShutdown
          /\ worker' = AfterShutdown("select")
    /\ UNCHANGED <<workerOnly, queue, capacityVars, deliveryStopped, buffer, job,
                   stopped, unreported, history>>

SelectShutdown ==
    /\ worker = "select"
    /\ ReadShutdown
    /\ worker' = AfterShutdown("top")
    /\ UNCHANGED <<workerOnly, queue, capacityVars, deliveryStopped, buffer, job,
                   stopped, unreported, history>>

(* flush: what it does before the first request.                           *)
BeginFlush(why, to, events) ==
    LET flushJob == [NoJob EXCEPT !.why = why, !.to = to] IN
    /\ buffer' = <<>>
    /\ IF stopped
       THEN /\ job' = [flushJob EXCEPT !.ok = FALSE, !.batch = events]
            /\ worker' = "releasing"
       ELSE /\ job' = [flushJob EXCEPT !.batch = events, !.todo = events]
            /\ worker' = IF events = <<>> THEN "flushed" ELSE "sending"

SelectEvent ==
    /\ worker = "select" /\ queue # <<>> /\ Head(queue).kind = "event"
    /\ queue' = Tail(queue)
    /\ job' = [NoJob EXCEPT !.batch = <<Head(queue).of>>]
    /\ worker' = "received"
    /\ UNCHANGED <<workerOnly, shutdown, capacityVars, deliveryStopped, closing,
                   buffer, stopped, unreported, history>>

(* process, for an event: its slot is free; a stopped worker drops it.     *)
ProcessEvent ==
    /\ worker = "received"
    /\ queued' = queued - 1
    /\ IF stopped
       THEN /\ retained' = retained - BytesOf[ToSet(job.batch)]
            /\ worker' = "top" /\ job' = NoJob /\ UNCHANGED buffer
       ELSE /\ UNCHANGED retained
            /\ IF Len(buffer) + 1 >= MaxPerRequest
               THEN BeginFlush("batch", {}, buffer \o job.batch)
               ELSE /\ buffer' = buffer \o job.batch
                    /\ worker' = "top" /\ job' = NoJob
    /\ UNCHANGED <<workerOnly, shutdown, queue, deliveryStopped, closing, stopped,
                   unreported, history>>

SelectFlush ==
    /\ worker = "select" /\ queue # <<>> /\ Head(queue).kind = "flush"
    /\ queue' = Tail(queue)
    /\ BeginFlush("flush", {Head(queue).of} \cap Flushers, buffer)
    /\ UNCHANGED <<workerOnly, shutdown, capacityVars, deliveryStopped, closing,
                   stopped, unreported, history>>

(* Seeded fault: the last sender is taken to be the shared one.            *)
FinalFlushEarly ==
    /\ worker = "select" /\ queue = <<>> /\ ~ senderOpen
    /\ BeginFlush("final", {}, buffer)
    /\ UNCHANGED <<workerOnly, shutdown, queue, capacityVars, deliveryStopped,
                   closing, stopped, unreported, history>>

FinalFlush ==
    /\ worker = "select" /\ queue = <<>> /\ Disconnected
    /\ BeginFlush("final", {}, buffer)
    /\ UNCHANGED <<workerOnly, shutdown, queue, capacityVars, deliveryStopped,
                   closing, stopped, unreported, history>>

AutoFlush ==
    /\ worker = "select" /\ ~ closing
    /\ queue = <<>> /\ ~ Disconnected /\ shutdown = <<>>
    /\ BeginFlush("auto", {}, buffer)
    /\ UNCHANGED <<workerOnly, shutdown, queue, capacityVars, deliveryStopped,
                   closing, stopped, unreported, history>>
-----------------------------------------------------------------------------
(***************************************************************************)
(* deliver_events and send: one request per chunk, retried.                *)
(***************************************************************************)
sendingOnly == <<workerOnly, queue, shutdown, closing, buffer, unreported, reported, panicked>>

ChunkLength == IF Len(job.todo) < MaxPerRequest THEN Len(job.todo) ELSE MaxPerRequest

Chunk == SubSeq(job.todo, 1, ChunkLength)

Rest == SubSeq(job.todo, ChunkLength + 1, Len(job.todo))

NextChunk(outcome) ==
    /\ job' = [job EXCEPT !.todo = Rest, !.attempt = 1, !.ok = @ /\ outcome]
    /\ worker' = IF Rest = <<>> THEN "releasing" ELSE "sending"

Requested ==
    /\ worker = "sending" /\ ~ abort
    /\ offered' = offered \cup ToSet(Chunk)

RequestSucceeds ==
    /\ Requested
    /\ acked' = acked \cup ToSet(Chunk)
    /\ NextChunk(TRUE)
    /\ UNCHANGED <<sendingOnly, capacityVars, deliveryStopped, stopped>>

(* A transport error or a recoverable status; the last one fails the chunk. *)
RequestFails ==
    /\ Requested
    /\ IF job.attempt < MaxAttempts
       THEN worker' = "retrying" /\ UNCHANGED job
       ELSE NextChunk(FALSE)
    /\ UNCHANGED <<sendingOnly, capacityVars, deliveryStopped, stopped, acked>>

Retry ==
    /\ worker = "retrying" /\ ~ abort
    /\ worker' = "sending"
    /\ job' = [job EXCEPT !.attempt = @ + 1]
    /\ UNCHANGED <<sendingOnly, capacityVars, deliveryStopped, stopped, acked, offered>>

(* An unrecoverable status ends delivery for good.                         *)
RequestRejected ==
    /\ MayReject
    /\ Requested
    /\ stopped' = TRUE /\ deliveryStopped' = TRUE
    /\ job' = [job EXCEPT !.todo = <<>>, !.ok = FALSE]
    /\ worker' = "releasing"
    /\ UNCHANGED <<sendingOnly, capacityVars, acked>>

(* The abort signal wins over a request or a retry delay.                  *)
Cancelled ==
    /\ worker \in {"sending", "retrying"} /\ abort
    /\ job' = [job EXCEPT !.todo = <<>>, !.ok = FALSE, !.cancelled = TRUE]
    /\ worker' = "releasing"
    /\ UNCHANGED <<sendingOnly, capacityVars, deliveryStopped, stopped, acked, offered>>

(* Seeded fault: the events sent stay in the buffer.                       *)
ReleaseKeeping ==
    /\ worker = "releasing"
    /\ retained' = retained - BytesOf[ToSet(job.batch)]
    /\ buffer' = job.batch
    /\ job' = [job EXCEPT !.batch = <<>>]
    /\ worker' = "flushed"
    /\ UNCHANGED <<workerOnly, queue, queued, shutdown, deliveryStopped, closing,
                   stopped, unreported, history>>

(* The events are dropped whatever became of them.                         *)
Release ==
    /\ worker = "releasing"
    /\ retained' = retained - BytesOf[ToSet(job.batch)]
    /\ job' = [job EXCEPT !.batch = <<>>]
    /\ worker' = "flushed"
    /\ UNCHANGED <<workerOnly, queue, queued, shutdown, deliveryStopped, closing,
                   buffer, stopped, unreported, history>>
-----------------------------------------------------------------------------
(***************************************************************************)
(* What follows a flush: a flush message is answered and forgets the       *)
(* failures it answers for; the others remember theirs.                    *)
(***************************************************************************)
Delivered == job.ok /\ ~ unreported

(* Seeded fault: a failed flush leaves before the reply.                   *)
ReplyDelivered ==
    [f \in Flushers |-> IF f \in job.to /\ Delivered THEN "true" ELSE reply[f]]

Reply ==
    [f \in Flushers |-> IF f \notin job.to THEN reply[f]
                        ELSE IF Delivered THEN "true" ELSE "false"]

Lost == offered \ acked

(* Seeded fault: the failure of a batch or of a timed flush is forgotten.  *)
ForgetFailure == UNCHANGED unreported

RememberFailure == unreported' = (unreported \/ ~ job.ok)

EndFlush ==
    /\ worker = "flushed"
    /\ \/ /\ job.why = "flush"
          /\ reply' = Reply
          /\ unreported' = FALSE
          /\ reported' = IF job.to # {} /\ ~ Delivered THEN reported \cup Lost ELSE reported
       \/ /\ job.why \in {"batch", "auto"}
          /\ RememberFailure
          /\ UNCHANGED <<reply, reported>>
       \/ /\ job.why = "final"
          /\ UNCHANGED <<reply, unreported, reported>>
    /\ worker' = IF job.cancelled \/ job.why = "final" THEN "exiting" ELSE "top"
    /\ job' = NoJob
    /\ UNCHANGED <<producer, flusher, result, covered, queue, capacityVars, senderOpen,
                   closeVars, deliveryStopped, closing, buffer, stopped, acked, offered, panicked>>

(* The loop is left: the buffer is dropped, then the guard of the thread   *)
(* says that delivery stopped, then the receiver goes with its messages,   *)
(* then the completion is signalled.                                       *)
exitOnly == <<workerOnly, shutdown, closing, job, stopped, unreported, history>>

Exit ==
    /\ worker = "exiting"
    /\ buffer' = <<>> /\ retained' = retained - BytesOf[ToSet(buffer)]
    /\ worker' = "stopping"
    /\ UNCHANGED <<exitOnly, queue, queued, deliveryStopped>>

(* A panic unwinds through the loop: the events it holds are dropped and a *)
(* flush message it was to answer is not.                                  *)
Panic ==
    /\ MayPanic
    /\ worker \in {"top", "select", "received", "sending", "retrying", "releasing", "flushed"}
    /\ queued' = IF worker = "received" THEN queued - 1 ELSE queued
    /\ retained' = retained - BytesOf[ToSet(buffer)] - BytesOf[ToSet(job.batch)]
    /\ buffer' = <<>> /\ job' = NoJob
    /\ reply' = [f \in Flushers |-> IF f \in job.to THEN "false" ELSE reply[f]]
    /\ worker' = "stopping" /\ panicked' = TRUE
    /\ UNCHANGED <<producer, flusher, result, covered, queue, senderOpen, closeVars,
                   deliveryStopped, closing, stopped, unreported, acked, offered, reported>>

StoppedOnExit ==
    /\ worker = "stopping"
    /\ deliveryStopped' = TRUE
    /\ worker' = "discarding"
    /\ UNCHANGED <<exitOnly, queue, capacityVars, buffer>>

QueuedEvents == {p \in Producers : Event(p) \in ToSet(queue)}

DiscardQueue ==
    /\ worker = "discarding"
    /\ queue' = <<>>
    /\ queued' = queued - Cardinality(QueuedEvents)
    /\ retained' = retained - BytesOf[QueuedEvents]
    /\ reply' = [f \in Flushers |-> IF Flush(f) \in ToSet(queue) THEN "false" ELSE reply[f]]
    /\ worker' = "signal"
    /\ UNCHANGED <<producer, flusher, result, covered, senderOpen, closeVars,
                   deliveryStopped, closing, buffer, job, stopped, unreported, history>>

Signal ==
    /\ worker = "signal"
    /\ worker' = "done"
    /\ UNCHANGED <<exitOnly, queue, capacityVars, deliveryStopped, buffer>>

Run ==
    \/ TopPoll \/ SelectShutdown \/ SelectEvent \/ ProcessEvent \/ SelectFlush
    \/ FinalFlush \/ AutoFlush
    \/ RequestSucceeds \/ RequestFails \/ Retry \/ RequestRejected \/ Cancelled
    \/ Release \/ EndFlush
    \/ Exit \/ StoppedOnExit \/ DiscardQueue \/ Signal

Worker == Run \/ Panic
-----------------------------------------------------------------------------
(***************************************************************************)
(* close: the first caller takes the sender away, asks the worker to       *)
(* drain, and aborts it if it does not in time; the others wait for it.    *)
(***************************************************************************)
closeOnly == <<callVars, queue, capacityVars, deliveryStopped, workerVars, history>>

Place(c, place) == closer' = [closer EXCEPT ![c] = place]

CloseSwap(c) ==
    /\ closer[c] = "idle"
    /\ Place(c, IF ~ closed THEN "take" ELSE IF closeComplete THEN "returned" ELSE "second")
    /\ closed' = TRUE
    /\ UNCHANGED <<closeOnly, closeComplete, abort, shutdown, senderOpen>>

(* Seeded fault: the shared sender stays.                                  *)
CloseKeepsSender(c) ==
    /\ closer[c] = "take"
    /\ Place(c, "ask")
    /\ UNCHANGED <<closeOnly, closed, closeComplete, abort, shutdown, senderOpen>>

CloseTakesSender(c) ==
    /\ closer[c] = "take"
    /\ senderOpen' = FALSE
    /\ Place(c, "ask")
    /\ UNCHANGED <<closeOnly, closed, closeComplete, abort, shutdown>>

CloseAsks(c) ==
    /\ closer[c] = "ask"
    /\ shutdown' = IF ReceiverGone THEN shutdown ELSE Append(shutdown, "graceful")
    /\ Place(c, "graceful")
    /\ UNCHANGED <<closeOnly, closed, closeComplete, abort, senderOpen>>

CloseSignalsAbort(c) ==
    /\ MayTimeOut
    /\ closer[c] = "graceful" /\ worker # "done"
    /\ abort' = TRUE
    /\ Place(c, "abort")
    /\ UNCHANGED <<closeOnly, closed, closeComplete, shutdown, senderOpen>>

(* Its capacity of two always takes the two messages of the one closer.    *)
CloseSendsAbort(c) ==
    /\ closer[c] = "abort"
    /\ shutdown' = IF ReceiverGone THEN shutdown ELSE Append(shutdown, "abort")
    /\ Place(c, "aborted")
    /\ UNCHANGED <<closeOnly, closed, closeComplete, abort, senderOpen>>

CloseCompletes(c) ==
    /\ \/ closer[c] = "graceful" /\ worker = "done"
       \/ closer[c] = "aborted" /\ (worker = "done" \/ MayTimeOut)
    /\ closeComplete' = TRUE
    /\ Place(c, "returned")
    /\ UNCHANGED <<closeOnly, closed, abort, shutdown, senderOpen>>

CloseSecond(c) ==
    /\ closer[c] = "second" /\ (worker = "done" \/ MayTimeOut)
    /\ Place(c, "returned")
    /\ UNCHANGED <<closeOnly, closed, closeComplete, abort, shutdown, senderOpen>>

Close(c) ==
    \/ CloseSwap(c) \/ CloseTakesSender(c) \/ CloseAsks(c) \/ CloseSignalsAbort(c)
    \/ CloseSendsAbort(c) \/ CloseCompletes(c) \/ CloseSecond(c)

Next ==
    \/ \E p \in Producers : Record(p)
    \/ \E f \in Flushers \cup Pokers : FlushCall(f)
    \/ Worker
    \/ \E c \in Closers : Close(c)

Spec == Init /\ [][Next]_vars

(* Threads run, a request ends (it has a timeout), a call that started     *)
(* goes on; nobody has to call anything, and no worker has to panic.       *)
Fairness ==
    /\ WF_vars(Run)
    /\ \A p \in Producers : WF_vars(producer[p] # "idle" /\ Record(p))
    /\ \A f \in Flushers \cup Pokers : WF_vars(flusher[f] # "idle" /\ FlushCall(f))
    /\ \A c \in Closers : WF_vars(closer[c] # "idle" /\ Close(c))

FairSpec == Spec /\ Fairness
-----------------------------------------------------------------------------
(***************************************************************************)
(* Properties                                                              *)
(***************************************************************************)
(* The values every variable may take.                                     *)
TypeOK ==
    /\ producer \in [Producers -> {"idle", "load", "check", "slot", "bytes", "rollback",
                                   "send", "accepted", "rejected"}]
    /\ queue \in Seq([kind : {"event", "flush"}, of : Producers \cup Flushers \cup Pokers])
    /\ Len(queue) <= MaxEvents /\ queued \in Nat /\ retained \in Nat
    /\ flusher \in [Flushers \cup Pokers -> {"idle", "load", "send", "await", "returned"}]
    /\ reply \in [Flushers -> {"none", "true", "false"}]
    /\ result \in [Flushers -> {"none", "true", "false"}]
    /\ closer \in [Closers -> {"idle", "take", "ask", "graceful", "abort", "aborted",
                               "second", "returned"}]
    /\ {closed, closeComplete, abort, senderOpen, deliveryStopped, closing, stopped,
        unreported, panicked} \subseteq BOOLEAN
    /\ shutdown \in Seq({"graceful", "abort"}) /\ Len(shutdown) <= 2
    /\ worker \in {"top", "select", "received", "sending", "retrying", "releasing",
                   "flushed", "exiting", "stopping", "discarding", "signal", "done"}
    /\ buffer \in Seq(Producers) /\ Len(buffer) < MaxPerRequest
    /\ job.batch \in Seq(Producers) /\ job.todo \in Seq(Producers)
    /\ job.attempt \in 1..MaxAttempts
    /\ acked \subseteq Producers /\ offered \subseteq Producers /\ reported \subseteq Producers

Receiving == IF worker = "received" THEN ToSet(job.batch) ELSE {}

HoldingSlot ==
    {p \in Producers : producer[p] \in {"bytes", "rollback", "send"}}
        \cup QueuedEvents \cup Receiving

HoldingBytes ==
    {p \in Producers : producer[p] = "send"}
        \cup QueuedEvents \cup ToSet(buffer) \cup ToSet(job.batch)

(* The counters neither leak nor release twice on any path: they count     *)
(* what the live events hold, within the configured limits, until the      *)
(* worker is gone and they are zero.                                       *)
CapacityExact ==
    /\ queued = Cardinality(HoldingSlot) /\ queued <= MaxEvents
    /\ retained = BytesOf[HoldingBytes] /\ retained <= MaxBytes

(* A call that reserved its slot finds the channel full only because flush *)
(* messages, which reserve nothing, are in it.                             *)
FullOnlyByFlushes ==
    \A p \in Producers :
        producer[p] = "send" /\ Len(queue) >= MaxEvents
            => \E f \in Flushers \cup Pokers : Flush(f) \in ToSet(queue)

(* A graceful close loses nothing: once the worker is done, not aborted,   *)
(* panicked or stopped by the endpoint, every event a caller was told was  *)
(* accepted has been in a request, also when the call raced the close.     *)
GracefulDrains ==
    worker = "done" /\ ~ abort /\ ~ stopped /\ ~ panicked => Accepted \subseteq offered

(* An event whose request succeeded is in no later request.                *)
AckedIsNotResent == worker = "sending" => ToSet(job.todo) \cap acked = {}

(* flush_and_wait answers TRUE only when each event accepted before the    *)
(* call was delivered, or its loss was told to an earlier flush_and_wait.  *)
FlushTruth ==
    \A f \in Flushers : result[f] = "true" => covered[f] \subseteq acked \cup reported

(* A close that does not time out ends the worker, whatever calls are in   *)
(* flight and hold the sender.                                             *)
GracefulCloseEnds == closed ~> worker = "done"

(* Every call of flush_and_wait returns, also when it races a close or the *)
(* worker panics with the answer still to give.                            *)
FlushReturns == \A f \in Flushers : flusher[f] # "idle" ~> flusher[f] = "returned"
=============================================================================
