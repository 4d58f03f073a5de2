------------------------------- MODULE Client -------------------------------
(***************************************************************************)
(* FbClient (src/client.rs, src/client/evaluation.rs): it is started from  *)
(* accepted options, serves evaluations and tracking calls while its two   *)
(* workers run, fail or stop, and is closed by any number of threads or by *)
(* the drop of its last handle.                                            *)
(*                                                                         *)
(* The synchronizer is the abstract one that DataSync implements; of the   *)
(* event processor the client knows whether it accepts, how far its close  *)
(* has come and whether its worker's thread is over.  A snapshot is what   *)
(* an evaluation of one flag for one user finds in it.  A call is an       *)
(* agenda of accesses to shared state, taken one at a time.                *)
(***************************************************************************)
EXTENDS Options, Synchronizer, SequencesExt

CONSTANTS
    Candidates,   \* builders somebody calls build on
    Callers,      \* threads that evaluate and track
    Closers,      \* threads that call close
    Dropper,      \* the owner of the last handle
    MaxCalls,     \* bound: calls of a caller that need no earlier one
    MaxUses,      \* bound: calls of a caller with what an earlier one captured
    MayTimeOut    \* close may give up waiting for a worker

ASSUME ClientAssumption ==
    /\ Candidates \subseteq Drafts
    /\ Dropper \notin Closers
    /\ NoSnapshot \notin Snapshots /\ NoSnapshot.flag = "missing"
    /\ \A s \in Snapshots \cup {NoSnapshot} :
          s.flag \in {"served", "missing", "malformed"} /\ s.insights \in BOOLEAN
    /\ MaxCalls \in Nat /\ MaxUses \in Nat /\ MayTimeOut \in BOOLEAN

VARIABLES
    options,       \* the builder, then what the client keeps of it
    phase,         \* of the client
    synchronizer,  \* there is one
    processor,     \* the event processor is an active one
    accepting,     \* EventProcessor::is_accepting
    eventsEnded,   \* the event worker's thread is over
    closed,        \* ClientInner.closed
    syncClosed, syncComplete,      \* the two flags of WebSocketDataSynchronizer::close
    eventsClosed, eventsComplete,  \* the two flags of EventProcessorInner::close
    closer,        \* where each close is
    gaveUp,        \* history: some close gave up waiting for a worker
    call,          \* the call each caller is in
    captured,      \* the last evaluation event each caller was given
    calls, uses    \* calls each caller has begun (bounded)

workerVars == <<synchronizer, processor, accepting, eventsEnded>>
closeFlags == <<closed, syncClosed, syncComplete, eventsClosed, eventsComplete>>
closeVars == <<closeFlags, closer, gaveUp>>
callVars == <<call, captured, calls, uses>>
vars == <<options, phase, workerVars, closeVars, callVars, syncVars>>

NoCall == [op |-> "none", todo |-> <<>>, keyed |-> FALSE, late |-> FALSE, snap |-> NoSnapshot,
           error |-> "none", answer |-> "none", events |-> <<>>, observed |-> <<>>]

NoCapture == [from |-> "none", snap |-> NoSnapshot]

Init ==
    /\ SyncInit
    /\ options \in Candidates /\ phase = "draft"
    /\ synchronizer = FALSE /\ processor = FALSE /\ accepting = FALSE /\ eventsEnded = FALSE
    /\ closed = FALSE /\ syncClosed = FALSE /\ syncComplete = FALSE
    /\ eventsClosed = FALSE /\ eventsComplete = FALSE /\ gaveUp = FALSE
    /\ closer = [c \in Closers \cup {Dropper} |-> "idle"]
    /\ call = [c \in Callers |-> NoCall]
    /\ captured = [c \in Callers |-> NoCapture]
    /\ calls = [c \in Callers |-> 0] /\ uses = [c \in Callers |-> 0]
-----------------------------------------------------------------------------
(***************************************************************************)
(* FbOptionsBuilder::build and FbClient::with_options.                     *)
(***************************************************************************)
Kept(draft) ==
    [offline |-> draft.offline, bootstrap |-> draft.bootstrap, observer |-> draft.observer,
     disable_events |-> draft.disable_events, allow_track |-> draft.allow_track]

Build ==
    /\ phase = "draft"
    /\ IF Accepts(options)
       THEN phase' = "built" /\ options' = Kept(options)
       ELSE phase' = "refused" /\ UNCHANGED options
    /\ UNCHANGED <<workerVars, closeVars, callVars, syncVars>>

WantsEvents == ~ options.offline /\ (~ options.disable_events \/ options.allow_track)

(* Offline there is no synchronizer, and the bootstrap data is all there   *)
(* will ever be.                                                           *)
StartOffline ==
    /\ phase = "built" /\ options.offline
    /\ phase' = "open"
    /\ IF options.bootstrap = "none" THEN UNCHANGED snapshot ELSE snapshot' \in Snapshots
    /\ status' = "Ready" /\ initialized' = TRUE /\ ended' = TRUE
    /\ UNCHANGED <<options, workerVars, stop, closeVars, callVars>>

(* Either thread may fail to start; the client is returned all the same.   *)
StartOnline ==
    /\ phase = "built" /\ ~ options.offline
    /\ phase' = "waiting"
    /\ processor' \in {FALSE, WantsEvents} /\ accepting' = processor'
    /\ \/ synchronizer' = TRUE /\ UNCHANGED syncVars
       \/ SetStatus("Closed") /\ ended' = TRUE /\ UNCHANGED <<synchronizer, snapshot, stop>>
    /\ UNCHANGED <<options, eventsEnded, closeVars, callVars>>

(* wait_until_initialized: there is data, there will be none, or start_wait *)
(* is over.                                                                *)
Open ==
    /\ phase = "waiting" /\ phase' = "open"
    /\ UNCHANGED <<options, workerVars, closeVars, callVars, syncVars>>

Worker ==
    /\ synchronizer /\ WorkerTurn
    /\ UNCHANGED <<options, phase, workerVars, closeVars, callVars>>

(* An unrecoverable answer.                                                *)
DeliveryStops ==
    /\ accepting /\ accepting' = FALSE
    /\ UNCHANGED <<options, phase, synchronizer, processor, eventsEnded, closeVars, callVars,
                   syncVars>>

(* The event worker was asked to end, panicked, or had no runtime to start *)
(* with; whichever it was, nothing is accepted any more.                   *)
EventWorkerEnds ==
    /\ processor /\ ~ eventsEnded
    /\ eventsEnded' = TRUE /\ accepting' = FALSE
    /\ UNCHANGED <<options, phase, synchronizer, processor, closeVars, callVars, syncVars>>
-----------------------------------------------------------------------------
(***************************************************************************)
(* Evaluations and tracking calls.                                         *)
(***************************************************************************)
Evaluations == {"value", "detail", "raw", "all"}
Explicit == {"track", "retrack", "metric"}
Ops == Evaluations \cup Explicit \cup {"complete"}

(* evaluation_available and tracking_available.                            *)
Available == <<"closed", "initialized", "status">>
Trackable == <<"allowed", "live", "accepting">>

Agenda(op) ==
    CASE op = "value" -> Available \o <<"load", "gate", "record", "send", "notify">>
      [] op = "detail" -> Available \o <<"load", "record", "send", "notify">>
      [] op \in {"raw", "all"} -> Available \o <<"load">>
      [] op = "complete" -> <<"record", "send", "notify">>
      [] op = "retrack" -> Trackable \o Available \o <<"load", "record", "send">>
      [] op \in {"track", "metric"} -> Trackable \o <<"record", "send">>

At(c, step) == call[c].todo # <<>> /\ Head(call[c].todo) = step

otherThanCalls ==
    <<options, phase, workerVars, closeVars, captured, calls, uses, syncVars>>

Begun(op, keyed, snap) ==
    [NoCall EXCEPT !.op = op, !.todo = Agenda(op), !.keyed = keyed, !.snap = snap,
                   !.late = closed \/ (ended /\ status = "Closed")]

Ready(c) == phase = "open" /\ closer[Dropper] = "idle" /\ call[c] = NoCall

BeginFresh(c) ==
    /\ Ready(c) /\ calls[c] < MaxCalls
    /\ calls' = [calls EXCEPT ![c] = @ + 1]
    /\ \E op \in Evaluations \cup {"retrack", "metric"}, keyed \in BOOLEAN :
           call' = [call EXCEPT ![c] = Begun(op, keyed, NoSnapshot)]
    /\ UNCHANGED <<options, phase, workerVars, closeVars, captured, uses, syncVars>>

(* track_eval_event and complete_raw_evaluation are given what an earlier  *)
(* evaluation captured, for whatever user.                                 *)
BeginUse(c) ==
    /\ Ready(c) /\ uses[c] < MaxUses
    /\ uses' = [uses EXCEPT ![c] = @ + 1]
    /\ \E op \in {"track", "complete"}, keyed \in BOOLEAN :
           /\ captured[c].from \in (IF op = "track" THEN {"detail", "raw"} ELSE {"raw"})
           /\ call' = [call EXCEPT ![c] = Begun(op, keyed, captured[c].snap)]
    /\ UNCHANGED <<options, phase, workerVars, closeVars, captured, calls, syncVars>>

GoneOn(k) == [k EXCEPT !.todo = Tail(@)]

(* A failed evaluation tells the observer why; the others only fail.       *)
Failed(k, error) ==
    [k EXCEPT !.error = error,
              !.answer = IF k.op \in Evaluations THEN "fallback" ELSE "false",
              !.todo = IF k.op \in {"value", "detail", "raw"} THEN <<"observe">> ELSE <<>>]

(* Seeded fault: a closed client looks at its status only.                 *)
StatusTells(step) ==
    CASE step = "closed" -> TRUE
      [] step = "allowed" -> options.allow_track /\ ~ closed
      [] step = "initialized" -> initialized
      [] step = "status" -> status \in {"Ready", "Stale"}
      [] step = "live" -> status # "Closed"
      [] step = "accepting" -> accepting

Holds(step) ==
    CASE step = "closed" -> ~ closed
      [] step = "allowed" -> options.allow_track /\ ~ closed
      [] step = "initialized" -> initialized
      [] step = "status" -> status \in {"Ready", "Stale"}
      [] step = "live" -> status # "Closed"
      [] step = "accepting" -> accepting

Check(c) ==
    \E step \in {"closed", "allowed", "initialized", "status", "live", "accepting"} :
        /\ At(c, step)
        /\ call' = [call EXCEPT ![c] = IF Holds(step) THEN GoneOn(@) ELSE Failed(@, "notReady")]
        /\ UNCHANGED otherThanCalls

EvalError(snap, keyed) ==
    CASE ~ keyed -> "noKey"
      [] keyed /\ snap.flag = "served" -> "none"
      [] keyed /\ snap.flag # "served" -> snap.flag

(* The one snapshot of an evaluation.  A detail is converted and captured  *)
(* while it is held, a raw evaluation is captured unconverted; whether the *)
(* value converts depends on it and on the type the caller wants.          *)
Load(c) ==
    /\ At(c, "load")
    /\ \E converts \in {TRUE, call[c].op # "detail"} :
           LET k == [call[c] EXCEPT !.snap = snapshot]
               error == IF EvalError(snapshot, k.keyed) = "none" /\ ~ converts
                        THEN "mismatch" ELSE EvalError(snapshot, k.keyed)
           IN  IF error = "none"
               THEN /\ call' = [call EXCEPT ![c] = [GoneOn(k) EXCEPT
                                    !.answer = IF k.op \in Evaluations THEN "value" ELSE @]]
                    /\ captured' = IF k.op \in {"detail", "raw"}
                                   THEN [captured EXCEPT ![c] = [from |-> k.op, snap |-> snapshot]]
                                   ELSE captured
               ELSE call' = [call EXCEPT ![c] = Failed(k, error)] /\ UNCHANGED captured
    /\ UNCHANGED <<options, phase, workerVars, closeVars, calls, uses, syncVars>>

(* Seeded fault: an observer is no reason to complete an evaluation.       *)
EventIsDue(k) == k.snap.insights /\ ~ options.disable_events /\ accepting

(* should_complete_value_evaluation.                                       *)
CompletionIsDue(k) ==
    options.observer \/ (k.snap.insights /\ ~ options.disable_events /\ accepting)

(* A value is converted after that was decided.                            *)
Gate(c) ==
    /\ At(c, "gate")
    /\ call' \in
          {[call EXCEPT ![c] = Failed(@, "mismatch")],
           [call EXCEPT ![c] = IF CompletionIsDue(@) THEN GoneOn(@) ELSE [@ EXCEPT !.todo = <<>>]]}
    /\ UNCHANGED otherThanCalls

(* The user has a key, the flag collects insights as the evaluation saw it *)
(* and the call is one that records.                                       *)
Recordable(k) ==
    /\ k.keyed
    /\ k.op # "metric" => k.snap.insights
    /\ k.op \in Explicit \/ ~ options.disable_events

Unrecorded(k) ==
    [k EXCEPT !.todo = Tail(Tail(@)), !.answer = IF k.op \in Explicit THEN "false" ELSE @]

Record(c) ==
    /\ At(c, "record")
    /\ call' = [call EXCEPT ![c] =
                   IF Recordable(@) /\ accepting THEN GoneOn(@) ELSE Unrecorded(@)]
    /\ UNCHANGED otherThanCalls

(* Seeded fault: the event is made from the snapshot of the moment.        *)
EventNow(k) == [op |-> k.op, snap |-> snapshot]

EventOf(k) == [op |-> k.op, snap |-> k.snap]

Sent(k, room) ==
    [k EXCEPT !.todo = Tail(@),
              !.events = IF room THEN Append(@, EventOf(k)) ELSE @,
              !.answer = IF k.op \notin Explicit THEN @ ELSE IF room THEN "true" ELSE "false"]

(* Whether there was room; a close that comes now does not undo it.        *)
Send(c) ==
    /\ At(c, "send")
    /\ \E room \in BOOLEAN : call' = [call EXCEPT ![c] = Sent(@, room)]
    /\ UNCHANGED otherThanCalls

Observation(k, kind) ==
    IF options.observer
    THEN Append(k.observed, [kind |-> kind, error |-> k.error, snap |-> k.snap])
    ELSE k.observed

(* notify_successful_evaluation and observe_evaluation_error.              *)
Notify(c) ==
    \E kind \in {"success", "error"} :
        /\ At(c, IF kind = "success" THEN "notify" ELSE "observe")
        /\ call' = [call EXCEPT ![c] = [GoneOn(@) EXCEPT !.observed = Observation(call[c], kind)]]
        /\ UNCHANGED otherThanCalls

Over(c) == call[c].op # "none" /\ call[c].todo = <<>>

(* The caller has its answer, and what was captured.                       *)
Return(c) ==
    /\ Over(c)
    /\ call' = [call EXCEPT ![c] = NoCall]
    /\ UNCHANGED otherThanCalls

Call(c) ==
    \/ BeginFresh(c) \/ BeginUse(c) \/ Check(c) \/ Load(c) \/ Gate(c) \/ Record(c) \/ Send(c)
    \/ Notify(c) \/ Return(c)
-----------------------------------------------------------------------------
(***************************************************************************)
(* close, and the drop of the last handle, which is a close when nobody    *)
(* else can call anything.  What it drops after that closes once more and  *)
(* finds everything closed.                                                *)
(***************************************************************************)
otherThanClose == <<options, phase, synchronizer, processor, eventsEnded, callVars>>

Goto(c, here, there) == closer[c] = here /\ closer' = [closer EXCEPT ![c] = there]

MayClose(c) ==
    /\ phase = "open" /\ closer[Dropper] = "idle"
    /\ c = Dropper =>
          /\ \A d \in Callers : call[d] = NoCall
          /\ \A d \in Closers : closer[d] \in {"idle", "returned"}

otherThanClosed == <<accepting, syncClosed, syncComplete, eventsClosed, eventsComplete, gaveUp, syncVars>>

(* Seeded fault: only the first close closes.                              *)
CloseOnce(c) ==
    /\ MayClose(c)
    /\ Goto(c, "idle", IF closed THEN "returned" ELSE IF synchronizer THEN "sync" ELSE "noSync")
    /\ closed' = TRUE
    /\ UNCHANGED <<otherThanClose, otherThanClosed>>

CloseBegin(c) ==
    /\ MayClose(c)
    /\ Goto(c, "idle", IF synchronizer THEN "sync" ELSE "noSync")
    /\ closed' = TRUE
    /\ UNCHANGED <<otherThanClose, otherThanClosed>>

CloseUnsynchronized(c) ==
    /\ Goto(c, "noSync", "events")
    /\ SetStatus("Closed")
    /\ UNCHANGED <<otherThanClose, accepting, closeFlags, gaveUp, snapshot, stop, ended>>

(* WebSocketDataSynchronizer::close: the first asks the worker to end.     *)
CloseFirst(c) ==
    /\ ~ syncClosed /\ syncClosed' = TRUE
    /\ Goto(c, "sync", "waiting")
    /\ RequestStop
    /\ UNCHANGED <<otherThanClose, accepting, closed, syncComplete, eventsClosed,
                   eventsComplete, gaveUp>>

CloseLate(c) ==
    /\ syncClosed
    /\ Goto(c, "sync", IF syncComplete THEN "events" ELSE "lateWaiting")
    /\ UNCHANGED <<otherThanClose, accepting, closeFlags, gaveUp, syncVars>>

(* The wait for the worker, which may be given up, then the status.        *)
CloseWaited(c) ==
    /\ ended \/ MayTimeOut
    /\ Goto(c, "waiting", "events") \/ Goto(c, "lateWaiting", "events")
    /\ gaveUp' = (gaveUp \/ ~ ended)
    /\ SetStatus("Closed")
    /\ syncComplete' = (syncComplete \/ closer[c] = "waiting")
    /\ UNCHANGED <<otherThanClose, accepting, closed, syncClosed, eventsClosed,
                   eventsComplete, snapshot, stop, ended>>

(* EventProcessor::close, of which a disabled one has nothing to do.  The  *)
(* first asks the worker to end, and nothing is accepted from then on.     *)
CloseEvents(c) ==
    /\ Goto(c, "events",
            CASE ~ processor -> "returned"
              [] processor /\ ~ eventsClosed -> "draining"
              [] processor /\ eventsClosed ->
                    IF eventsComplete THEN "returned" ELSE "lateDraining")
    /\ eventsClosed' = (eventsClosed \/ processor)
    /\ accepting' = FALSE
    /\ UNCHANGED <<otherThanClose, closed, syncClosed, syncComplete, eventsComplete, gaveUp,
                   syncVars>>

(* The wait for the event worker: for its last flush, then for its being   *)
(* aborted; both may run out.                                              *)
CloseDrained(c) ==
    /\ eventsEnded \/ MayTimeOut
    /\ Goto(c, "draining", "returned") \/ Goto(c, "lateDraining", "returned")
    /\ gaveUp' = (gaveUp \/ ~ eventsEnded)
    /\ eventsComplete' = (eventsComplete \/ closer[c] = "draining")
    /\ UNCHANGED <<otherThanClose, accepting, closed, syncClosed, syncComplete, eventsClosed,
                   syncVars>>

Closing(c) ==
    \/ CloseUnsynchronized(c) \/ CloseFirst(c) \/ CloseLate(c) \/ CloseWaited(c)
    \/ CloseEvents(c) \/ CloseDrained(c)
-----------------------------------------------------------------------------
Next ==
    \/ Build \/ StartOffline \/ StartOnline \/ Open \/ Worker \/ DeliveryStops \/ EventWorkerEnds
    \/ \E c \in Callers : Call(c)
    \/ \E c \in Closers \cup {Dropper} : CloseBegin(c) \/ Closing(c)

Spec == Init /\ [][Next]_vars

(* A close that has begun goes on, and a synchronizer that was asked to    *)
(* end does (SyncSpec).  Nobody has to close, and no call has to go on.    *)
Fairness ==
    /\ WF_vars(Worker /\ stop /\ End)
    /\ WF_vars(\E c \in Closers \cup {Dropper} : Closing(c))

FairSpec == Spec /\ Fairness
-----------------------------------------------------------------------------
(* The values every variable may take; what a call answers is of its kind. *)
TypeOK ==
    /\ options \in Candidates \cup {Kept(draft) : draft \in Candidates}
    /\ phase \in {"draft", "refused", "built", "waiting", "open"}
    /\ synchronizer \in BOOLEAN /\ processor \in BOOLEAN
    /\ accepting \in BOOLEAN /\ eventsEnded \in BOOLEAN
    /\ snapshot \in Snapshots \cup {NoSnapshot}
    /\ status \in {"Starting", "Ready", "Stale", "Closed"} /\ initialized \in BOOLEAN
    /\ stop \in BOOLEAN /\ ended \in BOOLEAN
    /\ closed \in BOOLEAN /\ syncClosed \in BOOLEAN /\ syncComplete \in BOOLEAN
    /\ eventsClosed \in BOOLEAN /\ eventsComplete \in BOOLEAN /\ gaveUp \in BOOLEAN
    /\ closer \in [Closers \cup {Dropper} ->
                      {"idle", "sync", "noSync", "waiting", "lateWaiting", "events",
                       "draining", "lateDraining", "returned"}]
    /\ \A c \in Callers :
          /\ call[c].op \in Ops \cup {"none"}
          /\ call[c].answer \in
                CASE call[c].op \in Evaluations -> {"none", "fallback", "value"}
                  [] call[c].op \in Explicit -> {"none", "false", "true"}
                  [] OTHER -> {"none"}
          /\ captured[c].from \in {"none", "detail", "raw"}
    /\ calls \in [Callers -> 0 .. MaxCalls] /\ uses \in [Callers -> 0 .. MaxUses]

(* What build accepts the workers can run on.                              *)
BuiltIsRunnable == [][phase = "draft" /\ phase' = "built" => Runnable(options)]_vars

(* The documentation of close: a variation call that begins after close    *)
(* did, or after the synchronizer ended for good, returns the fallback and *)
(* leaves no event; a tracking call is refused.                            *)
ClosedFallsBack ==
    \A c \in Callers :
        Over(c) /\ call[c].late /\ call[c].op # "complete" =>
            /\ call[c].answer \in {"fallback", "false"} /\ call[c].error = "notReady"
            /\ call[c].events = <<>>

(* An evaluation of an online client that got past its three checks finds  *)
(* a data set, however the synchronizer and the checks interleave.         *)
EvaluatesPublishedData ==
    \A c \in Callers :
        call[c].op # "none" /\ ~ options.offline
            /\ call[c].error \in {"missing", "malformed", "mismatch"}
            => call[c].snap # NoSnapshot

(* A recorded evaluation event shows the variation the call was answered   *)
(* with or was handed, whatever data arrived since, collects insights by   *)
(* that snapshot, and is of a kind the options allow; a call records one   *)
(* event at most, and says so when it is asked to record.                  *)
EventIsOfValue ==
    \A c \in Callers : LET k == call[c] IN
        /\ Len(k.events) <= 1
        /\ k.op \in Explicit /\ Over(c) => (k.answer = "true" <=> k.events # <<>>)
        /\ \A i \in DOMAIN k.events :
              /\ k.events[i].snap = k.snap
              /\ k.op # "metric" => k.snap.flag = "served" /\ k.snap.insights
              /\ k.op \in {"track", "complete"} => k.snap = captured[c].snap
              /\ IF k.op \in Explicit THEN options.allow_track ELSE ~ options.disable_events
              /\ k.op \notin {"all", "raw"} /\ ~ options.offline

(* The observer hears exactly once of every value and detail evaluation,   *)
(* of every completed raw one and of every raw one that failed: of the     *)
(* value the caller got or of the error it fell back for, whether or not   *)
(* events are on or still accepted.  It hears of nothing else: not of      *)
(* all_variations, not of a tracking call (which may evaluate again), not  *)
(* of a raw evaluation that nobody completed.                              *)
ObservedOnce ==
    \A c \in Callers : LET k == call[c] IN
        Over(c) =>
            IF options.observer
                 /\ (k.op \in {"value", "detail", "complete"} \/ (k.op = "raw" /\ k.error # "none"))
            THEN k.observed = <<[kind |-> IF k.error = "none" THEN "success" ELSE "error",
                                 error |-> k.error, snap |-> k.snap]>>
            ELSE k.observed = <<>>

(* When a close has returned, the first or any later one or the drop of    *)
(* the client, and no close gave up waiting, the threads of both workers   *)
(* are over, no event is accepted and the status is Closed.                *)
CloseIsComplete ==
    (\E c \in Closers \cup {Dropper} : closer[c] = "returned") /\ ~ gaveUp =>
        /\ status = "Closed" /\ ended
        /\ ~ accepting /\ (processor => eventsEnded)

(* A client that is closed is Closed for good after a while, with or       *)
(* without a synchronizer, also when close gave up waiting for it.         *)
(* (`closed' is never reset.)                                              *)
ClosedSettles == <>[](closed => status = "Closed")
=============================================================================
