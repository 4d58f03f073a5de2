------------------------------ MODULE DataSync ------------------------------
(***************************************************************************)
(* The data synchronizer: the worker thread of src/data_sync.rs running    *)
(* run_sync_loop (src/data_sync/connection.rs), what it does with a        *)
(* message (apply_message, src/data_sync/protocol.rs), the status it       *)
(* publishes (src/data_sync/status.rs) and the threads that close it.      *)
(*                                                                         *)
(* The store is the atomic one SnapshotStore implements.  The WebSocket is *)
(* two FIFO queues that vanish with the connection, and the server behind  *)
(* it is external: it answers a request for everything newer than a stamp  *)
(* and pushes every later edit.  A timeout is a choice; a delay is its     *)
(* length's being zero or not.                                             *)
(***************************************************************************)
EXTENDS StoreData, SequencesExt

CONSTANTS
    Closers,        \* threads that call close
    Delays,         \* reconnect_delays, each zero or not
    MaxFailures,    \* bound: connections and writes that fail
    MaxInbox,       \* bound: messages on their way to the client
    MayTimeOut,     \* close may give up waiting for the worker
    MayRefuse,      \* the server may close with code 4003
    MayPanic,       \* the worker may panic
    MayCollide      \* the server may edit an object without a new stamp

ASSUME DelaysAssumption ==
    /\ Delays \in Seq({"zero", "nonzero"})
    /\ \E i \in DOMAIN Delays : Delays[i] = "nonzero"

(* The server lists its objects when it is asked for all of them.          *)
ASSUME IdsAssumption == IsFiniteSet(FlagKeys) /\ IsFiniteSet(SegmentIds)

ASSUME BoundsAssumption ==
    /\ MaxFailures \in Nat /\ MaxInbox \in Nat \ {0}
    /\ MayTimeOut \in BOOLEAN /\ MayRefuse \in BOOLEAN /\ MayPanic \in BOOLEAN
    /\ MayCollide \in BOOLEAN
    /\ MinStamp = 0

VARIABLES
    worker,       \* where the worker thread is
    retry,        \* retry_attempt, modulo the number of delays
    force,        \* force_full_sync
    awaiting,     \* awaiting_full_sync of the current connection
    outcome,      \* what apply_message made of the last message
    status,       \* the published SyncStatus
    initialized,  \* the published initialized flag
    store,        \* the snapshot store
    session,      \* the two directions of the WebSocket, and what they delivered
    truth,        \* the server's objects (external)
    failures,     \* failures so far (bounded)
    stop,         \* the stop watch channel
    closed, closeComplete,  \* the two flags of close
    closer,       \* where each closing thread is
    gaveUp,       \* history: some close gave up waiting for the worker
    unresolved,   \* history: a conflict was seen and no full data set since
    zeroRun       \* history: zero delays in a row, a healthy session apart

loopVars == <<retry, force, awaiting, outcome>>
statusVars == <<status, initialized>>
closeVars == <<stop, closed, closeComplete, closer, gaveUp>>
history == <<unresolved, zeroRun>>
vars == <<worker, loopVars, statusVars, store, session, truth, failures, closeVars,
          history>>

Statuses == {"Starting", "Ready", "Stale", "Closed"}

Messages == [type : {"full", "patch", "other"}, data : Seq(Entry)]

(* `delivered' is history: this connection has brought a data set.         *)
NoSession == [requests |-> <<>>, inbox |-> <<>>, subscribed |-> FALSE, delivered |-> FALSE]

Init ==
    /\ worker = "top"
    /\ retry = 0 /\ force = FALSE /\ awaiting = FALSE /\ outcome = "none"
    /\ status = "Starting" /\ initialized = FALSE
    /\ store = EmptyStore
    /\ session = NoSession /\ truth = NoItems /\ failures = 0
    /\ stop = FALSE /\ closed = FALSE /\ closeComplete = FALSE
    /\ closer = [c \in Closers |-> "idle"]
    /\ gaveUp = FALSE /\ unresolved = FALSE /\ zeroRun = 0
-----------------------------------------------------------------------------
(* StatusTracker::set.                                                     *)
SetStatus(s) ==
    /\ status' = s
    /\ initialized' = (initialized \/ s = "Ready")

(* Seeded fault: the status is left as it is.                              *)
LeaveStatus == UNCHANGED statusVars

SetStaleIfInitialized ==
    /\ status' = IF initialized THEN "Stale" ELSE status
    /\ UNCHANGED initialized

Fail == failures < MaxFailures /\ failures' = failures + 1

LoopTop ==
    /\ worker = "top"
    /\ IF stop
       THEN worker' = "exit" /\ UNCHANGED statusVars
       ELSE worker' = "connecting" /\ SetStaleIfInitialized
    /\ UNCHANGED <<loopVars, store, session, truth, failures, closeVars, history>>

ConnectOk ==
    /\ worker = "connecting" /\ ~ stop
    /\ worker' = "requesting"
    /\ UNCHANGED <<loopVars, statusVars, store, session, truth, failures, closeVars, history>>

ConnectFails ==
    /\ worker = "connecting" /\ ~ stop /\ Fail
    /\ worker' = "backoff"
    /\ UNCHANGED <<loopVars, statusVars, store, session, truth, closeVars, history>>

(* Seeded faults: the pending full data set is forgotten; the next stamp   *)
(* is asked for as if it were exclusive.                                   *)
ResumedVersion == Max({store.version, 0})
SkippingVersion == IF force THEN 0 ELSE Max({store.version, 0}) + 1

(* The stamp a new connection continues from; send_data_sync clamps it.    *)
RequestedVersion == IF force THEN 0 ELSE Max({store.version, 0})

RequestSent ==
    /\ worker = "requesting" /\ ~ stop
    /\ session' = [session EXCEPT !.requests = Append(@, RequestedVersion)]
    /\ awaiting' = force
    /\ worker' = "connected"
    /\ UNCHANGED <<retry, force, outcome, statusVars, store, truth, failures, closeVars, history>>

RequestFails ==
    /\ worker = "requesting" /\ ~ stop /\ Fail
    /\ worker' = "backoff"
    /\ session' = NoSession
    /\ UNCHANGED <<loopVars, statusVars, store, truth, closeVars, history>>

(* Seeded fault: an open connection does not watch the stop channel.       *)
StopSeenUnconnected ==
    /\ stop
    /\ worker \in {"connecting", "requesting", "delaying"}
    /\ worker' = "exit"
    /\ session' = NoSession
    /\ UNCHANGED <<loopVars, statusVars, store, truth, failures, closeVars, history>>

(* Every await of the loop also watches the stop channel, and prefers it   *)
(* to what it waits for; only the select of an open connection is unbiased *)
(* and may take a message instead.                                         *)
StopSeen ==
    /\ stop
    /\ worker \in {"connecting", "requesting", "connected", "resyncing", "delaying"}
    /\ worker' = "exit"
    /\ session' = NoSession
    /\ UNCHANGED <<loopVars, statusVars, store, truth, failures, closeVars, history>>
-----------------------------------------------------------------------------
OutcomeOf(message) ==
    CASE message.type = "full" -> "full"
      [] message.type = "patch" ->
            IF PatchResult(store.items, message.data) = "conflict" THEN "conflict" ELSE "patch"
      [] OTHER -> "ignored"

(* apply_message: the store first, ...                                     *)
Receive ==
    /\ worker = "connected" /\ session.inbox # <<>>
    /\ LET message == Head(session.inbox)
       IN  /\ store' = CASE message.type = "full" -> PopulatedStore(message.data)
                         [] message.type = "patch" -> PatchedStore(store, message.data)
                         [] OTHER -> store
           /\ outcome' = OutcomeOf(message)
    /\ worker' = IF outcome' = "ignored" THEN "handle" ELSE "announce"
    /\ session' = [session EXCEPT !.inbox = Tail(@), !.delivered = @ \/ outcome' # "ignored"]
    /\ unresolved' = (outcome' = "conflict" \/ (unresolved /\ outcome' # "full"))
    /\ UNCHANGED <<retry, force, awaiting, statusVars, truth, failures, closeVars, zeroRun>>

(* ... then the status.                                                    *)
Announce ==
    /\ worker = "announce"
    /\ SetStatus(IF outcome = "conflict" THEN "Stale" ELSE "Ready")
    /\ worker' = "handle"
    /\ UNCHANGED <<loopVars, store, session, truth, failures, closeVars, history>>

(* A patch proves nothing about the conflict: until the full data set is   *)
(* there the status goes back to Stale.                                    *)
KeepStale ==
    IF awaiting /\ outcome # "full" THEN SetStatus("Stale") ELSE UNCHANGED statusVars

(* handle_apply_result, up to the request it may have to send.             *)
Handle ==
    /\ worker = "handle"
    /\ KeepStale
    /\ awaiting' = (awaiting /\ outcome # "full")
    /\ worker' = IF outcome = "conflict" /\ ~ awaiting THEN "resyncing" ELSE "connected"
    /\ UNCHANGED <<retry, force, outcome, store, session, truth, failures, closeVars, history>>

ResyncSent ==
    /\ worker = "resyncing" /\ ~ stop
    /\ session' = [session EXCEPT !.requests = Append(@, 0)]
    /\ awaiting' = TRUE
    /\ worker' = "connected"
    /\ UNCHANGED <<retry, force, outcome, statusVars, store, truth, failures, closeVars, history>>

(* Seeded fault: any handshake counts as a healthy session.                *)
AnySession(lasted) == TRUE

(* Only a session that published data and lasted a keepalive interval      *)
(* resets the attempts.                                                    *)
Healthy(lasted) == status = "Ready" /\ lasted

(* The end of run_connection that leads to another connection.             *)
EndConnection(resync) ==
    /\ \E lasted \in BOOLEAN :
           /\ retry' = IF Healthy(lasted) THEN 0 ELSE retry
           /\ zeroRun' = IF status = "Ready" /\ lasted THEN 0 ELSE zeroRun
    /\ force' = resync
    /\ worker' = "backoff"
    /\ session' = NoSession

ResyncFails ==
    /\ worker = "resyncing" /\ ~ stop /\ Fail
    /\ EndConnection(TRUE)
    /\ UNCHANGED <<awaiting, outcome, statusVars, store, truth, closeVars, unresolved>>

(* Seeded fault: the pending full data set does not outlive the connection. *)
PlainReconnect == FALSE

(* reconnect_end: whether the next connection has to ask for everything.   *)
ReconnectEnd == awaiting

(* A read error, the end of the stream, any close frame but 4003, an       *)
(* oversized message, a ping or a pong that cannot be written.             *)
SessionLost ==
    /\ worker = "connected" /\ Fail
    /\ EndConnection(ReconnectEnd)
    /\ UNCHANGED <<awaiting, outcome, statusVars, store, truth, closeVars, unresolved>>

(* Close code 4003: no further connection.                                 *)
Refused ==
    /\ MayRefuse /\ worker = "connected"
    /\ SetStatus("Closed")
    /\ worker' = "signal"
    /\ session' = NoSession
    /\ UNCHANGED <<loopVars, store, truth, failures, closeVars, history>>
-----------------------------------------------------------------------------
(* Seeded fault: the attempts are not taken modulo the number of delays.   *)
UnwrappedAttempt == retry + 1

(* The attempt that follows; reconnect_delay reads it modulo the number of *)
(* delays (the saturation of a 64-bit counter is not reached).             *)
NextAttempt == (retry + 1) % Len(Delays)

Backoff ==
    /\ worker = "backoff"
    /\ SetStaleIfInitialized
    /\ retry' = NextAttempt
    /\ zeroRun' = IF Delays[retry + 1] = "zero" THEN zeroRun + 1 ELSE 0
    /\ worker' = "delaying"
    /\ UNCHANGED <<force, awaiting, outcome, store, session, truth, failures, closeVars,
                   unresolved>>

DelayEnds ==
    /\ worker = "delaying" /\ ~ stop
    /\ worker' = "top"
    /\ UNCHANGED <<loopVars, statusVars, store, session, truth, failures, closeVars, history>>

Exit ==
    /\ worker = "exit"
    /\ SetStatus("Closed")
    /\ worker' = "signal"
    /\ UNCHANGED <<loopVars, store, session, truth, failures, closeVars, history>>

(* Whatever the worker was in: the runtime and the connection are gone.    *)
Panic ==
    /\ MayPanic /\ worker \notin {"signal", "done"}
    /\ worker' = "signal"
    /\ session' = NoSession
    /\ UNCHANGED <<loopVars, statusVars, store, truth, failures, closeVars, history>>

(* Seeded fault: the thread has no guard.                                  *)
SignalUnguarded ==
    /\ worker = "signal"
    /\ worker' = "done"
    /\ UNCHANGED <<loopVars, statusVars, store, session, truth, failures, closeVars, history>>

(* The guard of the thread publishes Closed on the way out, after a panic  *)
(* too; then the completion that close waits for is signalled.             *)
Signal ==
    /\ worker = "signal"
    /\ SetStatus("Closed")
    /\ worker' = "done"
    /\ UNCHANGED <<loopVars, store, session, truth, failures, closeVars, history>>

WorkerStep ==
    \/ LoopTop \/ ConnectOk \/ ConnectFails \/ RequestSent \/ RequestFails
    \/ StopSeen \/ Receive \/ Announce \/ Handle \/ ResyncSent \/ ResyncFails
    \/ SessionLost \/ Refused \/ Backoff \/ DelayEnds \/ Exit \/ Panic \/ Signal
-----------------------------------------------------------------------------
(***************************************************************************)
(* The server (external).                                                  *)
(***************************************************************************)
EntriesNewerThan(stamp) ==
    SetToSeq({[id |-> id, at |-> truth[id].at, body |-> truth[id].body] :
                 id \in {i \in Stored(truth) : stamp = 0 \/ truth[i].at > stamp}})

ServerAnswers ==
    /\ session.requests # <<>>
    /\ LET stamp == Head(session.requests)
           reply == [type |-> IF stamp = 0 THEN "full" ELSE "patch",
                     data |-> EntriesNewerThan(stamp)]
       IN  session' = [session EXCEPT !.requests = Tail(@), !.inbox = Append(@, reply),
                                      !.subscribed = TRUE]
    /\ UNCHANGED <<worker, loopVars, statusVars, store, truth, failures, closeVars, history>>

Push(message) ==
    session' = IF session.subscribed
               THEN [session EXCEPT !.inbox = Append(@, message)]
               ELSE session

(* An edit gets a stamp above all others; with MayCollide an object may    *)
(* also change within the resolution of its stamp.                         *)
ServerEdits ==
    /\ Len(session.inbox) < MaxInbox
    /\ \E id \in Ids, at \in Stamps, body \in Bodies :
           /\ \/ at = NewestStamp(truth) + 1
              \/ /\ MayCollide /\ truth[id] # Absent
                 /\ at = truth[id].at /\ body # truth[id].body
           /\ truth' = [truth EXCEPT ![id] = [at |-> at, body |-> body]]
           /\ Push([type |-> "patch", data |-> <<[id |-> id, at |-> at, body |-> body]>>])
    /\ UNCHANGED <<worker, loopVars, statusVars, store, failures, closeVars, history>>

(* A message that is no data set: malformed, of another type or event.     *)
ServerChatters ==
    /\ worker \in {"requesting", "connected", "announce", "handle", "resyncing"}
    /\ Len(session.inbox) < MaxInbox
    /\ session' = [session EXCEPT !.inbox = Append(@, [type |-> "other", data |-> <<>>])]
    /\ UNCHANGED <<worker, loopVars, statusVars, store, truth, failures, closeVars, history>>

ServerStep == ServerAnswers \/ ServerEdits \/ ServerChatters
-----------------------------------------------------------------------------
(***************************************************************************)
(* close, called by any number of threads.                                 *)
(***************************************************************************)
notClosing == <<worker, loopVars, store, session, truth, failures, history>>

CloseSwap(c) ==
    /\ closer[c] = "idle"
    /\ closer' = [closer EXCEPT ![c] = IF closed THEN "late" ELSE "first"]
    /\ closed' = TRUE
    /\ UNCHANGED <<notClosing, gaveUp, statusVars, stop, closeComplete>>

CloseStop(c) ==
    /\ closer[c] = "first"
    /\ stop' = TRUE
    /\ closer' = [closer EXCEPT ![c] = "waiting"]
    /\ UNCHANGED <<notClosing, gaveUp, statusVars, closed, closeComplete>>

(* Seeded fault: a late closer does not wait.                              *)
CloseAtOnce(c) ==
    /\ closer[c] = "late"
    /\ closer' = [closer EXCEPT ![c] = "returned"]
    /\ UNCHANGED <<notClosing, gaveUp, statusVars, stop, closed, closeComplete>>

CloseLate(c) ==
    /\ closer[c] = "late"
    /\ closer' = [closer EXCEPT ![c] = IF closeComplete THEN "returned" ELSE "lateWaiting"]
    /\ UNCHANGED <<notClosing, gaveUp, statusVars, stop, closed, closeComplete>>

(* WorkerThread::wait: until the worker signalled or the time is over.     *)
WaitEnds == worker = "done" \/ MayTimeOut

CloseWaited(c) ==
    /\ closer[c] \in {"waiting", "lateWaiting"} /\ WaitEnds
    /\ closer' = [closer EXCEPT ![c] = IF @ = "waiting" THEN "marking" ELSE "lateMarking"]
    /\ gaveUp' = (gaveUp \/ worker # "done")
    /\ UNCHANGED <<notClosing, statusVars, stop, closed, closeComplete>>

CloseMark(c) ==
    /\ closer[c] \in {"marking", "lateMarking"}
    /\ SetStatus("Closed")
    /\ closer' = [closer EXCEPT ![c] = IF @ = "marking" THEN "completing" ELSE "returned"]
    /\ UNCHANGED <<notClosing, gaveUp, stop, closed, closeComplete>>

CloseComplete(c) ==
    /\ closer[c] = "completing"
    /\ closeComplete' = TRUE
    /\ closer' = [closer EXCEPT ![c] = "returned"]
    /\ UNCHANGED <<notClosing, gaveUp, statusVars, stop, closed>>

CloserStep(c) ==
    \/ CloseSwap(c) \/ CloseStop(c) \/ CloseLate(c) \/ CloseWaited(c)
    \/ CloseMark(c) \/ CloseComplete(c)

Next == WorkerStep \/ ServerStep \/ \E c \in Closers : CloserStep(c)
-----------------------------------------------------------------------------
(***************************************************************************)
(* Fairness.  The worker keeps running; a connection or write that does    *)
(* not fail completes; the unbiased select of a connection takes the stop  *)
(* branch eventually, however many messages arrive (hence SF); the server  *)
(* answers.  Nothing obliges a closer to call close, an edit to happen or  *)
(* a connection to fail.                                                   *)
(***************************************************************************)
Fairness ==
    /\ WF_vars(LoopTop) /\ WF_vars(ConnectOk) /\ WF_vars(RequestSent)
    /\ WF_vars(Receive) /\ WF_vars(Announce) /\ WF_vars(Handle) /\ WF_vars(ResyncSent)
    /\ WF_vars(Backoff) /\ WF_vars(DelayEnds) /\ WF_vars(Exit) /\ WF_vars(Signal)
    /\ SF_vars(StopSeen)
    /\ WF_vars(ServerAnswers)
    /\ \A c \in Closers :
           /\ WF_vars(CloseStop(c)) /\ WF_vars(CloseLate(c)) /\ WF_vars(CloseWaited(c))
           /\ WF_vars(CloseMark(c)) /\ WF_vars(CloseComplete(c))

Spec == Init /\ [][Next]_vars

FairSpec == Spec /\ Fairness
-----------------------------------------------------------------------------
(* Every variable has its type.                                            *)
TypeOK ==
    /\ worker \in {"top", "connecting", "requesting", "connected", "announce", "handle",
                   "resyncing", "backoff", "delaying", "exit", "signal", "done"}
    /\ retry \in 0 .. Len(Delays) - 1
    /\ force \in BOOLEAN /\ awaiting \in BOOLEAN
    /\ outcome \in {"none", "full", "patch", "ignored", "conflict"}
    /\ status \in Statuses /\ initialized \in BOOLEAN
    /\ store \in [items : ItemMaps, version : Stamps, populated : BOOLEAN]
    /\ session \in [requests : Seq(Stamps), inbox : Seq(Messages), subscribed : BOOLEAN,
                     delivered : BOOLEAN]
    /\ truth \in ItemMaps
    /\ failures \in 0 .. MaxFailures
    /\ stop \in BOOLEAN /\ closed \in BOOLEAN /\ closeComplete \in BOOLEAN
    /\ closer \in [Closers -> {"idle", "first", "late", "waiting", "lateWaiting", "marking",
                               "lateMarking", "completing", "returned"}]
    /\ gaveUp \in BOOLEAN /\ unresolved \in BOOLEAN /\ zeroRun \in Nat

(* The client evaluates once `initialized' is published; by then the store *)
(* it evaluates from holds a data set.                                     *)
InitializedIsPopulated == initialized => store.populated

(* From an attempt to connect on, until that connection has brought a data *)
(* set, a snapshot the client already serves is not called Ready.  Between *)
(* the end of a connection and what is published of it the status lags:    *)
(* Ready is still there until Stale replaces it before the delay           *)
(* ("backoff"), or Closed when the worker ends ("exit", "signal").         *)
DisconnectedIsNotReady ==
    status = "Ready" => session.delivered \/ worker \in {"backoff", "exit", "signal"}

(* Whenever the connection waits for the next message, a snapshot with an  *)
(* unresolved equal-version conflict is not called Ready.                  *)
ConflictIsNotReady == worker = "connected" /\ unresolved => status # "Ready"

(* The request for a full data set that a conflict calls for is not lost   *)
(* to a failed write, a reconnect or another conflict: whenever a          *)
(* connection waits for messages, the conflict is resolved or the server   *)
(* still has to answer, or has answered, with a full data set.             *)
FullIsOwed ==
    worker = "connected" /\ unresolved =>
        \/ \E i \in DOMAIN session.requests : session.requests[i] = 0
        \/ \E i \in DOMAIN session.inbox : session.inbox[i].type = "full"

(* A peer that accepts connections and drops them cannot drive the client  *)
(* into a reconnect loop without delays: without a healthy session in      *)
(* between, some delay of every round through reconnect_delays is waited.  *)
ZeroDelaysAreBounded == zeroRun < Len(Delays)

(* When close has returned in any of the closing threads, and no close     *)
(* gave up on the worker, the worker is gone and the status says so.  (A   *)
(* late close that finds one that gave up complete returns at once.)       *)
CloseWaitsForWorker ==
    (\E c \in Closers : closer[c] = "returned") /\ ~ gaveUp
        => worker = "done" /\ status = "Closed"

(* The promise Synchronizer states, on which the client is built: Ready    *)
(* and Stale are said of data only, and Closed at the latest when the      *)
(* worker is over, refused, stopped or panicked.                           *)
Promised ==
    INSTANCE Synchronizer WITH
        snapshot <- store, ended <- worker = "done", NoSnapshot <- EmptyStore,
        Snapshots <- [items : ItemMaps, version : Stamps, populated : {TRUE}]

ImplementsSynchronizer == Promised!SyncSafety

(* Once the stop signal is sent the worker ends and the status settles on  *)
(* Closed, even when close gave up waiting and messages keep arriving.     *)
StopsForGood == stop ~> [](worker = "done" /\ status = "Closed")

(* A conflict is resolved by a full data set, unless the client ends.      *)
ConflictsHeal == unresolved ~> (~ unresolved \/ worker = "done")

(* When edits and failures have ceased, the client serves the server's     *)
(* objects and says so: nothing was lost to a reconnect that continued     *)
(* from the store's version.                                               *)
Converges == <>[](store.items = truth /\ status = "Ready")

(* The text of ClientStatus::Closed in src/client.rs, "The client was      *)
(* closed": after close returned the status is Closed.                     *)
ClosedIsFinal == (\E c \in Closers : closer[c] = "returned") => status = "Closed"

(* The comment in handle_apply_result: with a conflict unresolved, the     *)
(* snapshot is served as stale until the requested full data set arrives.  *)
StaleUntilFull == awaiting /\ unresolved => status # "Ready"
=============================================================================
