------------------------------ MODULE Options ------------------------------
(***************************************************************************)
(* FbOptionsBuilder (src/options.rs, src/options/validation.rs): what      *)
(* build accepts, and what the workers do with the limits it lets through. *)
(* Durations are numbers of some unit, the secret, the URLs and the        *)
(* bootstrap text are what the validation finds in them.                   *)
(***************************************************************************)
EXTENDS Integers, Sequences

CONSTANTS
    MaxConfigDuration,   \* 365 days
    Second               \* the unit of the defaults

ASSUME DurationsAssumption ==
    /\ MaxConfigDuration \in Nat /\ Second \in Nat
    /\ 0 < Second /\ 60 * Second <= MaxConfigDuration

Urls == [scheme : {"ws", "wss", "http", "https", "other", "unparsable"},
         plain : BOOLEAN]    \* a host, and no credentials, query or fragment

Drafts ==
    [secret : {"valid", "invalid"}, streaming_url : Urls, event_url : Urls,
     start_wait : Nat, connect_timeout : Nat, close_timeout : Nat,
     keep_alive_interval : Nat, auto_flush_interval : Nat, flush_timeout : Nat,
     event_request_timeout : Nat, send_event_retry_interval : Nat,
     reconnect_delays : Seq(Nat),
     max_events_in_queue : Nat, max_event_queue_size_bytes : Nat,
     max_events_per_request : Nat, max_send_event_attempts : Nat,
     max_ws_message_size : Nat,
     offline : BOOLEAN, disable_events : BOOLEAN, allow_track : BOOLEAN,
     observer : BOOLEAN, bootstrap : {"none", "full", "other"}]

(* FbOptionsBuilder::new.                                                  *)
DefaultDraft ==
    [secret |-> "valid",
     streaming_url |-> [scheme |-> "ws", plain |-> TRUE],
     event_url |-> [scheme |-> "http", plain |-> TRUE],
     start_wait |-> 5 * Second, connect_timeout |-> 3 * Second,
     close_timeout |-> 2 * Second, keep_alive_interval |-> 15 * Second,
     auto_flush_interval |-> 5 * Second, flush_timeout |-> 5 * Second,
     event_request_timeout |-> 2 * Second,
     send_event_retry_interval |-> Second \div 5,
     reconnect_delays |->
        <<0, Second, 2 * Second, 3 * Second, 5 * Second, 8 * Second, 13 * Second,
          21 * Second, 34 * Second, 55 * Second>>,
     max_events_in_queue |-> 10000, max_event_queue_size_bytes |-> 67108864,
     max_events_per_request |-> 50, max_send_event_attempts |-> 2,
     max_ws_message_size |-> 1048576,
     offline |-> FALSE, disable_events |-> FALSE, allow_track |-> TRUE,
     observer |-> FALSE, bootstrap |-> "none"]

(* The setter that sets two fields; every other one sets its own.          *)
DisableEvents(draft, disable, allow) ==
    [draft EXCEPT !.disable_events = disable, !.allow_track = allow]
-----------------------------------------------------------------------------
ValidUrls(d) ==
    /\ d.streaming_url.scheme \in {"ws", "wss"} /\ d.streaming_url.plain
    /\ d.event_url.scheme \in {"http", "https"} /\ d.event_url.plain

ValidDuration(t) == t # 0 /\ t <= MaxConfigDuration

ValidCapacity(n, maximum) == n # 0 /\ n <= maximum

(* Seeded fault: delays that are all zero pass.                            *)
ValidAnyDelays(delays) ==
    /\ delays # <<>>
    /\ \A i \in DOMAIN delays : delays[i] <= MaxConfigDuration

ValidDelays(delays) ==
    /\ delays # <<>>
    /\ \E i \in DOMAIN delays : delays[i] # 0
    /\ \A i \in DOMAIN delays : delays[i] <= MaxConfigDuration

ValidLimits(d) ==
    /\ ValidDuration(d.start_wait) /\ ValidDuration(d.connect_timeout)
    /\ ValidDuration(d.close_timeout) /\ ValidDuration(d.keep_alive_interval)
    /\ ValidDuration(d.auto_flush_interval) /\ ValidDuration(d.flush_timeout)
    /\ ValidDuration(d.event_request_timeout)
    /\ d.send_event_retry_interval <= MaxConfigDuration
    /\ d.start_wait >= d.connect_timeout
    /\ ValidDelays(d.reconnect_delays)
    /\ ValidCapacity(d.max_events_in_queue, 1000000)
    /\ ValidCapacity(d.max_event_queue_size_bytes, 1073741824)
    /\ ValidCapacity(d.max_events_per_request, 10000)
    /\ ValidCapacity(d.max_send_event_attempts, 100)
    /\ ValidCapacity(d.max_ws_message_size, 67108864)

ValidBootstrap(d) ==
    \/ d.bootstrap = "none"
    \/ d.bootstrap = "full" /\ d.offline

(* build.                                                                  *)
Accepts(d) ==
    d.secret = "valid" /\ ValidUrls(d) /\ ValidLimits(d) /\ ValidBootstrap(d)
-----------------------------------------------------------------------------
(* What the workers rely on: the synchronizer on a reconnect list that is  *)
(* not empty (it takes the attempt modulo its length) and not all zero (it *)
(* would spin); the event processor on a channel, a budget, a batch and an *)
(* attempt of at least one (a channel without places and a batch without   *)
(* events never make progress); the client on a wait that covers one       *)
(* connection attempt, and on bootstrap data that no server contradicts.   *)
Runnable(d) ==
    /\ d.reconnect_delays # <<>> /\ \E i \in DOMAIN d.reconnect_delays : d.reconnect_delays[i] > 0
    /\ 1 <= d.max_events_in_queue /\ 1 <= d.max_event_queue_size_bytes
    /\ 1 <= d.max_events_per_request /\ 1 <= d.max_send_event_attempts
    /\ 0 < d.connect_timeout /\ d.connect_timeout <= d.start_wait
    /\ d.bootstrap # "none" => d.offline
=============================================================================
