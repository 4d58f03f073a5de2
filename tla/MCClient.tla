------------------------------ MODULE MCClient ------------------------------
(***************************************************************************)
(* A small instance of Client.                                             *)
(***************************************************************************)
EXTENDS Client

CONSTANTS u, c1, c2, d

Snap(flag, insights, populated) == [flag |-> flag, insights |-> insights, populated |-> populated]

MCNoSnapshot == Snap("missing", FALSE, FALSE)

MCSnapshots == {Snap("served", TRUE, TRUE), Snap("served", FALSE, TRUE)}

MCCallers == {u}
MCClosers == {c1, c2}

(* What a client may be started with ...                                   *)
Modes ==
    LET Observed(draft) == [draft EXCEPT !.observer = TRUE]
        Offline(bootstrap) == [DefaultDraft EXCEPT !.offline = TRUE, !.bootstrap = bootstrap]
    IN  {Observed(DefaultDraft), DisableEvents(DefaultDraft, FALSE, FALSE),
         Observed(DisableEvents(DefaultDraft, TRUE, TRUE)),
         DisableEvents(DefaultDraft, TRUE, FALSE),
         Offline("none"), Observed(Offline("full"))}

(* ... and builders with one thing wrong.                                  *)
Faulty ==
    {[DefaultDraft EXCEPT !.secret = "invalid"],
     [DefaultDraft EXCEPT !.streaming_url.scheme = "http"],
     [DefaultDraft EXCEPT !.event_url.plain = FALSE],
     [DefaultDraft EXCEPT !.close_timeout = 0],
     [DefaultDraft EXCEPT !.start_wait = MaxConfigDuration + 1],
     [DefaultDraft EXCEPT !.connect_timeout = 6 * Second],
     [DefaultDraft EXCEPT !.reconnect_delays = <<>>],
     [DefaultDraft EXCEPT !.reconnect_delays = <<0, 0>>],
     [DefaultDraft EXCEPT !.max_events_in_queue = 0],
     [DefaultDraft EXCEPT !.max_send_event_attempts = 101],
     [DefaultDraft EXCEPT !.bootstrap = "full"],
     [DefaultDraft EXCEPT !.bootstrap = "other", !.offline = TRUE]}

MCCandidates == Modes \cup Faulty
=============================================================================
