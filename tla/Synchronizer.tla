---------------------------- MODULE Synchronizer ----------------------------
(***************************************************************************)
(* What the data synchronizer promises to the client it belongs to: a      *)
(* status that says Ready only of data, that is Closed when its worker is  *)
(* over, and a worker that ends when it is asked to.  Between its own      *)
(* announcements and those of close calls that gave up waiting for it the  *)
(* status may take any turn.                                               *)
(***************************************************************************)
CONSTANTS Snapshots, NoSnapshot

VARIABLES
    snapshot,     \* what the store holds
    status, initialized,
    stop,         \* the worker was asked to end
    ended         \* it has

syncVars == <<snapshot, status, initialized, stop, ended>>
-----------------------------------------------------------------------------
(* StatusTracker::set.                                                     *)
SetStatus(s) ==
    /\ status' = s
    /\ initialized' = (initialized \/ s = "Ready")

SyncInit ==
    /\ snapshot = NoSnapshot
    /\ status = "Starting" /\ initialized = FALSE
    /\ stop = FALSE /\ ended = FALSE

(* The worker populates or patches the store, ...                          *)
StoreData ==
    /\ ~ ended
    /\ snapshot' \in Snapshots
    /\ UNCHANGED <<status, initialized, stop, ended>>

(* Seeded fault: the status before the data.                               *)
AnnounceAtOnce ==
    /\ ~ ended
    /\ SetStatus("Ready")
    /\ UNCHANGED <<snapshot, stop, ended>>

(* ... then says so.                                                       *)
AnnounceReady ==
    /\ ~ ended /\ snapshot # NoSnapshot
    /\ SetStatus("Ready")
    /\ UNCHANGED <<snapshot, stop, ended>>

(* The connection is lost, or a conflict was found.                        *)
AnnounceStale ==
    /\ ~ ended /\ snapshot # NoSnapshot
    /\ SetStatus("Stale")
    /\ UNCHANGED <<snapshot, stop, ended>>

(* The worker on its way out, or a close call.                             *)
AnnounceClosed ==
    /\ SetStatus("Closed")
    /\ UNCHANGED <<snapshot, stop, ended>>

(* Seeded fault: a worker that ends leaves the status as it was.           *)
EndSilently ==
    /\ ~ ended /\ ended' = TRUE
    /\ UNCHANGED <<snapshot, stop, status, initialized>>

End ==
    /\ ~ ended /\ ended' = TRUE
    /\ SetStatus("Closed")
    /\ UNCHANGED <<snapshot, stop>>

WorkerTurn == StoreData \/ AnnounceReady \/ AnnounceStale \/ AnnounceClosed \/ End

RequestStop ==
    /\ stop' = TRUE
    /\ UNCHANGED <<snapshot, status, initialized, ended>>

SyncNext == WorkerTurn \/ RequestStop

SyncSafety == SyncInit /\ [][SyncNext]_syncVars

(* A worker that was asked to end does.                                    *)
SyncSpec == SyncSafety /\ WF_syncVars(stop /\ End)
=============================================================================
