--------------------------- MODULE MCWorkerThread ---------------------------
(***************************************************************************)
(* A small instance of WorkerThread.                                       *)
(***************************************************************************)
EXTENDS WorkerThread

CONSTANTS c1, c2, c3

MCWaiters == {c1, c2, c3}
MCPatient == {c1, c2}
=============================================================================
