-------------------------- MODULE MCStatusTracker --------------------------
(***************************************************************************)
(* Small instances of StatusTracker.                                       *)
(***************************************************************************)
EXTENDS StatusTracker

CONSTANTS s1, s2, w1, w2

MCSetters == {s1, s2}
MCWaiters == {w1, w2}
=============================================================================
