-------------------------- MODULE MCEventProcessor --------------------------
(***************************************************************************)
(* Small instances of EventProcessor.                                      *)
(***************************************************************************)
EXTENDS EventProcessor, TLC

CONSTANTS e1, e2, e3, w1, w2, n1, c1, c2

MCNone == {}
MCOneEvent == {e1}
MCTwoEvents == {e1, e2}
MCThreeEvents == {e1, e2, e3}
MCOneWaiter == {w1}
MCTwoWaiters == {w1, w2}
MCOnePoker == {n1}
MCOneCloser == {c1}
MCTwoClosers == {c1, c2}

(* One event is larger than the others.                                    *)
MCBytesOf == [s \in SUBSET Producers |-> Cardinality(s) + Cardinality(s \cap {e2})]
=============================================================================
