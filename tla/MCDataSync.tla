----------------------------- MODULE MCDataSync -----------------------------
(***************************************************************************)
(* Small instances of DataSync.                                            *)
(***************************************************************************)
EXTENDS DataSync, TLC

CONSTANTS c1, c2, f1, f2, a, b

MCNone == {}
MCOneFlag == {f1}
MCTwoFlags == {f1, f2}
MCOneCloser == {c1}
MCTwoClosers == {c1, c2}
MCOneBody == {a}
MCTwoBodies == {a, b}
MCDelays == <<"zero", "nonzero">>
MCLongDelays == <<"zero", "nonzero", "zero">>
MCOneDelay == <<"nonzero">>
MCSymmetry == Permutations({f1, f2})
=============================================================================
