-------------------------- MODULE MCSnapshotStore --------------------------
(***************************************************************************)
(* A small instance of SnapshotStore: two writers, one flag, one segment.  *)
(***************************************************************************)
EXTENDS SnapshotStore, TLC

CONSTANTS w1, w2, flag, segment, a, b

MCWriters == {w1, w2}
MCFlagKeys == {flag}
MCSegmentIds == {segment}
MCBodies == {a, b}
MCMinStamp == -1

Of(ids) == [id : ids, at : Stamps, body : Bodies]

(* Every data set of at most two objects, flags before segments, the empty *)
(* key with one object only.                                               *)
MCDataSets ==
    {<<>>} \cup {<<x>> : x \in Of(Ids)}
    \cup {<<x, y>> : x \in Of({flag}), y \in Of({flag, segment})}
    \cup {<<x, y>> : x \in Of({flag}), y \in [id : {EmptyId}, at : {MaxStamp}, body : Bodies]}

(* Writers and bodies are interchangeable: no definition names one of them. *)
MCSymmetry == Permutations(MCWriters) \cup Permutations(MCBodies)
=============================================================================
