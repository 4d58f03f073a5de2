---------------------------- MODULE AtomicStore ----------------------------
(***************************************************************************)
(* What the snapshot store promises its callers: populate and patch calls  *)
(* of any number of threads take effect one at a time, each at one instant *)
(* between its start and its return, and the effect of a call is the one   *)
(* StoreData states for the whole data set.                                *)
(***************************************************************************)
EXTENDS StoreData

CONSTANTS Writers, DataSets, NoCall

VARIABLES
    store,    \* the published items, version and populated flag
    call,     \* the call each writer is in, or NoCall
    result    \* what each writer's last call returned

absVars == <<store, call, result>>

Results == {"none", "populated", "changed", "unchanged", "conflict"}
-----------------------------------------------------------------------------
AbsInit ==
    /\ store = EmptyStore
    /\ call = [w \in Writers |-> NoCall]
    /\ result = [w \in Writers |-> "none"]

Invoke(w) ==
    /\ call[w] = NoCall
    /\ \E op \in {"populate", "patch"}, data \in DataSets :
           call' = [call EXCEPT ![w] = [op |-> op, data |-> data]]
    /\ result' = [result EXCEPT ![w] = "none"]
    /\ UNCHANGED store

CommitPopulate(w) ==
    /\ call[w] # NoCall /\ call[w].op = "populate"
    /\ store' = PopulatedStore(call[w].data)
    /\ call' = [call EXCEPT ![w] = NoCall]
    /\ result' = [result EXCEPT ![w] = "populated"]

CommitPatch(w) ==
    /\ call[w] # NoCall /\ call[w].op = "patch"
    /\ store' = PatchedStore(store, call[w].data)
    /\ call' = [call EXCEPT ![w] = NoCall]
    /\ result' = [result EXCEPT ![w] = PatchResult(store.items, call[w].data)]

AbsNext == \E w \in Writers : Invoke(w) \/ CommitPopulate(w) \/ CommitPatch(w)

AbsSpec == AbsInit /\ [][AbsNext]_absVars
=============================================================================
