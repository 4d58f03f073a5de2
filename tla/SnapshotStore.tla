--------------------------- MODULE SnapshotStore ---------------------------
(***************************************************************************)
(* The snapshot store of src/store.rs: writers serialised by write_lock    *)
(* build a new snapshot from a data set, one object per step, and publish  *)
(* it with a single pointer swap.  Next to the objects a snapshot carries  *)
(* the index prepared from each of them.                                   *)
(*                                                                         *)
(* A call that waits for write_lock has read and written nothing, so a     *)
(* call is modelled from the moment it holds the lock.  The two loops of a *)
(* call (flags, then segments) have the same body, so a data set is one    *)
(* sequence with its flags before its segments.                            *)
(***************************************************************************)
EXTENDS StoreData

CONSTANTS
    Writers,   \* threads that call populate and patch
    DataSets,  \* the data sets they pass
    NoWriter,  \* write_lock is free
    NoCall     \* (in the abstract store) a writer is in no call

ASSUME WritersAssumption == NoWriter \notin Writers

ASSUME DataSetsAssumption == DataSets \subseteq Seq(Entry)

ASSUME NoCallAssumption == NoCall \notin [op : {"populate", "patch"}, data : Seq(Entry)]

VARIABLES
    snapshot,  \* the published snapshot (the ArcSwap)
    lock,      \* the holder of write_lock
    work,      \* the local variables of each writer's call
    result     \* what each writer's last call returned

vars == <<snapshot, lock, work, result>>

Snapshots == [items : ItemMaps, prepared : ItemMaps, version : Stamps,
              populated : BOOLEAN]

EmptySnapshot == [items |-> NoItems, prepared |-> NoItems, version |-> 0,
                  populated |-> FALSE]

Works == [op : {"none", "populate", "patch"}, data : Seq(Entry), todo : Seq(Entry),
          current : Snapshots, items : ItemMaps, prepared : ItemMaps,
          version : Stamps, changed : BOOLEAN, conflict : BOOLEAN]

NoWork == [op |-> "none", data |-> <<>>, todo |-> <<>>,
           current |-> EmptySnapshot, items |-> NoItems, prepared |-> NoItems,
           version |-> 0, changed |-> FALSE, conflict |-> FALSE]

Init ==
    /\ snapshot = EmptySnapshot
    /\ lock = NoWriter
    /\ work = [w \in Writers |-> NoWork]
    /\ result = [w \in Writers |-> "none"]
-----------------------------------------------------------------------------
(* Seeded fault: the write lock is not taken.                      *)
NoMutualExclusion == TRUE

LockIsFree == lock = NoWriter

(* populate: fresh maps, version 0. *)
StartPopulate(w) ==
    /\ work[w].op = "none" /\ LockIsFree
    /\ lock' = w
    /\ \E data \in DataSets :
           work' = [work EXCEPT ![w] =
                       [NoWork EXCEPT !.op = "populate", !.data = data, !.todo = data]]
    /\ result' = [result EXCEPT ![w] = "none"]
    /\ UNCHANGED snapshot

PopulateEntry(w) ==
    /\ work[w].op = "populate" /\ work[w].todo # <<>>
    /\ LET entry == Head(work[w].todo)
           rest == [work[w] EXCEPT !.todo = Tail(@)]
       IN  work' = [work EXCEPT ![w] =
               IF entry.id = EmptyId THEN rest
               ELSE [rest EXCEPT !.version = Max({@, entry.at}),
                                 !.prepared[entry.id] = ObjectOf(entry),
                                 !.items[entry.id] = ObjectOf(entry)]]
    /\ UNCHANGED <<snapshot, lock, result>>

PublishPopulate(w) ==
    /\ work[w].op = "populate" /\ work[w].todo = <<>>
    /\ snapshot' = [items |-> work[w].items, prepared |-> work[w].prepared,
                    version |-> work[w].version, populated |-> TRUE]
    /\ result' = [result EXCEPT ![w] = "populated"]
    /\ work' = [work EXCEPT ![w] = NoWork]
    /\ lock' = NoWriter

(* patch: the maps of the snapshot that is current once the lock is held. *)
StartPatch(w) ==
    /\ work[w].op = "none" /\ LockIsFree
    /\ lock' = w
    /\ \E data \in DataSets :
           work' = [work EXCEPT ![w] =
                       [NoWork EXCEPT !.op = "patch", !.data = data, !.todo = data,
                                      !.current = snapshot,
                                      !.items = snapshot.items,
                                      !.prepared = snapshot.prepared]]
    /\ result' = [result EXCEPT ![w] = "none"]
    /\ UNCHANGED snapshot

ShouldReplace(existing, entry) == existing = Absent \/ existing.at < entry.at

Collides(existing, entry) ==
    existing # Absent /\ existing.at = entry.at /\ existing.body # entry.body

(* Seeded fault: the index is not rebuilt with the object.         *)
InsertedUnprepared(job, entry) ==
    [job EXCEPT !.items[entry.id] = ObjectOf(entry), !.changed = TRUE]

(* Insert the object into the items and into the prepared index. *)
Inserted(job, entry) ==
    [job EXCEPT !.prepared[entry.id] = ObjectOf(entry),
                !.items[entry.id] = ObjectOf(entry),
                !.changed = TRUE]

PatchEntry(w) ==
    /\ work[w].op = "patch" /\ work[w].todo # <<>>
    /\ LET entry == Head(work[w].todo)
           rest == [work[w] EXCEPT !.todo = Tail(@)]
       IN  work' = [work EXCEPT ![w] =
               IF entry.id = EmptyId THEN rest
               ELSE IF ShouldReplace(rest.items[entry.id], entry)
                    THEN Inserted(rest, entry)
               ELSE IF Collides(rest.items[entry.id], entry)
                    THEN [rest EXCEPT !.conflict = TRUE]
               ELSE rest]
    /\ UNCHANGED <<snapshot, lock, result>>

PatchOutcome(job) ==
    IF job.conflict THEN "conflict" ELSE IF job.changed THEN "changed" ELSE "unchanged"

(* Seeded fault: a first patch without news leaves the store       *)
(* unpopulated.                                                            *)
PublishChangedPatch(w) ==
    /\ work[w].op = "patch" /\ work[w].todo = <<>>
    /\ snapshot' = IF work[w].changed
                   THEN [items |-> work[w].items, prepared |-> work[w].prepared,
                         version |-> NewestStamp(work[w].items), populated |-> TRUE]
                   ELSE snapshot
    /\ result' = [result EXCEPT ![w] = PatchOutcome(work[w])]
    /\ work' = [work EXCEPT ![w] = NoWork]
    /\ lock' = NoWriter

PublishPatch(w) ==
    /\ work[w].op = "patch" /\ work[w].todo = <<>>
    /\ snapshot' = IF work[w].changed \/ ~ work[w].current.populated
                   THEN [items |-> work[w].items, prepared |-> work[w].prepared,
                         version |-> NewestStamp(work[w].items), populated |-> TRUE]
                   ELSE snapshot
    /\ result' = [result EXCEPT ![w] = PatchOutcome(work[w])]
    /\ work' = [work EXCEPT ![w] = NoWork]
    /\ lock' = NoWriter

Next ==
    \E w \in Writers :
        \/ StartPopulate(w) \/ PopulateEntry(w) \/ PublishPopulate(w)
        \/ StartPatch(w) \/ PatchEntry(w) \/ PublishPatch(w)

Spec == Init /\ [][Next]_vars
-----------------------------------------------------------------------------
(* Every variable has its type. *)
TypeOK ==
    /\ snapshot \in Snapshots
    /\ lock \in Writers \cup {NoWriter}
    /\ work \in [Writers -> Works]
    /\ result \in [Writers -> {"none", "populated", "changed", "unchanged", "conflict"}]

(* The prepared index a reader finds under an id was built from the very   *)
(* object it finds under that id: an evaluation never combines a flag with *)
(* the index of another version of it.                                     *)
PreparedIsCurrent == snapshot.prepared = snapshot.items

(* A data-sync request for everything newer than the version skips nothing *)
(* the store holds: no stored object is newer than the version.            *)
VersionCoversItems ==
    \A id \in Stored(snapshot.items) : snapshot.items[id].at =< snapshot.version

(* However the calls of several threads interleave, what is published when *)
(* a patch commits serves for every id what was published before or        *)
(* something strictly newer.  No update of another thread is lost, a       *)
(* tombstone is not undone by an older object, and an equal-version        *)
(* collision keeps the object already served.                              *)
PatchNeverRegresses ==
    [][(\E w \in Writers : work[w].op = "patch" /\ work'[w].op = "none")
          => SameOrNewer(snapshot.items, snapshot'.items)]_vars

(* The store implements the atomic one: a call that is under way publishes *)
(* nothing of its data, and then all of it at once.                        *)
Abstract ==
    INSTANCE AtomicStore
    WITH store <- [items |-> snapshot.items, version |-> snapshot.version,
                   populated |-> snapshot.populated],
         call <- [w \in Writers |-> IF work[w].op = "none" THEN NoCall
                                    ELSE [op |-> work[w].op, data |-> work[w].data]]

ImplementsAtomicStore == Abstract!AbsSpec
=============================================================================
