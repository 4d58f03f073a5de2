----------------------------- MODULE StoreData -----------------------------
(***************************************************************************)
(* The data the snapshot store holds, shared by the detailed store         *)
(* (SnapshotStore) and by the specification of what it promises            *)
(* (AtomicStore).  A flag or a segment is abstracted to its version, the   *)
(* `updated_at' stamp, and a body standing for everything else it carries  *)
(* (a tombstone is one more body).  Flags and segments live in two maps    *)
(* with the same rules, so one map over FlagKeys \cup SegmentIds holds     *)
(* both.                                                                   *)
(***************************************************************************)
EXTENDS Integers, Sequences, FiniteSetsExt

CONSTANTS
    FlagKeys,           \* keys of feature flags
    SegmentIds,         \* ids of segments
    EmptyId,            \* the empty key or id, which every loop skips
    MinStamp, MaxStamp, \* the range of updated_at (i64 in the code)
    Bodies,             \* everything in an object but its id and stamp
    Absent              \* "no object under this id"

Ids == FlagKeys \cup SegmentIds
Stamps == MinStamp .. MaxStamp
Object == [at : Stamps, body : Bodies]

(* One element of the `featureFlags' or `segments' array of a data set. *)
Entry == [id : Ids \cup {EmptyId}, at : Stamps, body : Bodies]

ASSUME StampsAssumption ==
    MinStamp \in Int /\ MaxStamp \in Int /\ MinStamp =< 0 /\ 0 =< MaxStamp

ASSUME DistinctAssumption ==
    EmptyId \notin Ids /\ Absent \notin Object

ItemMaps == [Ids -> Object \cup {Absent}]
NoItems == [id \in Ids |-> Absent]

(* What is stored of an entry. *)
ObjectOf(entry) == [at |-> entry.at, body |-> entry.body]

Stored(items) == {id \in Ids : items[id] # Absent}

(* Seeded fault: the segments are left out of the version.         *)
NewestFlagStamp(items) ==
    LET flags == Stored(items) \cap FlagKeys
    IN  IF flags = {} THEN 0 ELSE Max({items[id].at : id \in flags})

(* The version of a patched snapshot: the newest stored stamp, or the      *)
(* integer default when nothing is stored.                                 *)
NewestStamp(items) ==
    IF Stored(items) = {} THEN 0 ELSE Max({items[id].at : id \in Stored(items)})

(* An item map `new' serves, for every id, what `old' serves or something  *)
(* strictly newer: no id is lost, no stamp goes back, and no object is     *)
(* exchanged for another of the same stamp.                                *)
SameOrNewer(old, new) ==
    \A id \in Stored(old) :
        /\ new[id] # Absent
        /\ new[id] = old[id] \/ old[id].at < new[id].at
-----------------------------------------------------------------------------
(***************************************************************************)
(* The effect of a whole data set, stated without the order in which the   *)
(* code walks through it.                                                  *)
(***************************************************************************)
EmptyStore == [items |-> NoItems, version |-> 0, populated |-> FALSE]

Positions(id, data) == {i \in DOMAIN data : data[i].id = id}

(* A full data set replaces everything; of several objects with one id the *)
(* last one is kept.                                                       *)
Replaced(data) ==
    [id \in Ids |-> LET here == Positions(id, data)
                    IN  IF here = {} THEN Absent ELSE ObjectOf(data[Max(here)])]

(* The version of a full data set counts every object in it, those         *)
(* overwritten by a later one with the same id included.                   *)
ReplacedVersion(data) ==
    Max({0} \cup {data[i].at : i \in {j \in DOMAIN data : data[j].id # EmptyId}})

(* Of the objects a patch offers for an id, the newest counts, the first   *)
(* one on a tie; it is taken when the id is new or it is strictly newer.   *)
Offered(id, data) ==
    data[CHOOSE i \in Positions(id, data) :
            \A j \in Positions(id, data) :
                \/ data[j].at < data[i].at
                \/ data[j].at = data[i].at /\ i =< j]

Patched(items, data) ==
    [id \in Ids |->
        IF /\ Positions(id, data) # {}
           /\ items[id] = Absent \/ items[id].at < Offered(id, data).at
        THEN ObjectOf(Offered(id, data))
        ELSE items[id]]

(* A patch conflicts when one of its objects meets, under the items and    *)
(* the objects before it, the same stamp with another body.                *)
Conflicts(items, data) ==
    \E i \in DOMAIN data :
        /\ data[i].id # EmptyId
        /\ LET met == Patched(items, SubSeq(data, 1, i - 1))[data[i].id]
           IN  met # Absent /\ met.at = data[i].at /\ met.body # data[i].body

PatchResult(items, data) ==
    IF Conflicts(items, data) THEN "conflict"
    ELSE IF Patched(items, data) # items THEN "changed"
    ELSE "unchanged"

PopulatedStore(data) ==
    [items |-> Replaced(data), version |-> ReplacedVersion(data), populated |-> TRUE]

(* An unchanged patch of a populated store leaves its version alone; every *)
(* other patch publishes the version of the items it leaves.               *)
PatchedStore(store, data) ==
    LET items == Patched(store.items, data)
    IN  IF items = store.items /\ store.populated
        THEN store
        ELSE [items |-> items, version |-> NewestStamp(items), populated |-> TRUE]
=============================================================================
