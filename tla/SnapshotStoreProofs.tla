------------------------ MODULE SnapshotStoreProofs ------------------------
(***************************************************************************)
(* Proofs about SnapshotStore, for every number of writers, keys and data  *)
(* sets.                                                                   *)
(***************************************************************************)
EXTENDS SnapshotStore, StoreDataProofs
-----------------------------------------------------------------------------
(***************************************************************************)
(* The inductive invariant.                                                *)
(***************************************************************************)

(* The holder of write_lock is the one writer inside a call.               *)
LockInv == \A w \in Writers : work[w].op # "none" <=> lock = w

(* A full data set under construction: its index is built along with its   *)
(* items, and the running version covers what was inserted so far.         *)
PopulateInv ==
    \A w \in Writers : work[w].op = "populate" =>
        /\ work[w].prepared = work[w].items
        /\ \A id \in Stored(work[w].items) : work[w].items[id].at =< work[w].version

(* A patch under construction starts from the snapshot that is still       *)
(* published (this is what the lock is for) and only goes forward from it. *)
PatchInv ==
    \A w \in Writers : work[w].op = "patch" =>
        /\ work[w].prepared = work[w].items
        /\ work[w].current = snapshot
        /\ SameOrNewer(snapshot.items, work[w].items)

IInv ==
    /\ TypeOK
    /\ LockInv
    /\ PopulateInv
    /\ PatchInv
    /\ PreparedIsCurrent
    /\ VersionCoversItems

(* The empty store has the types of a store.                               *)
LEMMA EmptyTypes ==
    /\ NoItems \in ItemMaps
    /\ Stored(NoItems) = {}
    /\ EmptySnapshot \in Snapshots
    /\ NoWork \in Works
<1>1. NoItems \in ItemMaps /\ Stored(NoItems) = {}
  BY EmptyItems
<1>2. 0 \in Stamps
  BY StampsAreIntegers
<1>3. EmptySnapshot \in Snapshots
  BY <1>1, <1>2 DEF EmptySnapshot, Snapshots
<1>4. NoWork \in Works
  BY <1>1, <1>2, <1>3 DEF NoWork, Works
<1> QED  BY <1>1, <1>3, <1>4

(* The invariant holds before any call.                                    *)
LEMMA InitIInv == Init => IInv
<1> SUFFICES ASSUME Init  PROVE IInv
  OBVIOUS
<1> USE EmptyTypes DEF Init
<1>1. TypeOK
  BY DEF TypeOK
<1>2. LockInv /\ PopulateInv /\ PatchInv
  BY WritersAssumption DEF LockInv, PopulateInv, PatchInv, NoWork
<1>3. PreparedIsCurrent /\ VersionCoversItems
  BY DEF PreparedIsCurrent, VersionCoversItems, EmptySnapshot
<1> QED  BY <1>1, <1>2, <1>3 DEF IInv

(* Inserting an object keeps items and index in step, and only goes        *)
(* forward when the object is new or strictly newer.                       *)
LEMMA InsertIsForward ==
    ASSUME NEW old \in ItemMaps, NEW items \in ItemMaps, NEW entry \in Entry,
           entry.id # EmptyId,
           SameOrNewer(old, items),
           ShouldReplace(items[entry.id], entry)
    PROVE  SameOrNewer(old, [items EXCEPT ![entry.id] = ObjectOf(entry)])
<1> DEFINE new == [items EXCEPT ![entry.id] = ObjectOf(entry)]
<1>1. entry.id \in Ids /\ ObjectOf(entry) \in Object /\ ObjectOf(entry) # Absent
  BY DistinctAssumption DEF Entry, ObjectOf, Object
<1>2. ObjectOf(entry).at = entry.at
  BY DEF ObjectOf
<1>3. SUFFICES ASSUME NEW id \in Stored(old)
               PROVE  /\ new[id] # Absent
                      /\ new[id] = old[id] \/ old[id].at < new[id].at
  BY DEF SameOrNewer
<1>4. id \in Ids /\ items[id] # Absent
      /\ (items[id] = old[id] \/ old[id].at < items[id].at)
  BY DEF SameOrNewer, Stored
<1>5. CASE id # entry.id
  BY <1>4, <1>5 DEF ItemMaps
<1>6. CASE id = entry.id
  <2>1. new[id] = ObjectOf(entry)
    BY <1>1, <1>6 DEF ItemMaps
  <2>2. items[id].at < entry.at
    BY <1>4, <1>6 DEF ShouldReplace
  <2>3. old[id].at \in Int /\ items[id].at \in Int /\ entry.at \in Int
    <3>1. old[id] \in Object /\ items[id] \in Object
      BY <1>4 DEF ItemMaps, Stored
    <3>2. Stamps \subseteq Int
      BY StampsAssumption DEF Stamps
    <3> QED  BY <3>1, <3>2 DEF Object, Entry
  <2>4. old[id].at < entry.at
    BY <1>4, <2>2, <2>3
  <2> QED  BY <1>1, <1>2, <2>1, <2>4
<1> QED  BY <1>5, <1>6

(* A writer that takes the lock for populate keeps the invariant.          *)
LEMMA StartPopulateStep ==
    ASSUME IInv, NEW w \in Writers, StartPopulate(w)
    PROVE  IInv'
<1> USE DEF IInv, TypeOK
<1>1. PICK data \in DataSets :
         work' = [work EXCEPT ![w] =
                    [NoWork EXCEPT !.op = "populate", !.data = data, !.todo = data]]
  BY DEF StartPopulate
<1> DEFINE job == [NoWork EXCEPT !.op = "populate", !.data = data, !.todo = data]
<1>2. job \in Works /\ job.op = "populate" /\ job.prepared = NoItems /\ job.items = NoItems
  BY EmptyTypes, DataSetsAssumption DEF Works, NoWork
<1>3. /\ work'[w] = job
      /\ \A v \in Writers \ {w} : work'[v] = work[v] /\ work[v].op = "none"
  BY <1>1, WritersAssumption DEF LockInv, StartPopulate, LockIsFree
<1>4. TypeOK'
  BY <1>1, <1>2 DEF StartPopulate
<1>5. LockInv'
  BY <1>2, <1>3, WritersAssumption DEF LockInv, StartPopulate
<1>6. PopulateInv'
  BY <1>2, <1>3, EmptyTypes DEF PopulateInv
<1>7. PatchInv'
  BY <1>2, <1>3 DEF PatchInv
<1>8. PreparedIsCurrent' /\ VersionCoversItems'
  BY DEF StartPopulate, PreparedIsCurrent, VersionCoversItems
<1> QED  BY <1>4, <1>5, <1>6, <1>7, <1>8

(* A writer that takes the lock for patch keeps it.                        *)
LEMMA StartPatchStep ==
    ASSUME IInv, NEW w \in Writers, StartPatch(w)
    PROVE  IInv'
<1> USE DEF IInv, TypeOK
<1>1. PICK data \in DataSets :
         work' = [work EXCEPT ![w] =
                    [NoWork EXCEPT !.op = "patch", !.data = data, !.todo = data,
                                   !.current = snapshot, !.items = snapshot.items,
                                   !.prepared = snapshot.prepared]]
  BY DEF StartPatch
<1> DEFINE job == [NoWork EXCEPT !.op = "patch", !.data = data, !.todo = data,
                                 !.current = snapshot, !.items = snapshot.items,
                                 !.prepared = snapshot.prepared]
<1>2. /\ job.op = "patch" /\ job.current = snapshot
      /\ job.items = snapshot.items /\ job.prepared = snapshot.prepared
  BY DEF NoWork
<1>3. job \in Works
  BY EmptyTypes, DataSetsAssumption DEF Works, NoWork, Snapshots
<1>4. /\ work'[w] = job
      /\ \A v \in Writers \ {w} : work'[v] = work[v] /\ work[v].op = "none"
  BY <1>1, WritersAssumption DEF LockInv, StartPatch, LockIsFree
<1>5. TypeOK'
  BY <1>1, <1>3 DEF StartPatch
<1>6. LockInv'
  BY <1>2, <1>4, WritersAssumption DEF LockInv, StartPatch
<1>7. PopulateInv'
  BY <1>2, <1>4 DEF PopulateInv
<1>8. PatchInv'
  <2>1. SameOrNewer(snapshot.items, snapshot.items)
    BY DEF SameOrNewer, Stored
  <2>2. snapshot' = snapshot
    BY DEF StartPatch
  <2>3. /\ work'[w].prepared = work'[w].items
        /\ work'[w].current = snapshot'
        /\ SameOrNewer(snapshot'.items, work'[w].items)
    BY <1>2, <1>4, <2>1, <2>2 DEF PreparedIsCurrent
  <2>4. \A v \in Writers : work'[v].op = "patch" => v = w
    BY <1>4
  <2> QED  BY <2>3, <2>4 DEF PatchInv
<1>9. PreparedIsCurrent' /\ VersionCoversItems'
  BY DEF StartPatch, PreparedIsCurrent, VersionCoversItems
<1> QED  BY <1>5, <1>6, <1>7, <1>8, <1>9

(* A step of one writer's loop touches that writer's locals only, and no   *)
(* other writer is in a call while it holds the lock.                      *)
LEMMA OthersIdle ==
    ASSUME IInv, NEW w \in Writers, work[w].op # "none"
    PROVE  lock = w /\ \A v \in Writers \ {w} : work[v].op = "none"
  BY DEF IInv, LockInv

(* One object of a full data set keeps it.                                 *)
LEMMA PopulateEntryStep ==
    ASSUME IInv, NEW w \in Writers, PopulateEntry(w)
    PROVE  IInv'
<1> USE DEF IInv, TypeOK
<1> DEFINE entry == Head(work[w].todo)
           rest == [work[w] EXCEPT !.todo = Tail(@)]
           inserted == [rest EXCEPT !.version = Max({@, entry.at}),
                                    !.prepared[entry.id] = ObjectOf(entry),
                                    !.items[entry.id] = ObjectOf(entry)]
           job == IF entry.id = EmptyId THEN rest ELSE inserted
<1>1. work[w] \in Works /\ entry \in Entry /\ Tail(work[w].todo) \in Seq(Entry)
  BY DEF PopulateEntry, Works
<1>2. rest \in Works /\ rest.op = "populate"
      /\ rest.items = work[w].items /\ rest.prepared = work[w].prepared
      /\ rest.version = work[w].version
  BY <1>1 DEF PopulateEntry, Works
<1>3. /\ rest.prepared = rest.items
      /\ \A id \in Stored(rest.items) : rest.items[id].at =< rest.version
  BY <1>2 DEF PopulateInv, PopulateEntry
<1>4. ASSUME entry.id # EmptyId
      PROVE  /\ inserted \in Works /\ inserted.op = "populate"
             /\ inserted.prepared = inserted.items
             /\ \A id \in Stored(inserted.items) :
                    inserted.items[id].at =< inserted.version
  <2>1. entry.id \in Ids /\ entry.at \in Stamps /\ ObjectOf(entry) \in Object
        /\ ObjectOf(entry).at = entry.at
    BY <1>1, <1>4 DEF Entry, ObjectOf, Object
  <2>2. rest.items \in ItemMaps /\ rest.version \in Stamps
    BY <1>2 DEF Works
  <2>3. /\ inserted.version = Max({rest.version, entry.at})
        /\ inserted.items = [rest.items EXCEPT ![entry.id] = ObjectOf(entry)]
        /\ inserted.prepared = [rest.prepared EXCEPT ![entry.id] = ObjectOf(entry)]
        /\ inserted.op = "populate"
    BY <1>2 DEF Works
  <2>4. /\ inserted.version \in Stamps
        /\ rest.version =< inserted.version /\ entry.at =< inserted.version
    BY <2>1, <2>2, <2>3, GreaterStamp
  <2>5. inserted.items \in ItemMaps /\ inserted.prepared \in ItemMaps
    BY <1>3, <2>1, <2>2, <2>3 DEF ItemMaps
  <2>6. inserted \in Works
    BY <1>2, <2>3, <2>4, <2>5 DEF Works
  <2>7. ASSUME NEW id \in Stored(inserted.items)
        PROVE  inserted.items[id].at =< inserted.version
    <3>1. CASE id = entry.id
      BY <2>1, <2>2, <2>3, <2>4, <3>1 DEF ItemMaps
    <3>2. CASE id # entry.id
      <4>1. inserted.items[id] = rest.items[id] /\ id \in Stored(rest.items)
        BY <2>2, <2>3, <2>7, <3>2 DEF ItemMaps, Stored
      <4>2. rest.items[id].at \in Stamps
        BY <2>2, <4>1 DEF ItemMaps, Stored, Object
      <4> QED  BY <1>3, <2>2, <2>4, <4>1, <4>2, StampsAssumption DEF Stamps
    <3> QED  BY <3>1, <3>2
  <2> QED  BY <1>3, <2>3, <2>6, <2>7
<1>5. /\ job \in Works /\ job.op = "populate" /\ job.prepared = job.items
      /\ \A id \in Stored(job.items) : job.items[id].at =< job.version
  BY <1>2, <1>3, <1>4
<1>6. work' = [work EXCEPT ![w] = job]
  BY DEF PopulateEntry
<1> HIDE DEF job
<1>7. /\ work'[w] = job
      /\ \A v \in Writers \ {w} : work'[v] = work[v] /\ work[v].op = "none"
      /\ lock = w
  BY <1>6, OthersIdle DEF PopulateEntry
<1>8. TypeOK'
  BY <1>5, <1>6 DEF PopulateEntry
<1>9. LockInv'
  BY <1>5, <1>7 DEF LockInv, PopulateEntry
<1>10. PopulateInv' /\ PatchInv'
  BY <1>5, <1>7 DEF PopulateInv, PatchInv
<1>11. PreparedIsCurrent' /\ VersionCoversItems'
  BY DEF PopulateEntry, PreparedIsCurrent, VersionCoversItems
<1> QED  BY <1>8, <1>9, <1>10, <1>11

(* One object of a patch keeps it: the items only move forward.            *)
LEMMA PatchEntryStep ==
    ASSUME IInv, NEW w \in Writers, PatchEntry(w)
    PROVE  IInv'
<1> USE DEF IInv, TypeOK
<1> DEFINE entry == Head(work[w].todo)
           rest == [work[w] EXCEPT !.todo = Tail(@)]
           job == IF entry.id = EmptyId THEN rest
                  ELSE IF ShouldReplace(rest.items[entry.id], entry)
                       THEN Inserted(rest, entry)
                  ELSE IF Collides(rest.items[entry.id], entry)
                       THEN [rest EXCEPT !.conflict = TRUE]
                  ELSE rest
           Good(j) == /\ j \in Works /\ j.op = "patch" /\ j.prepared = j.items
                      /\ j.current = snapshot
                      /\ SameOrNewer(snapshot.items, j.items)
<1>1. work[w] \in Works /\ entry \in Entry /\ Tail(work[w].todo) \in Seq(Entry)
  BY DEF PatchEntry, Works
<1>2. Good(rest)
  BY <1>1 DEF PatchEntry, Works, PatchInv
<1>3. Good([rest EXCEPT !.conflict = TRUE])
  BY <1>2 DEF Works
<1>4. ASSUME entry.id # EmptyId, ShouldReplace(rest.items[entry.id], entry)
      PROVE  Good(Inserted(rest, entry))
  <2> DEFINE j == Inserted(rest, entry)
  <2>1. rest.items \in ItemMaps /\ snapshot.items \in ItemMaps
    BY <1>2 DEF Works, Snapshots
  <2>2. /\ j.items = [rest.items EXCEPT ![entry.id] = ObjectOf(entry)]
        /\ j.prepared = [rest.prepared EXCEPT ![entry.id] = ObjectOf(entry)]
        /\ j.op = "patch" /\ j.current = snapshot
    BY <1>2 DEF Inserted, Works
  <2>3. SameOrNewer(snapshot.items, rest.items)
    BY <1>2
  <2>4. SameOrNewer(snapshot.items, [rest.items EXCEPT ![entry.id] = ObjectOf(entry)])
    BY <1>1, <1>4, <2>1, <2>3, InsertIsForward
  <2>5. entry.id \in Ids /\ ObjectOf(entry) \in Object
    BY <1>1, <1>4 DEF Entry, ObjectOf, Object
  <2>6. [rest.items EXCEPT ![entry.id] = ObjectOf(entry)] \in ItemMaps
    BY <2>1, <2>5 DEF ItemMaps
  <2>7. rest.prepared = rest.items
    BY <1>2
  <2>8. j.items \in ItemMaps /\ j.prepared = j.items /\ SameOrNewer(snapshot.items, j.items)
    BY <2>2, <2>4, <2>6, <2>7
  <2>9. j \in Works
    BY <1>2, <2>8 DEF Inserted, Works
  <2> QED  BY <2>2, <2>8, <2>9
<1>5. Good(job)
  BY <1>2, <1>3, <1>4
<1>6. work' = [work EXCEPT ![w] = job]
  BY DEF PatchEntry
<1> HIDE DEF job
<1>7. /\ work'[w] = job
      /\ \A v \in Writers \ {w} : work'[v] = work[v] /\ work[v].op = "none"
      /\ lock = w /\ snapshot' = snapshot
  BY <1>6, OthersIdle DEF PatchEntry
<1>8. TypeOK'
  BY <1>5, <1>6 DEF PatchEntry
<1>9. LockInv'
  BY <1>5, <1>7 DEF LockInv, PatchEntry
<1>10. PopulateInv'
  BY <1>5, <1>7 DEF PopulateInv
<1>11. PatchInv'
  <2>1. /\ work'[w].prepared = work'[w].items
        /\ work'[w].current = snapshot'
        /\ SameOrNewer(snapshot'.items, work'[w].items)
    BY <1>5, <1>7
  <2>2. \A v \in Writers : work'[v].op = "patch" => v = w
    BY <1>7
  <2> QED  BY <2>1, <2>2 DEF PatchInv
<1>12. PreparedIsCurrent' /\ VersionCoversItems'
  BY DEF PatchEntry, PreparedIsCurrent, VersionCoversItems
<1> QED  BY <1>8, <1>9, <1>10, <1>11, <1>12

(* Once a writer returns, no writer is in a call.                          *)
LEMMA ReturnStep ==
    ASSUME IInv, NEW w \in Writers, work[w].op # "none",
           work' = [work EXCEPT ![w] = NoWork], lock' = NoWriter
    PROVE  /\ work' \in [Writers -> Works] /\ lock' \in Writers \cup {NoWriter}
           /\ LockInv' /\ PopulateInv' /\ PatchInv'
<1>1. \A v \in Writers : work'[v].op = "none"
  BY OthersIdle DEF IInv, TypeOK, NoWork
<1>2. work' \in [Writers -> Works]
  BY EmptyTypes DEF IInv, TypeOK
<1> QED  BY <1>1, <1>2, WritersAssumption DEF LockInv, PopulateInv, PatchInv

(* Publishing a full data set keeps it.                                    *)
LEMMA PublishPopulateStep ==
    ASSUME IInv, NEW w \in Writers, PublishPopulate(w)
    PROVE  IInv'
<1> USE DEF IInv, TypeOK
<1>1. work[w] \in Works
  BY DEF PublishPopulate
<1>2. LockInv' /\ PopulateInv' /\ PatchInv'
      /\ work' \in [Writers -> Works] /\ lock' \in Writers \cup {NoWriter}
  BY ReturnStep DEF PublishPopulate
<1>3. /\ snapshot'.items = work[w].items /\ snapshot'.prepared = work[w].prepared
      /\ snapshot'.version = work[w].version
      /\ snapshot' \in Snapshots
  BY <1>1 DEF PublishPopulate, Works, Snapshots
<1>4. TypeOK'
  BY <1>2, <1>3 DEF PublishPopulate
<1>5. PreparedIsCurrent' /\ VersionCoversItems'
  BY <1>3 DEF PublishPopulate, PopulateInv, PreparedIsCurrent, VersionCoversItems
<1> QED  BY <1>2, <1>4, <1>5

(* Publishing a patch keeps it, also when the patch changed nothing.       *)
LEMMA PublishPatchStep ==
    ASSUME IInv, NEW w \in Writers, PublishPatch(w)
    PROVE  /\ IInv'
           /\ SameOrNewer(snapshot.items, snapshot'.items)
<1> USE DEF IInv, TypeOK
<1>1. /\ work[w] \in Works /\ work[w].prepared = work[w].items
      /\ SameOrNewer(snapshot.items, work[w].items)
  BY DEF PublishPatch, PatchInv
<1>2. LockInv' /\ PopulateInv' /\ PatchInv'
      /\ work' \in [Writers -> Works] /\ lock' \in Writers \cup {NoWriter}
  BY ReturnStep DEF PublishPatch
<1>3. /\ snapshot' \in Snapshots
      /\ PreparedIsCurrent' /\ VersionCoversItems'
      /\ SameOrNewer(snapshot.items, snapshot'.items)
  <2>1. CASE snapshot' = snapshot
    BY <2>1 DEF PreparedIsCurrent, VersionCoversItems, SameOrNewer, Stored
  <2>2. CASE snapshot' # snapshot
    <3>1. snapshot' = [items |-> work[w].items, prepared |-> work[w].prepared,
                       version |-> NewestStamp(work[w].items), populated |-> TRUE]
      BY <2>2 DEF PublishPatch
    <3>2. work[w].items \in ItemMaps
      BY <1>1 DEF Works
    <3>3. /\ NewestStamp(work[w].items) \in Stamps
          /\ \A id \in Stored(work[w].items) :
                 work[w].items[id].at =< NewestStamp(work[w].items)
      BY <3>2, NewestStampCovers
    <3> QED  BY <1>1, <3>1, <3>2, <3>3
             DEF Snapshots, PreparedIsCurrent, VersionCoversItems
  <2> QED  BY <2>1, <2>2
<1>4. TypeOK'
  BY <1>2, <1>3 DEF PublishPatch, PatchOutcome
<1> QED  BY <1>2, <1>3, <1>4
-----------------------------------------------------------------------------
(* Every step keeps the invariant, one case per action of a writer.        *)
LEMMA Inductive == IInv /\ [Next]_vars => IInv'
<1> SUFFICES ASSUME IInv, [Next]_vars  PROVE IInv'
  OBVIOUS
<1>1. ASSUME NEW w \in Writers, StartPopulate(w)  PROVE IInv'
  BY <1>1, StartPopulateStep
<1>2. ASSUME NEW w \in Writers, PopulateEntry(w)  PROVE IInv'
  BY <1>2, PopulateEntryStep
<1>3. ASSUME NEW w \in Writers, PublishPopulate(w)  PROVE IInv'
  BY <1>3, PublishPopulateStep
<1>4. ASSUME NEW w \in Writers, StartPatch(w)  PROVE IInv'
  BY <1>4, StartPatchStep
<1>5. ASSUME NEW w \in Writers, PatchEntry(w)  PROVE IInv'
  BY <1>5, PatchEntryStep
<1>6. ASSUME NEW w \in Writers, PublishPatch(w)  PROVE IInv'
  BY <1>6, PublishPatchStep
<1>7. CASE UNCHANGED vars
  BY <1>7 DEF vars, IInv, TypeOK, LockInv, PopulateInv, PatchInv,
              PreparedIsCurrent, VersionCoversItems
<1> QED  BY <1>1, <1>2, <1>3, <1>4, <1>5, <1>6, <1>7 DEF Next

(* The invariant holds in every reachable state.                           *)
LEMMA Invariance == Spec => []IInv
  BY InitIInv, Inductive, PTL DEF Spec

(* Every variable of the store keeps its type.                             *)
THEOREM TypeCorrect == Spec => []TypeOK
<1>1. IInv => TypeOK
  BY DEF IInv
<1> QED  BY <1>1, Invariance, PTL

(* No reader ever finds the index of another version of a flag: the        *)
(* published index always was prepared from the published objects.         *)
THEOREM PreparedAlwaysCurrent == Spec => []PreparedIsCurrent
<1>1. IInv => PreparedIsCurrent
  BY DEF IInv
<1> QED  BY <1>1, Invariance, PTL

(* The version a reconnect asks the server to continue from is at least    *)
(* the stamp of every stored object.                                       *)
THEOREM VersionAlwaysCovers == Spec => []VersionCoversItems
<1>1. IInv => VersionCoversItems
  BY DEF IInv
<1> QED  BY <1>1, Invariance, PTL

(* No patch, however the calls of any number of threads interleave, loses  *)
(* an object, takes one back to an older stamp, or exchanges one for       *)
(* another of the same stamp.                                              *)
THEOREM PatchesNeverRegress == Spec => PatchNeverRegresses
<1> DEFINE Committing == \E w \in Writers : work[w].op = "patch" /\ work'[w].op = "none"
           Forward == Committing => SameOrNewer(snapshot.items, snapshot'.items)
<1>1. ASSUME IInv, [Next]_vars  PROVE [Forward]_vars
  <2>1. SUFFICES ASSUME Committing  PROVE SameOrNewer(snapshot.items, snapshot'.items)
    OBVIOUS
  <2>2. ASSUME snapshot' = snapshot  PROVE SameOrNewer(snapshot.items, snapshot'.items)
    BY <2>2 DEF SameOrNewer, Stored
  <2>3. ASSUME NEW w \in Writers, PublishPatch(w)
        PROVE  SameOrNewer(snapshot.items, snapshot'.items)
    BY <1>1, <2>3, PublishPatchStep
  <2>4. ASSUME NEW w \in Writers, PublishPopulate(w)  PROVE FALSE
    <3>1. work[w].op = "populate" /\ work' = [work EXCEPT ![w] = NoWork]
      BY <2>4 DEF PublishPopulate
    <3>2. \A v \in Writers \ {w} : work[v].op = "none"
      BY <1>1, <3>1, OthersIdle
    <3> QED  BY <2>1, <3>1, <3>2
  <2> QED
    BY <1>1, <2>2, <2>3, <2>4
    DEF Next, vars, StartPopulate, PopulateEntry, StartPatch, PatchEntry
<1> QED  BY <1>1, Invariance, PTL DEF Spec, PatchNeverRegresses
-----------------------------------------------------------------------------
(***************************************************************************)
(* The store implements the atomic one.  What a call has built so far is   *)
(* the effect StoreData states of the objects it has walked through; with  *)
(* nothing left to walk through it is the effect of the whole data set.    *)
(***************************************************************************)
Walked(job, done) ==
    /\ job.data = done \o job.todo
    /\ job.op = "populate" =>
           job.items = Replaced(done) /\ job.version = ReplacedVersion(done)
    /\ job.op = "patch" =>
           /\ job.items = Patched(job.current.items, done)
           /\ job.conflict <=> Conflicts(job.current.items, done)
           /\ job.changed <=> job.items # job.current.items

ProgressInv ==
    \A w \in Writers : work[w].op # "none" => \E done \in Seq(Entry) : Walked(work[w], done)

(* The first object still to come is the next one walked through.          *)
LEMMA NextObject ==
    ASSUME NEW S, NEW done \in Seq(S), NEW todo \in Seq(S), todo # <<>>
    PROVE  Append(done, Head(todo)) \o Tail(todo) = done \o todo
  OBVIOUS

(* Before the first object nothing is done, ...                            *)
LEMMA NothingWalked ==
    ASSUME NEW data \in Seq(Entry), NEW items \in ItemMaps
    PROVE  /\ <<>> \in Seq(Entry) /\ data = <<>> \o data
           /\ Replaced(<<>>) = NoItems /\ ReplacedVersion(<<>>) = 0
           /\ Patched(items, <<>>) = items /\ ~ Conflicts(items, <<>>)
<1>1. data = <<>> \o data
  OBVIOUS
<1> QED  BY <1>1, ReplacedEmpty, PatchedEmpty

(* ... and after the last one everything.                                  *)
LEMMA EverythingWalked ==
    ASSUME NEW done \in Seq(Entry)
    PROVE  done \o <<>> = done
  OBVIOUS

(* A step of one writer leaves the progress of the others alone.           *)
LEMMA OthersProgress ==
    ASSUME ProgressInv, NEW w \in Writers,
           \A v \in Writers \ {w} : work'[v] = work[v],
           work'[w].op # "none" => \E done \in Seq(Entry) : Walked(work'[w], done)
    PROVE  ProgressInv'
<1>1. ASSUME NEW v \in Writers, work'[v].op # "none"
      PROVE  \E done \in Seq(Entry) : Walked(work'[v], done)
  <2>1. CASE v = w
    BY <1>1, <2>1
  <2>2. CASE v # w
    BY <1>1, <2>2 DEF ProgressInv
  <2> QED  BY <2>1, <2>2
<1> QED  BY <1>1 DEF ProgressInv

(* A call starts with nothing done.                                        *)
LEMMA StartProgress ==
    ASSUME IInv, ProgressInv, NEW w \in Writers, StartPopulate(w) \/ StartPatch(w)
    PROVE  ProgressInv'
<1> USE DEF IInv, TypeOK
<1>1. ASSUME NEW job, job = work'[w], job.data \in Seq(Entry), job.todo = job.data,
             \/ job.op = "populate" /\ job.items = NoItems /\ job.version = 0
             \/ /\ job.op = "patch" /\ job.current = snapshot /\ job.items = snapshot.items
                /\ job.changed = FALSE /\ job.conflict = FALSE
      PROVE  \E done \in Seq(Entry) : Walked(job, done)
  <2>1. snapshot.items \in ItemMaps
    BY DEF Snapshots
  <2>2. <<>> \in Seq(Entry) /\ job.data = <<>> \o job.todo
    BY <1>1, <2>1, NothingWalked
  <2>3. job.op = "populate" => job.items = Replaced(<<>>) /\ job.version = ReplacedVersion(<<>>)
    BY <1>1, <2>1, NothingWalked
  <2>4. ASSUME job.op = "patch"
        PROVE  /\ job.items = Patched(job.current.items, <<>>)
               /\ job.conflict <=> Conflicts(job.current.items, <<>>)
               /\ job.changed <=> job.items # job.current.items
    <3>1. job.current.items = snapshot.items /\ job.items = snapshot.items
          /\ job.changed = FALSE /\ job.conflict = FALSE
      BY <1>1, <2>4
    <3>2. Patched(snapshot.items, <<>>) = snapshot.items /\ ~ Conflicts(snapshot.items, <<>>)
      BY <1>1, <2>1, NothingWalked
    <3> QED  BY <3>1, <3>2
  <2>5. Walked(job, <<>>)
    BY <2>2, <2>3, <2>4 DEF Walked
  <2> QED  BY <2>2, <2>5
<1>2. CASE StartPopulate(w)
  <2>1. PICK data \in DataSets :
           work' = [work EXCEPT ![w] =
                      [NoWork EXCEPT !.op = "populate", !.data = data, !.todo = data]]
    BY <1>2 DEF StartPopulate
  <2>2. /\ work'[w].op = "populate" /\ work'[w].data = data /\ work'[w].todo = data
        /\ work'[w].items = NoItems /\ work'[w].version = 0
    BY <2>1 DEF NoWork
  <2>3. \E done \in Seq(Entry) : Walked(work'[w], done)
    BY <1>1, <2>2, DataSetsAssumption
  <2>4. \A v \in Writers \ {w} : work'[v] = work[v]
    BY <2>1
  <2> QED  BY <2>3, <2>4, OthersProgress
<1>3. CASE StartPatch(w)
  <2>1. PICK data \in DataSets :
           work' = [work EXCEPT ![w] =
                      [NoWork EXCEPT !.op = "patch", !.data = data, !.todo = data,
                                     !.current = snapshot, !.items = snapshot.items,
                                     !.prepared = snapshot.prepared]]
    BY <1>3 DEF StartPatch
  <2>2. /\ work'[w].op = "patch" /\ work'[w].data = data /\ work'[w].todo = data
        /\ work'[w].current = snapshot /\ work'[w].items = snapshot.items
        /\ work'[w].changed = FALSE /\ work'[w].conflict = FALSE
    BY <2>1 DEF NoWork
  <2>3. \E done \in Seq(Entry) : Walked(work'[w], done)
    BY <1>1, <2>2, DataSetsAssumption
  <2>4. \A v \in Writers \ {w} : work'[v] = work[v]
    BY <2>1
  <2> QED  BY <2>3, <2>4, OthersProgress
<1> QED  BY <1>2, <1>3

(* One more object of a full data set is one more object done.             *)
LEMMA PopulateEntryProgress ==
    ASSUME IInv, ProgressInv, NEW w \in Writers, PopulateEntry(w)
    PROVE  ProgressInv'
<1> USE DEF IInv, TypeOK
<1> DEFINE old == work[w]
           entry == Head(old.todo)
           new == work'[w]
<1>1. /\ old \in Works /\ old.op = "populate" /\ old.todo # <<>>
      /\ entry \in Entry
  BY DEF PopulateEntry, Works
<1>2. PICK done \in Seq(Entry) : Walked(old, done)
  BY <1>1 DEF ProgressInv
<1>3. /\ old.data = done \o old.todo
      /\ old.items = Replaced(done) /\ old.version = ReplacedVersion(done)
  BY <1>1, <1>2 DEF Walked
<1>4. /\ new.op = "populate" /\ new.data = old.data /\ new.todo = Tail(old.todo)
      /\ new.items = IF entry.id = EmptyId THEN old.items
                     ELSE [old.items EXCEPT ![entry.id] = ObjectOf(entry)]
      /\ new.version = IF entry.id = EmptyId THEN old.version
                       ELSE Max({old.version, entry.at})
  <2>1. CASE entry.id = EmptyId
    <3>1. new = [old EXCEPT !.todo = Tail(@)]
      BY <2>1 DEF PopulateEntry
    <3> QED  BY <1>1, <2>1, <3>1 DEF Works
  <2>2. CASE entry.id # EmptyId
    <3>1. new = [[old EXCEPT !.todo = Tail(@)]
                     EXCEPT !.version = Max({@, entry.at}),
                            !.prepared[entry.id] = ObjectOf(entry),
                            !.items[entry.id] = ObjectOf(entry)]
      BY <2>2 DEF PopulateEntry
    <3> QED  BY <1>1, <2>2, <3>1 DEF Works
  <2> QED  BY <2>1, <2>2
<1>5. \A v \in Writers \ {w} : work'[v] = work[v]
  BY DEF PopulateEntry
<1>6. old.todo \in Seq(Entry)
  BY <1>1 DEF Works
<1> HIDE DEF old, new, entry
<1>7. Append(done, entry) \in Seq(Entry)
  BY <1>1
<1>8. new.items = Replaced(Append(done, entry))
  BY <1>1, <1>3, <1>4, ReplacedAppend
<1>9. new.version = ReplacedVersion(Append(done, entry))
  BY <1>1, <1>3, <1>4, ReplacedVersionAppend
<1>10. new.data = Append(done, entry) \o new.todo
  <2>1. Append(done, entry) \o Tail(old.todo) = done \o old.todo
    BY <1>1, <1>6, NextObject DEF entry
  <2> QED  BY <2>1, <1>3, <1>4
<1>11. Walked(new, Append(done, entry))
  BY <1>4, <1>8, <1>9, <1>10 DEF Walked
<1> QED  BY <1>5, <1>7, <1>11, OthersProgress DEF new

(* An inserted object differs from what the patch started from.            *)
LEMMA InsertIsNews ==
    ASSUME NEW start \in ItemMaps, NEW items \in ItemMaps, NEW entry \in Entry,
           entry.id # EmptyId, SameOrNewer(start, items),
           ShouldReplace(items[entry.id], entry)
    PROVE  [items EXCEPT ![entry.id] = ObjectOf(entry)] # start
<1> DEFINE id == entry.id
           met == items[id]
<1>1. id \in Ids /\ ObjectOf(entry) # Absent /\ ObjectOf(entry).at = entry.at
      /\ entry.at \in Int
  BY EntryTypes, StampsAreIntegers
<1>2. [items EXCEPT ![id] = ObjectOf(entry)][id] = ObjectOf(entry)
  BY <1>1 DEF ItemMaps
<1>3. ObjectOf(entry) # start[id]
  <2>1. CASE start[id] = Absent
    BY <1>1, <2>1
  <2>2. CASE start[id] # Absent
    <3>1. /\ met # Absent /\ (met = start[id] \/ start[id].at < met.at)
      BY <1>1, <2>2 DEF SameOrNewer, Stored
    <3>2. met.at \in Int /\ start[id].at \in Int
      BY <1>1, <2>2, <3>1, StampsAreIntegers DEF ItemMaps, Object
    <3>3. met.at < entry.at
      BY <3>1 DEF ShouldReplace
    <3>4. start[id].at < entry.at
      BY <1>1, <3>1, <3>2, <3>3
    <3> QED  BY <1>1, <3>2, <3>4
  <2> QED  BY <2>1, <2>2
<1> QED  BY <1>2, <1>3

(* One more object of a patch is one more object done.                     *)
LEMMA PatchEntryProgress ==
    ASSUME IInv, ProgressInv, NEW w \in Writers, PatchEntry(w)
    PROVE  ProgressInv'
<1> USE DEF IInv, TypeOK
<1> DEFINE old == work[w]
           entry == Head(old.todo)
           new == work'[w]
           start == old.current.items
           met == old.items[entry.id]
           Inserts == entry.id # EmptyId /\ ShouldReplace(met, entry)
           Clashes == entry.id # EmptyId /\ Collides(met, entry)
<1>1. /\ old \in Works /\ old.op = "patch" /\ old.todo # <<>>
      /\ old.todo \in Seq(Entry) /\ entry \in Entry /\ Tail(old.todo) \in Seq(Entry)
  BY DEF PatchEntry, Works
<1>2. start \in ItemMaps /\ old.items \in ItemMaps /\ SameOrNewer(start, old.items)
  BY <1>1 DEF PatchInv, Works, Snapshots
<1>3. PICK done \in Seq(Entry) : Walked(old, done)
  BY <1>1 DEF ProgressInv
<1>4. /\ old.data = done \o old.todo
      /\ old.items = Patched(start, done)
      /\ old.conflict <=> Conflicts(start, done)
      /\ old.changed <=> old.items # start
  <2>1. old.op = "patch"
    BY <1>1
  <2> HIDE DEF old
  <2>2. old.data = done \o old.todo
    BY <1>3 DEF Walked
  <2>3. old.items = Patched(start, done)
    BY <1>3, <2>1 DEF Walked
  <2>4. old.conflict <=> Conflicts(start, done)
    BY <1>3, <2>1 DEF Walked
  <2>5. old.changed <=> old.items # start
    BY <1>3, <2>1 DEF Walked
  <2> HIDE DEF start
  <2> QED  BY <2>2, <2>3, <2>4, <2>5
<1>5. ~ (ShouldReplace(met, entry) /\ Collides(met, entry))
  <2>1. entry.at \in Int
    BY <1>1, EntryTypes, StampsAreIntegers
  <2> HIDE DEF met, entry
  <2> QED  BY <2>1 DEF ShouldReplace, Collides
<1>6. /\ new.op = "patch" /\ new.data = old.data /\ new.todo = Tail(old.todo)
      /\ new.current = old.current
      /\ new.items = IF Inserts THEN [old.items EXCEPT ![entry.id] = ObjectOf(entry)]
                     ELSE old.items
      /\ new.changed = IF Inserts THEN TRUE ELSE old.changed
      /\ new.conflict = IF Clashes THEN TRUE ELSE old.conflict
  <2> DEFINE rest == [old EXCEPT !.todo = Tail(@)]
  <2>1. /\ rest \in Works /\ rest.op = "patch" /\ rest.data = old.data
        /\ rest.todo = Tail(old.todo) /\ rest.current = old.current
        /\ rest.items = old.items /\ rest.changed = old.changed
        /\ rest.conflict = old.conflict
    BY <1>1 DEF Works
  <2>2. new = IF entry.id = EmptyId THEN rest
              ELSE IF ShouldReplace(met, entry) THEN Inserted(rest, entry)
              ELSE IF Collides(met, entry) THEN [rest EXCEPT !.conflict = TRUE]
              ELSE rest
    <3>1. work' = [work EXCEPT ![w] =
              IF entry.id = EmptyId THEN rest
              ELSE IF ShouldReplace(rest.items[entry.id], entry) THEN Inserted(rest, entry)
              ELSE IF Collides(rest.items[entry.id], entry) THEN [rest EXCEPT !.conflict = TRUE]
              ELSE rest]
      BY DEF PatchEntry
    <3> HIDE DEF rest
    <3> QED  BY <2>1, <3>1
  <2> HIDE DEF rest, new, old
  <2>3. CASE Inserts
    <3>1. new = Inserted(rest, entry)
      BY <2>2, <2>3
    <3> QED  BY <1>5, <2>1, <2>3, <3>1 DEF Inserted, Works
  <2>4. CASE Clashes
    <3>1. new = [rest EXCEPT !.conflict = TRUE] /\ ~ Inserts
      BY <1>5, <2>2, <2>4
    <3> QED  BY <2>1, <2>4, <3>1 DEF Works
  <2>5. CASE ~ Inserts /\ ~ Clashes
    <3>1. new = rest
      BY <2>2, <2>5
    <3> QED  BY <2>1, <2>5, <3>1
  <2> QED  BY <2>3, <2>4, <2>5
<1>7. \A v \in Writers \ {w} : work'[v] = work[v]
  BY DEF PatchEntry
<1> HIDE DEF old, new, entry, start
<1>8. Append(done, entry) \in Seq(Entry)
  BY <1>1
<1>9. new.items = Patched(start, Append(done, entry))
  <2>1. Patched(start, done)[entry.id] = met
    BY <1>4
  <2>2. Patched(start, Append(done, entry)) =
            IF entry.id # EmptyId /\ (met = Absent \/ met.at < entry.at)
            THEN [Patched(start, done) EXCEPT ![entry.id] = ObjectOf(entry)]
            ELSE Patched(start, done)
    BY <1>1, <1>2, <2>1, PatchedAppend
  <2> QED  BY <1>4, <1>6, <2>2 DEF ShouldReplace
<1>10. new.conflict <=> Conflicts(start, Append(done, entry))
  <2>1. Patched(start, done)[entry.id] = met
    BY <1>4
  <2>2. Conflicts(start, Append(done, entry)) <=>
            \/ Conflicts(start, done)
            \/ entry.id # EmptyId /\ met # Absent /\ met.at = entry.at /\ met.body # entry.body
    BY <1>1, <1>2, <2>1, ConflictsAppend
  <2>3. Clashes <=>
            entry.id # EmptyId /\ met # Absent /\ met.at = entry.at /\ met.body # entry.body
    BY DEF Collides
  <2> HIDE DEF Clashes, met
  <2> QED  BY <1>4, <1>6, <2>2, <2>3
<1>11. new.changed <=> new.items # start
  <2>1. Inserts => [old.items EXCEPT ![entry.id] = ObjectOf(entry)] # start
    BY <1>1, <1>2, InsertIsNews
  <2> HIDE DEF Inserts
  <2> QED  BY <1>4, <1>6, <2>1
<1>12. new.data = Append(done, entry) \o new.todo
  <2>1. Append(done, entry) \o Tail(old.todo) = done \o old.todo
    BY <1>1, NextObject DEF entry
  <2> QED  BY <2>1, <1>4, <1>6
<1>13. new.op = "patch" /\ new.current.items = start
  BY <1>6 DEF start
<1>14. Walked(new, Append(done, entry))
  BY <1>9, <1>10, <1>11, <1>12, <1>13 DEF Walked
<1> QED  BY <1>7, <1>8, <1>14, OthersProgress DEF new

(* Every step keeps the progress.                                          *)
LEMMA ProgressStep == IInv /\ ProgressInv /\ [Next]_vars => ProgressInv'
<1> SUFFICES ASSUME IInv, ProgressInv, [Next]_vars  PROVE ProgressInv'
  OBVIOUS
<1>1. ASSUME NEW w \in Writers, StartPopulate(w) \/ StartPatch(w)  PROVE ProgressInv'
  BY <1>1, StartProgress
<1>2. ASSUME NEW w \in Writers, PopulateEntry(w)  PROVE ProgressInv'
  BY <1>2, PopulateEntryProgress
<1>3. ASSUME NEW w \in Writers, PatchEntry(w)  PROVE ProgressInv'
  BY <1>3, PatchEntryProgress
<1>4. ASSUME NEW w \in Writers, PublishPopulate(w) \/ PublishPatch(w)  PROVE ProgressInv'
  <2>1. work' = [work EXCEPT ![w] = NoWork]
    BY <1>4 DEF PublishPopulate, PublishPatch
  <2>2. work'[w].op = "none" /\ \A v \in Writers \ {w} : work'[v] = work[v]
    BY <2>1 DEF IInv, TypeOK, NoWork
  <2> QED  BY <2>2, OthersProgress
<1>5. CASE UNCHANGED vars
  BY <1>5 DEF vars, ProgressInv
<1> QED  BY <1>1, <1>2, <1>3, <1>4, <1>5 DEF Next

(* The store and the calls the abstract store sees.                        *)
AbsStore == [items |-> snapshot.items, version |-> snapshot.version,
             populated |-> snapshot.populated]

AbsCall == [w \in Writers |-> IF work[w].op = "none" THEN NoCall
                              ELSE [op |-> work[w].op, data |-> work[w].data]]

(* The abstract store is the same data under the same operators.           *)
LEMMA SameOperators ==
    ASSUME NEW data, NEW items, NEW store
    PROVE  /\ Abstract!EmptyStore = EmptyStore
           /\ Abstract!PopulatedStore(data) = PopulatedStore(data)
           /\ Abstract!PatchedStore(store, data) = PatchedStore(store, data)
           /\ Abstract!PatchResult(items, data) = PatchResult(items, data)
<1> USE DEF Abstract!Ids, Ids, Abstract!ObjectOf, ObjectOf, Abstract!Positions, Positions,
            Abstract!Offered, Offered
<1>1. Abstract!EmptyStore = EmptyStore
  BY DEF Abstract!EmptyStore, EmptyStore, Abstract!NoItems, NoItems
<1>2. Abstract!PopulatedStore(data) = PopulatedStore(data)
  BY DEF Abstract!PopulatedStore, PopulatedStore, Abstract!Replaced, Replaced,
         Abstract!ReplacedVersion, ReplacedVersion, Abstract!Max, Max
<1>3. \A i, d : Abstract!Patched(i, d) = Patched(i, d)
  BY DEF Abstract!Patched, Patched
<1>4. \A i : Abstract!NewestStamp(i) = NewestStamp(i)
  BY DEF Abstract!NewestStamp, NewestStamp, Abstract!Stored, Stored, Abstract!Max, Max
<1>5. Abstract!PatchedStore(store, data) = PatchedStore(store, data)
  BY <1>3, <1>4 DEF Abstract!PatchedStore, PatchedStore
<1>6. Abstract!PatchResult(items, data) = PatchResult(items, data)
  BY <1>3 DEF Abstract!PatchResult, PatchResult, Abstract!Conflicts, Conflicts
<1> QED  BY <1>1, <1>2, <1>5, <1>6

(* What each writer's call is to the abstract store.                       *)
LEMMA CallOf ==
    ASSUME IInv
    PROVE  /\ AbsCall = [v \in Writers |-> AbsCall[v]]
           /\ \A w \in Writers :
                  /\ work[w].op = "none" => AbsCall[w] = NoCall
                  /\ work[w].op # "none" =>
                         /\ AbsCall[w] = [op |-> work[w].op, data |-> work[w].data]
                         /\ AbsCall[w] # NoCall
<1>1. ASSUME NEW w \in Writers, work[w].op # "none"
      PROVE  [op |-> work[w].op, data |-> work[w].data] # NoCall
  <2>1. work[w].op \in {"populate", "patch"} /\ work[w].data \in Seq(Entry)
    BY <1>1 DEF IInv, TypeOK, Works
  <2> QED  BY <2>1, NoCallAssumption
<1> QED  BY <1>1 DEF AbsCall

(* How the calls change when one writer's does.                            *)
LEMMA CallChanges ==
    ASSUME NEW w \in Writers, NEW job, work' = [work EXCEPT ![w] = job],
           work \in [Writers -> Works]
    PROVE  AbsCall' = [AbsCall EXCEPT ![w] =
                          IF job.op = "none" THEN NoCall ELSE [op |-> job.op, data |-> job.data]]
<1>1. work'[w] = job /\ \A v \in Writers \ {w} : work'[v] = work[v]
  OBVIOUS
<1>2. AbsCall' = [v \in Writers |-> IF work'[v].op = "none" THEN NoCall
                                    ELSE [op |-> work'[v].op, data |-> work'[v].data]]
  BY DEF AbsCall
<1> QED  BY <1>1, <1>2 DEF AbsCall

(* A step of a writer's loop is none of the abstract store.                *)
LEMMA EntryStutters ==
    ASSUME IInv, NEW w \in Writers, PopulateEntry(w) \/ PatchEntry(w)
    PROVE  UNCHANGED <<AbsStore, AbsCall, result>>
<1> USE DEF IInv, TypeOK
<1>1. work[w] \in Works
  OBVIOUS
<1>2. UNCHANGED <<snapshot, result>>
  BY DEF PopulateEntry, PatchEntry
<1>3. work'[w].op = work[w].op /\ work'[w].data = work[w].data
  <2> DEFINE entry == Head(work[w].todo)
             rest == [work[w] EXCEPT !.todo = Tail(@)]
  <2>1. rest.op = work[w].op /\ rest.data = work[w].data
    BY <1>1 DEF Works
  <2>2. CASE PopulateEntry(w)
    <3>1. work' = [work EXCEPT ![w] =
               IF entry.id = EmptyId THEN rest
               ELSE [rest EXCEPT !.version = Max({@, entry.at}),
                                 !.prepared[entry.id] = ObjectOf(entry),
                                 !.items[entry.id] = ObjectOf(entry)]]
      BY <2>2 DEF PopulateEntry
    <3> HIDE DEF rest, entry
    <3> QED  BY <2>1, <3>1
  <2>3. CASE PatchEntry(w)
    <3>1. work' = [work EXCEPT ![w] =
               IF entry.id = EmptyId THEN rest
               ELSE IF ShouldReplace(rest.items[entry.id], entry) THEN Inserted(rest, entry)
               ELSE IF Collides(rest.items[entry.id], entry) THEN [rest EXCEPT !.conflict = TRUE]
               ELSE rest]
      BY <2>3 DEF PatchEntry
    <3> HIDE DEF rest, entry
    <3> QED  BY <2>1, <3>1 DEF Inserted
  <2> QED  BY <2>2, <2>3
<1>4. \A v \in Writers \ {w} : work'[v] = work[v]
  BY DEF PopulateEntry, PatchEntry
<1>5. AbsStore' = AbsStore
  BY <1>2 DEF AbsStore
<1>6. AbsCall' = AbsCall
  BY <1>3, <1>4 DEF AbsCall
<1> QED  BY <1>2, <1>5, <1>6

(* What a call that is through publishes is the effect of its data set.    *)
LEMMA PopulatePublishes ==
    ASSUME IInv, ProgressInv, NEW w \in Writers, PublishPopulate(w)
    PROVE  AbsStore' = PopulatedStore(work[w].data)
<1> DEFINE job == work[w]
<1>1. job.op = "populate" /\ job.todo = <<>>
  BY DEF PublishPopulate
<1>2. PICK done \in Seq(Entry) : Walked(job, done)
  BY <1>1 DEF ProgressInv
<1>3. job.data = done \o job.todo /\ job.items = Replaced(done)
      /\ job.version = ReplacedVersion(done)
  BY <1>1, <1>2 DEF Walked
<1>4. job.data = done
  BY <1>1, <1>3, EverythingWalked
<1>5. /\ snapshot'.items = job.items /\ snapshot'.version = job.version
      /\ snapshot'.populated = TRUE
  BY DEF PublishPopulate
<1> QED  BY <1>3, <1>4, <1>5 DEF AbsStore, PopulatedStore

(* So is what a patch publishes and returns.                               *)
LEMMA PatchPublishes ==
    ASSUME IInv, ProgressInv, NEW w \in Writers, PublishPatch(w)
    PROVE  /\ AbsStore' = PatchedStore(AbsStore, work[w].data)
           /\ PatchOutcome(work[w]) = PatchResult(AbsStore.items, work[w].data)
<1> DEFINE job == work[w]
           items == Patched(snapshot.items, job.data)
<1>1. job.op = "patch" /\ job.todo = <<>>
  BY DEF PublishPatch
<1>2. job.current = snapshot /\ snapshot \in Snapshots
  BY <1>1 DEF IInv, TypeOK, PatchInv
<1>3. PICK done \in Seq(Entry) : Walked(job, done)
  BY <1>1 DEF ProgressInv
<1>4. job.data = done \o job.todo
  BY <1>3 DEF Walked
<1>5. job.data = done
  BY <1>1, <1>4, EverythingWalked
<1>6. job.items = items
  BY <1>1, <1>2, <1>3, <1>5 DEF Walked
<1>7. job.conflict <=> Conflicts(snapshot.items, job.data)
  BY <1>1, <1>2, <1>3, <1>5 DEF Walked
<1>8. job.changed <=> items # snapshot.items
  BY <1>1, <1>2, <1>3, <1>5, <1>6 DEF Walked
<1>9. AbsStore.items = snapshot.items /\ AbsStore.populated = snapshot.populated
  BY DEF AbsStore
<1>10. PatchOutcome(job) = PatchResult(AbsStore.items, job.data)
  BY <1>7, <1>8, <1>9 DEF PatchOutcome, PatchResult
<1>11. AbsStore' = PatchedStore(AbsStore, job.data)
  <2>1. CASE job.changed \/ ~ snapshot.populated
    <3>1. /\ snapshot'.items = job.items /\ snapshot'.version = NewestStamp(job.items)
          /\ snapshot'.populated = TRUE
      BY <1>2, <2>1 DEF PublishPatch
    <3>2. AbsStore' = [items |-> items, version |-> NewestStamp(items), populated |-> TRUE]
      BY <1>6, <3>1 DEF AbsStore
    <3> QED  BY <1>8, <1>9, <2>1, <3>2 DEF PatchedStore
  <2>2. CASE ~ (job.changed \/ ~ snapshot.populated)
    <3>1. snapshot' = snapshot
      BY <1>2, <2>2 DEF PublishPatch
    <3>2. AbsStore' = AbsStore
      BY <3>1 DEF AbsStore
    <3> QED  BY <1>8, <1>9, <2>2, <3>2 DEF PatchedStore
  <2> QED  BY <2>1, <2>2
<1> QED  BY <1>10, <1>11

(* Every step of the store is a step of the atomic store, or none.         *)
LEMMA StepRefines ==
    ASSUME IInv, ProgressInv, [Next]_vars
    PROVE  [Abstract!AbsNext]_<<AbsStore, AbsCall, result>>
<1> USE DEF IInv, TypeOK
<1>1. ASSUME NEW w \in Writers, StartPopulate(w) \/ StartPatch(w)
      PROVE  Abstract!Invoke(w)
  <2>1. PICK op \in {"populate", "patch"}, data \in DataSets :
            \E job : /\ work' = [work EXCEPT ![w] = job]
                     /\ job.op = op /\ job.data = data
    <3>1. CASE StartPopulate(w)
      <4>1. PICK data \in DataSets :
               work' = [work EXCEPT ![w] =
                          [NoWork EXCEPT !.op = "populate", !.data = data, !.todo = data]]
        BY <3>1 DEF StartPopulate
      <4> DEFINE job == [NoWork EXCEPT !.op = "populate", !.data = data, !.todo = data]
      <4>2. job.op = "populate" /\ job.data = data
        BY DEF NoWork
      <4> HIDE DEF job
      <4> QED  BY <4>1, <4>2 DEF job
    <3>2. CASE StartPatch(w)
      <4>1. PICK data \in DataSets :
               work' = [work EXCEPT ![w] =
                          [NoWork EXCEPT !.op = "patch", !.data = data, !.todo = data,
                                         !.current = snapshot, !.items = snapshot.items,
                                         !.prepared = snapshot.prepared]]
        BY <3>2 DEF StartPatch
      <4> DEFINE job == [NoWork EXCEPT !.op = "patch", !.data = data, !.todo = data,
                                       !.current = snapshot, !.items = snapshot.items,
                                       !.prepared = snapshot.prepared]
      <4>2. job.op = "patch" /\ job.data = data
        BY DEF NoWork
      <4> HIDE DEF job
      <4> QED  BY <4>1, <4>2 DEF job
    <3> QED  BY <1>1, <3>1, <3>2
  <2>2. AbsCall' = [AbsCall EXCEPT ![w] = [op |-> op, data |-> data]]
    BY <2>1, CallChanges
  <2>3. /\ AbsCall[w] = NoCall
        /\ result' = [result EXCEPT ![w] = "none"]
        /\ AbsStore' = AbsStore
    BY <1>1, CallOf DEF StartPopulate, StartPatch, AbsStore
  <2> QED  BY <2>2, <2>3 DEF Abstract!Invoke, AbsStore, AbsCall
<1>2. ASSUME NEW w \in Writers, PopulateEntry(w) \/ PatchEntry(w)
      PROVE  UNCHANGED <<AbsStore, AbsCall, result>>
  BY <1>2, EntryStutters
<1>3. ASSUME NEW w \in Writers, PublishPopulate(w)
      PROVE  Abstract!CommitPopulate(w)
  <2>1. /\ AbsCall[w] # NoCall /\ AbsCall[w].op = "populate"
        /\ AbsCall[w].data = work[w].data
    <3>1. work[w].op = "populate"
      BY <1>3 DEF PublishPopulate
    <3>2. AbsCall[w] = [op |-> work[w].op, data |-> work[w].data] /\ AbsCall[w] # NoCall
      BY <3>1, CallOf
    <3> QED  BY <3>1, <3>2
  <2>2. AbsCall' = [AbsCall EXCEPT ![w] = NoCall]
    <3>1. work' = [work EXCEPT ![w] = NoWork] /\ NoWork.op = "none"
      BY <1>3 DEF PublishPopulate, NoWork
    <3> QED  BY <3>1, CallChanges
  <2>3. AbsStore' = Abstract!PopulatedStore(AbsCall[w].data)
    BY <1>3, <2>1, PopulatePublishes, SameOperators
  <2>4. result' = [result EXCEPT ![w] = "populated"]
    BY <1>3 DEF PublishPopulate
  <2> QED  BY <2>1, <2>2, <2>3, <2>4 DEF Abstract!CommitPopulate, AbsStore, AbsCall
<1>4. ASSUME NEW w \in Writers, PublishPatch(w)
      PROVE  Abstract!CommitPatch(w)
  <2>1. /\ AbsCall[w] # NoCall /\ AbsCall[w].op = "patch"
        /\ AbsCall[w].data = work[w].data
    <3>1. work[w].op = "patch"
      BY <1>4 DEF PublishPatch
    <3>2. AbsCall[w] = [op |-> work[w].op, data |-> work[w].data] /\ AbsCall[w] # NoCall
      BY <3>1, CallOf
    <3> QED  BY <3>1, <3>2
  <2>2. AbsCall' = [AbsCall EXCEPT ![w] = NoCall]
    <3>1. work' = [work EXCEPT ![w] = NoWork] /\ NoWork.op = "none"
      BY <1>4 DEF PublishPatch, NoWork
    <3> QED  BY <3>1, CallChanges
  <2>3. AbsStore' = Abstract!PatchedStore(AbsStore, AbsCall[w].data)
    BY <1>4, <2>1, PatchPublishes, SameOperators
  <2>4. result' = [result EXCEPT ![w] = Abstract!PatchResult(AbsStore.items, AbsCall[w].data)]
    BY <1>4, <2>1, PatchPublishes, SameOperators DEF PublishPatch
  <2> QED  BY <2>1, <2>2, <2>3, <2>4 DEF Abstract!CommitPatch, AbsStore, AbsCall
<1>5. CASE UNCHANGED vars
  BY <1>5 DEF vars, AbsStore, AbsCall
<1> QED  BY <1>1, <1>2, <1>3, <1>4, <1>5 DEF Next, Abstract!AbsNext

(* However the calls of any number of threads interleave, the store a      *)
(* reader sees is the one the calls leave when each takes effect at one    *)
(* instant, with all of its data: no reader finds half a data set.         *)
THEOREM StoreIsAtomic == Spec => ImplementsAtomicStore
<1>1. ASSUME Init
      PROVE  Abstract!AbsInit
  <2>1. AbsStore = EmptyStore /\ AbsCall = [w \in Writers |-> NoCall]
    BY <1>1 DEF Init, EmptySnapshot, EmptyStore, NoWork, AbsStore, AbsCall
  <2> QED  BY <1>1, <2>1, SameOperators DEF Init, Abstract!AbsInit, AbsStore, AbsCall
<1>2. Init => ProgressInv
  BY DEF Init, NoWork, ProgressInv
<1>3. IInv /\ ProgressInv /\ [Next]_vars => [Abstract!AbsNext]_(Abstract!absVars)
  BY StepRefines DEF AbsStore, AbsCall, Abstract!absVars
<1> QED
  BY <1>1, <1>2, <1>3, ProgressStep, Invariance, PTL
     DEF Spec, ImplementsAtomicStore, Abstract!AbsSpec
=============================================================================
