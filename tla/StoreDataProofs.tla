--------------------------- MODULE StoreDataProofs ---------------------------
(***************************************************************************)
(* What the operators of StoreData return, for every set of keys and every *)
(* range of stamps, and how the effect of a data set grows with one more   *)
(* object: the step from the effect StoreData states for a whole data set  *)
(* to the loops of the code, which walk through it.                        *)
(***************************************************************************)
EXTENDS StoreData, NaturalsInduction, WellFoundedInduction, TLAPS

(* A non-empty set of integers with an upper bound has a greatest element: *)
(* the distances to the bound have a least one.                            *)
LEMMA GreatestInteger ==
    ASSUME NEW bound \in Int, NEW S \in SUBSET Int, S # {}, \A x \in S : x =< bound
    PROVE  Max(S) \in S /\ \A y \in S : y =< Max(S)
<1> DEFINE D == {bound - x : x \in S}
<1>0. \A x \in S : x \in Int /\ bound - x \in Nat
  OBVIOUS
<1>1. D \subseteq Nat /\ D # {}
  BY <1>0
<1>2. PICK d \in D : \A e \in D : ~ (<<e, d>> \in OpToRel(<, Nat))
  BY <1>1, NatLessThanWellFounded, WFMin, Zenon
<1>3. \A e \in D : ~ (e < d)
  BY <1>1, <1>2 DEF OpToRel
<1>4. PICK x \in S : d = bound - x
  OBVIOUS
<1>5. \A y \in S : x >= y
  BY <1>3, <1>4
<1>6. \E z \in S : \A y \in S : z >= y
  BY <1>5
<1>7. Max(S) \in S /\ \A y \in S : Max(S) >= y
  BY <1>6 DEF Max
<1> QED  BY <1>7

(* The greatest element is the one that bounds the others.                 *)
LEMMA MaxIs ==
    ASSUME NEW S \in SUBSET Int, NEW m \in S, \A y \in S : y =< m
    PROVE  Max(S) = m
<1>1. m \in Int /\ S # {}
  OBVIOUS
<1>2. Max(S) \in S /\ \A y \in S : y =< Max(S)
  BY <1>1, GreatestInteger
<1>3. Max(S) \in Int /\ Max(S) =< m /\ m =< Max(S)
  BY <1>2
<1> QED  BY <1>1, <1>3

(* Stamps are integers, and 0 is one of them.                              *)
LEMMA StampsAreIntegers == Stamps \subseteq Int /\ 0 \in Stamps
  BY StampsAssumption DEF Stamps

(* A non-empty set of stamps has a greatest one.                           *)
LEMMA GreatestStamp ==
    ASSUME NEW S \in SUBSET Stamps, S # {}
    PROVE  Max(S) \in S /\ \A y \in S : y =< Max(S)
<1>1. S \in SUBSET Int /\ MaxStamp \in Int /\ \A x \in S : x =< MaxStamp
  BY StampsAssumption DEF Stamps
<1> QED  BY <1>1, GreatestInteger

(* The greater of two stamps is a stamp and bounds both.                   *)
LEMMA GreaterStamp ==
    ASSUME NEW x \in Stamps, NEW y \in Stamps
    PROVE  Max({x, y}) \in Stamps /\ x =< Max({x, y}) /\ y =< Max({x, y})
  BY GreatestStamp

(* A non-empty set of positions has a last one.                            *)
LEMMA LastPosition ==
    ASSUME NEW n \in Nat, NEW S \in SUBSET (1 .. n), S # {}
    PROVE  Max(S) \in S /\ \A y \in S : y =< Max(S)
<1>1. S \in SUBSET Int /\ n \in Int /\ \A x \in S : x =< n
  OBVIOUS
<1> QED  BY <1>1, GreatestInteger

(* ... and a first one.                                                    *)
LEMMA FirstPosition ==
    ASSUME NEW n \in Nat, NEW S \in SUBSET (1 .. n), S # {}
    PROVE  \E x \in S : \A y \in S : x =< y
<1> DEFINE D == {n - x : x \in S}
<1>0. \A x \in S : x \in Int /\ n - x \in Int /\ n - x =< n
  OBVIOUS
<1>1. n \in Int /\ D \in SUBSET Int /\ D # {} /\ \A d \in D : d =< n
  <2>1. n \in Int
    OBVIOUS
  <2>2. D \in SUBSET Int /\ D # {} /\ \A d \in D : d =< n
    BY <1>0
  <2> QED  BY <2>1, <2>2
<1> HIDE DEF D
<1>2. Max(D) \in D /\ \A d \in D : d =< Max(D)
  BY <1>1, GreatestInteger
<1>3. PICK x \in S : Max(D) = n - x
  BY <1>2 DEF D
<1>4. \A y \in S : n - y =< n - x
  BY <1>2, <1>3 DEF D
<1>5. \A y \in S : x =< y
  BY <1>0, <1>4
<1> QED  BY <1>5

(* The version of a patched snapshot is a stamp no stored object exceeds.  *)
LEMMA NewestStampCovers ==
    ASSUME NEW items \in ItemMaps
    PROVE  /\ NewestStamp(items) \in Stamps
           /\ \A id \in Stored(items) : items[id].at =< NewestStamp(items)
<1>1. \A id \in Stored(items) : items[id].at \in Stamps
  BY DEF Stored, ItemMaps, Object
<1>2. CASE Stored(items) = {}
  BY <1>2, StampsAreIntegers DEF NewestStamp
<1>3. CASE Stored(items) # {}
  <2> DEFINE S == {items[id].at : id \in Stored(items)}
  <2>1. S \in SUBSET Stamps /\ S # {}
    BY <1>1, <1>3
  <2>2. Max(S) \in S /\ \A y \in S : y =< Max(S)
    BY <2>1, GreatestStamp
  <2>3. NewestStamp(items) = Max(S)
    BY <1>3 DEF NewestStamp
  <2> QED  BY <2>1, <2>2, <2>3
<1> QED  BY <1>2, <1>3

(* The store starts empty, and an empty one stores nothing.                *)
LEMMA EmptyItems == NoItems \in ItemMaps /\ Stored(NoItems) = {}
  BY DEF NoItems, ItemMaps, Stored

(* An entry that is not skipped has an id, and what is stored of it is an  *)
(* object of its stamp.                                                    *)
LEMMA EntryTypes ==
    ASSUME NEW entry \in Entry
    PROVE  /\ entry.at \in Stamps /\ ObjectOf(entry) \in Object
           /\ ObjectOf(entry) # Absent /\ ObjectOf(entry).at = entry.at
           /\ entry.id # EmptyId => entry.id \in Ids
  BY DistinctAssumption DEF Entry, ObjectOf, Object
-----------------------------------------------------------------------------
(***************************************************************************)
(* Types.                                                                  *)
(***************************************************************************)
(* The positions of an id are positions of the data set.                   *)
LEMMA PositionsAreIndices ==
    ASSUME NEW data \in Seq(Entry), NEW id
    PROVE  /\ Positions(id, data) \in SUBSET (1 .. Len(data))
           /\ Len(data) \in Nat
           /\ \A i \in Positions(id, data) : data[i] \in Entry /\ data[i].id = id
  BY DEF Positions

(* What a full data set leaves is a map of items, ...                      *)
LEMMA ReplacedTypes ==
    ASSUME NEW data \in Seq(Entry)
    PROVE  Replaced(data) \in ItemMaps
<1> SUFFICES ASSUME NEW id \in Ids, Positions(id, data) # {}
             PROVE  ObjectOf(data[Max(Positions(id, data))]) \in Object
  BY DEF Replaced, ItemMaps
<1>1. Max(Positions(id, data)) \in Positions(id, data)
  BY PositionsAreIndices, LastPosition
<1> QED  BY <1>1, PositionsAreIndices, EntryTypes

(* ... and its version is a stamp, or 0, and not below any of the stamps   *)
(* it counts.                                                              *)
LEMMA ReplacedVersionCovers ==
    ASSUME NEW data \in Seq(Entry)
    PROVE  /\ ReplacedVersion(data) \in Stamps
           /\ 0 =< ReplacedVersion(data)
           /\ \A i \in DOMAIN data :
                  data[i].id # EmptyId => data[i].at =< ReplacedVersion(data)
           /\ \/ ReplacedVersion(data) = 0
              \/ \E i \in DOMAIN data :
                     data[i].id # EmptyId /\ data[i].at = ReplacedVersion(data)
<1> DEFINE S == {0} \cup {data[i].at : i \in {j \in DOMAIN data : data[j].id # EmptyId}}
<1>1. S \in SUBSET Stamps /\ S # {}
  BY EntryTypes, StampsAreIntegers
<1>2. Max(S) \in S /\ \A y \in S : y =< Max(S)
  BY <1>1, GreatestStamp
<1>3. ReplacedVersion(data) = Max(S)
  BY DEF ReplacedVersion
<1> QED  BY <1>1, <1>2, <1>3

(* The position of the object that counts is the one the definition of     *)
(* Offered chooses: there is one, and only one.                            *)
IsOffered(id, data, i) ==
    /\ i \in Positions(id, data)
    /\ \A j \in Positions(id, data) :
           \/ data[j].at < data[i].at
           \/ data[j].at = data[i].at /\ i =< j

(* Whatever is offered more than once, some offer counts.                  *)
LEMMA OfferedExists ==
    ASSUME NEW data \in Seq(Entry), NEW id, Positions(id, data) # {}
    PROVE  \E i \in Positions(id, data) : IsOffered(id, data, i)
<1> DEFINE P == Positions(id, data)
           A == {data[i].at : i \in P}
           Q == {i \in P : data[i].at = Max(A)}
<1>1. /\ P \in SUBSET (1 .. Len(data)) /\ Len(data) \in Nat
      /\ \A i \in P : data[i].at \in Stamps
  BY PositionsAreIndices, EntryTypes
<1>2. A \in SUBSET Stamps /\ A # {}
  BY <1>1
<1>3. Max(A) \in A /\ \A y \in A : y =< Max(A)
  BY <1>2, GreatestStamp
<1>4. Q # {} /\ Q \in SUBSET (1 .. Len(data))
  BY <1>1, <1>3
<1>5. PICK i \in Q : \A j \in Q : i =< j
  BY <1>1, <1>4, FirstPosition
<1>6. ASSUME NEW j \in P
      PROVE  data[j].at < data[i].at \/ (data[j].at = data[i].at /\ i =< j)
  <2>1. data[j].at \in Int /\ data[i].at \in Int /\ data[j].at =< Max(A)
    BY <1>1, <1>3, StampsAreIntegers
  <2>2. data[i].at = Max(A)
    OBVIOUS
  <2>3. CASE data[j].at = Max(A)
    BY <1>5, <2>2, <2>3
  <2>4. CASE data[j].at # Max(A)
    BY <2>1, <2>2, <2>4
  <2> QED  BY <2>3, <2>4
<1> QED  BY <1>6 DEF IsOffered

(* ... and no other does.                                                  *)
LEMMA OfferedIs ==
    ASSUME NEW data \in Seq(Entry), NEW id, NEW i, IsOffered(id, data, i)
    PROVE  Offered(id, data) = data[i]
<1> DEFINE P == Positions(id, data)
           C == CHOOSE x \in P : IsOffered(id, data, x)
<1>1. /\ P \in SUBSET (1 .. Len(data)) /\ Len(data) \in Nat
      /\ \A x \in P : data[x].at \in Int
  BY PositionsAreIndices, EntryTypes, StampsAreIntegers
<1>2. i \in P
  BY DEF IsOffered
<1>3. C \in P /\ IsOffered(id, data, C)
  BY <1>2
<1>4. C = i
  BY <1>1, <1>2, <1>3 DEF IsOffered
<1>5. Offered(id, data) = data[C]
  <2> DEFINE Counts(x) == \A j \in P : \/ data[j].at < data[x].at
                                       \/ data[j].at = data[x].at /\ x =< j
  <2>1. \A x \in P : IsOffered(id, data, x) <=> Counts(x)
    BY DEF IsOffered
  <2>2. C = CHOOSE x \in P : Counts(x)
    BY <2>1, Zenon
  <2> QED  BY <2>2 DEF Offered
<1> QED  BY <1>4, <1>5

(* What a patch leaves is a map of items.                                  *)
LEMMA PatchedTypes ==
    ASSUME NEW items \in ItemMaps, NEW data \in Seq(Entry)
    PROVE  Patched(items, data) \in ItemMaps
<1> SUFFICES ASSUME NEW id \in Ids, Positions(id, data) # {}
             PROVE  ObjectOf(Offered(id, data)) \in Object
  BY DEF Patched, ItemMaps
<1>1. PICK i \in Positions(id, data) : IsOffered(id, data, i)
  BY OfferedExists
<1> QED  BY <1>1, OfferedIs, PositionsAreIndices, EntryTypes

(* The stores they make have the type of a store.                          *)
LEMMA StoreTypes ==
    ASSUME NEW data \in Seq(Entry),
           NEW store \in [items : ItemMaps, version : Stamps, populated : BOOLEAN]
    PROVE  /\ PopulatedStore(data) \in [items : ItemMaps, version : Stamps, populated : {TRUE}]
           /\ PatchedStore(store, data)
                  \in [items : ItemMaps, version : Stamps, populated : {TRUE}]
<1>1. PopulatedStore(data) \in [items : ItemMaps, version : Stamps, populated : {TRUE}]
  BY ReplacedTypes, ReplacedVersionCovers DEF PopulatedStore
<1>2. Patched(store.items, data) \in ItemMaps
  BY PatchedTypes
<1>3. NewestStamp(Patched(store.items, data)) \in Stamps
  BY <1>2, NewestStampCovers
<1>4. PatchedStore(store, data) \in [items : ItemMaps, version : Stamps, populated : {TRUE}]
  BY <1>2, <1>3 DEF PatchedStore
<1> QED  BY <1>1, <1>4
-----------------------------------------------------------------------------
(***************************************************************************)
(* One more object.                                                        *)
(***************************************************************************)
(* Where a longer data set holds what.                                     *)
LEMMA AppendIndices ==
    ASSUME NEW s \in Seq(Entry), NEW e \in Entry
    PROVE  /\ Append(s, e) \in Seq(Entry)
           /\ Len(s) \in Nat
           /\ DOMAIN Append(s, e) = DOMAIN s \cup {Len(s) + 1}
           /\ Append(s, e)[Len(s) + 1] = e
           /\ \A i \in DOMAIN s : i \in Int /\ i < Len(s) + 1 /\ Append(s, e)[i] = s[i]
  OBVIOUS

(* ... and each id.                                                        *)
LEMMA AppendPositions ==
    ASSUME NEW s \in Seq(Entry), NEW e \in Entry, NEW id
    PROVE  /\ e.id # id => Positions(id, Append(s, e)) = Positions(id, s)
           /\ e.id = id => Positions(id, Append(s, e)) = Positions(id, s) \cup {Len(s) + 1}
<1>1. \A i \in DOMAIN s : i # Len(s) + 1
  BY AppendIndices
<1> QED  BY <1>1, AppendIndices DEF Positions

(* A full data set with one more object stores that object as well; the    *)
(* empty id is skipped.                                                    *)
LEMMA ReplacedAppend ==
    ASSUME NEW s \in Seq(Entry), NEW e \in Entry
    PROVE  Replaced(Append(s, e)) = IF e.id = EmptyId THEN Replaced(s)
                                    ELSE [Replaced(s) EXCEPT ![e.id] = ObjectOf(e)]
<1> DEFINE t == Append(s, e)
           new == IF e.id = EmptyId THEN Replaced(s)
                  ELSE [Replaced(s) EXCEPT ![e.id] = ObjectOf(e)]
<1>1. ASSUME NEW id \in Ids, e.id # id
      PROVE  Replaced(t)[id] = Replaced(s)[id]
  <2>1. Positions(id, t) = Positions(id, s)
    BY <1>1, AppendPositions
  <2>2. CASE Positions(id, s) = {}
    BY <2>1, <2>2 DEF Replaced
  <2>3. CASE Positions(id, s) # {}
    <3>1. Max(Positions(id, s)) \in DOMAIN s
      BY <2>3, PositionsAreIndices, LastPosition DEF Positions
    <3>2. t[Max(Positions(id, s))] = s[Max(Positions(id, s))]
      BY <3>1, AppendIndices
    <3> QED  BY <2>1, <2>3, <3>2 DEF Replaced
  <2> QED  BY <2>2, <2>3
<1>2. ASSUME e.id # EmptyId
      PROVE  Replaced(t)[e.id] = ObjectOf(e)
  <2>1. e.id \in Ids
    BY <1>2, EntryTypes
  <2>2. Positions(e.id, t) = Positions(e.id, s) \cup {Len(s) + 1}
    BY AppendPositions
  <2>3. Max(Positions(e.id, t)) = Len(s) + 1
    <3>1. Positions(e.id, s) \in SUBSET (1 .. Len(s)) /\ Len(s) \in Nat
      BY PositionsAreIndices
    <3>2. \A i \in Positions(e.id, s) : i \in Int /\ i =< Len(s) + 1
      BY <3>1
    <3>3. Positions(e.id, t) \in SUBSET Int
      BY <2>2, <3>1, <3>2
    <3>4. Len(s) + 1 \in Positions(e.id, t)
          /\ \A i \in Positions(e.id, t) : i =< Len(s) + 1
      BY <2>2, <3>1, <3>2
    <3> QED  BY <3>3, <3>4, MaxIs
  <2> QED  BY <2>1, <2>2, <2>3, AppendIndices DEF Replaced
<1>3. \A id \in Ids : Replaced(t)[id] = new[id]
  <2>1. CASE e.id = EmptyId
    BY <1>1, <2>1, DistinctAssumption
  <2>2. CASE e.id # EmptyId
    BY <1>1, <1>2, <2>2 DEF Replaced
  <2> QED  BY <2>1, <2>2
<1> QED  BY <1>3 DEF Replaced

(* The version counts every object that is not skipped.                    *)
LEMMA ReplacedVersionAppend ==
    ASSUME NEW s \in Seq(Entry), NEW e \in Entry
    PROVE  ReplacedVersion(Append(s, e)) = IF e.id = EmptyId THEN ReplacedVersion(s)
                                           ELSE Max({ReplacedVersion(s), e.at})
<1> DEFINE t == Append(s, e)
           Counted(d) == {d[i].at : i \in {j \in DOMAIN d : d[j].id # EmptyId}}
<1>1. /\ \A i \in DOMAIN t : i \in DOMAIN s \/ i = Len(s) + 1
      /\ \A i \in DOMAIN s : i \in DOMAIN t /\ t[i] = s[i]
      /\ Len(s) + 1 \in DOMAIN t /\ t[Len(s) + 1] = e
  BY AppendIndices
<1>2. CASE e.id = EmptyId
  <2>1. {j \in DOMAIN t : t[j].id # EmptyId} = {j \in DOMAIN s : s[j].id # EmptyId}
    BY <1>1, <1>2
  <2>2. Counted(t) = Counted(s)
    BY <1>1, <2>1
  <2> QED  BY <1>2, <2>2 DEF ReplacedVersion
<1>3. CASE e.id # EmptyId
  <2> DEFINE S == {0} \cup Counted(t)
             m == Max({ReplacedVersion(s), e.at})
  <2>1. /\ ReplacedVersion(s) \in Stamps /\ e.at \in Stamps
        /\ 0 =< ReplacedVersion(s)
    BY ReplacedVersionCovers, EntryTypes
  <2>2. /\ {ReplacedVersion(s), e.at} \in SUBSET Stamps
        /\ m \in {ReplacedVersion(s), e.at}
        /\ ReplacedVersion(s) =< m /\ e.at =< m
    BY <2>1, GreatestStamp
  <2>3. m \in S
    <3>1. e.at \in S
      BY <1>1, <1>3
    <3>2. ReplacedVersion(s) \in S
      <4>1. ASSUME NEW i \in DOMAIN s, s[i].id # EmptyId PROVE s[i].at \in S
        BY <1>1, <4>1
      <4> QED  BY <4>1, ReplacedVersionCovers
    <3> QED  BY <2>2, <3>1, <3>2
  <2>4. ASSUME NEW y \in S PROVE y \in Int /\ y =< m
    <3>1. m \in Int /\ ReplacedVersion(s) \in Int
      BY <2>1, <2>2, StampsAreIntegers
    <3>2. CASE y = 0
      BY <2>1, <2>2, <3>1, <3>2
    <3>3. ASSUME NEW i \in DOMAIN t, t[i].id # EmptyId, y = t[i].at
          PROVE  y \in Int /\ y =< m
      <4>1. CASE i = Len(s) + 1
        BY <1>1, <2>1, <2>2, <3>3, <4>1, StampsAreIntegers
      <4>2. CASE i \in DOMAIN s
        <5>1. y = s[i].at /\ s[i] \in Entry /\ s[i].id # EmptyId
          BY <1>1, <3>3, <4>2
        <5>2. y \in Int /\ y =< ReplacedVersion(s)
          BY <5>1, <4>2, ReplacedVersionCovers, EntryTypes, StampsAreIntegers
        <5> QED  BY <2>2, <3>1, <5>2
      <4> QED  BY <1>1, <4>1, <4>2
    <3> QED  BY <3>2, <3>3
  <2>5. S \in SUBSET Int /\ \A y \in S : y =< m
    BY <2>4
  <2> HIDE DEF S, m
  <2>6. Max(S) = m
    BY <2>3, <2>5, MaxIs
  <2> QED  BY <1>3, <2>6 DEF S, m, ReplacedVersion
<1> QED  BY <1>2, <1>3

(* Of the offers for an id the new one counts when it is the first or      *)
(* strictly newer than the one that counted.                               *)
LEMMA OfferedAppend ==
    ASSUME NEW s \in Seq(Entry), NEW e \in Entry
    PROVE  /\ Positions(e.id, s) = {} => Offered(e.id, Append(s, e)) = e
           /\ Positions(e.id, s) # {} =>
                  /\ Offered(e.id, s) \in Entry
                  /\ Offered(e.id, Append(s, e)) =
                         IF Offered(e.id, s).at < e.at THEN e ELSE Offered(e.id, s)
<1> DEFINE t == Append(s, e)
           id == e.id
<1>1. /\ Positions(id, t) = Positions(id, s) \cup {Len(s) + 1}
      /\ Len(s) \in Nat /\ t[Len(s) + 1] = e /\ t \in Seq(Entry)
      /\ \A i \in Positions(id, s) : i \in Int /\ i < Len(s) + 1 /\ t[i] = s[i]
  BY AppendPositions, AppendIndices DEF Positions
<1>2. e.at \in Int /\ \A i \in Positions(id, s) : s[i] \in Entry /\ s[i].at \in Int
  BY PositionsAreIndices, EntryTypes, StampsAreIntegers
<1> DEFINE last == Len(s) + 1
<1>3. t[last] = e /\ Positions(id, t) = Positions(id, s) \cup {last} /\ last \in Int
  BY <1>1
<1>4. \A i \in Positions(id, s) : i \in Int /\ i < last /\ t[i] = s[i]
  BY <1>1
<1> HIDE DEF t, id, last
<1>5. CASE Positions(id, s) = {}
  <2>1. IsOffered(id, t, last)
    BY <1>3, <1>4, <1>2, <1>5 DEF IsOffered
  <2>2. Offered(id, t) = e
    BY <1>3, <1>1, <2>1, OfferedIs
  <2> QED  BY <1>5, <2>2 DEF t, id
<1>6. CASE Positions(id, s) # {}
  <2>1. PICK i \in Positions(id, s) : IsOffered(id, s, i)
    BY <1>6, OfferedExists
  <2>2. Offered(id, s) = s[i] /\ s[i] \in Entry
    BY <1>2, <2>1, OfferedIs
  <2>3. CASE s[i].at < e.at
    <3>1. \A j \in Positions(id, s) : t[j].at < e.at
      BY <1>3, <1>4, <1>2, <2>1, <2>3 DEF IsOffered
    <3>2. IsOffered(id, t, last)
      BY <1>3, <1>4, <1>2, <3>1 DEF IsOffered
    <3>3. Offered(id, t) = e
      BY <1>3, <1>1, <3>2, OfferedIs
    <3> QED  BY <1>6, <2>2, <2>3, <3>3 DEF t, id
  <2>4. CASE ~ (s[i].at < e.at)
    <3>1. t[last].at < t[i].at \/ (t[last].at = t[i].at /\ i =< last)
      BY <1>3, <1>4, <1>2, <2>4
    <3>2. \A j \in Positions(id, s) :
              t[j].at < t[i].at \/ (t[j].at = t[i].at /\ i =< j)
      BY <1>3, <1>4, <2>1 DEF IsOffered
    <3>3. IsOffered(id, t, i)
      BY <1>3, <1>4, <3>1, <3>2 DEF IsOffered
    <3>4. Offered(id, t) = s[i]
      BY <1>4, <1>1, <3>3, OfferedIs
    <3> QED  BY <1>6, <2>2, <2>4, <3>4 DEF t, id
  <2> QED  BY <2>3, <2>4
<1> QED  BY <1>5, <1>6

(* An offer for another id changes nothing for this one.                   *)
LEMMA OfferedElsewhere ==
    ASSUME NEW s \in Seq(Entry), NEW e \in Entry, NEW id, e.id # id, Positions(id, s) # {}
    PROVE  Offered(id, Append(s, e)) = Offered(id, s)
<1> DEFINE t == Append(s, e)
<1>1. Positions(id, t) = Positions(id, s) /\ t \in Seq(Entry)
      /\ \A i \in Positions(id, s) : t[i] = s[i]
  BY AppendPositions, AppendIndices DEF Positions
<1>2. PICK i \in Positions(id, s) : IsOffered(id, s, i)
  BY OfferedExists
<1>3. IsOffered(id, t, i)
  BY <1>1, <1>2 DEF IsOffered
<1> QED  BY <1>1, <1>2, <1>3, OfferedIs

(* A patch with one more object also inserts that object, when it is the   *)
(* first under its id or strictly newer than what the patch had left       *)
(* there so far.                                                           *)
LEMMA PatchedAppend ==
    ASSUME NEW items \in ItemMaps, NEW s \in Seq(Entry), NEW e \in Entry
    PROVE  LET met == Patched(items, s)[e.id]
           IN  Patched(items, Append(s, e)) =
                   IF e.id # EmptyId /\ (met = Absent \/ met.at < e.at)
                   THEN [Patched(items, s) EXCEPT ![e.id] = ObjectOf(e)]
                   ELSE Patched(items, s)
<1> DEFINE t == Append(s, e)
           met == Patched(items, s)[e.id]
           Newer == met = Absent \/ met.at < e.at
<1>1. ASSUME NEW id \in Ids, e.id # id
      PROVE  Patched(items, t)[id] = Patched(items, s)[id]
  <2>1. Positions(id, t) = Positions(id, s)
    BY <1>1, AppendPositions
  <2>2. CASE Positions(id, s) = {}
    BY <2>1, <2>2 DEF Patched
  <2>3. CASE Positions(id, s) # {}
    <3>1. Offered(id, t) = Offered(id, s)
      BY <1>1, <2>3, OfferedElsewhere
    <3> QED  BY <2>1, <3>1 DEF Patched
  <2> QED  BY <2>2, <2>3
<1>2. ASSUME e.id # EmptyId
      PROVE  Patched(items, t)[e.id] = IF Newer THEN ObjectOf(e) ELSE met
  <2> DEFINE old == items[e.id]
             offer == Offered(e.id, s)
             before == IF old = Absent \/ old.at < offer.at THEN ObjectOf(offer) ELSE old
  <2>1. e.id \in Ids /\ e.at \in Int /\ (old = Absent \/ old.at \in Int)
    BY <1>2, EntryTypes, StampsAreIntegers DEF ItemMaps, Object
  <2>2. Positions(e.id, t) # {}
    BY AppendPositions
  <2>3. Patched(items, t)[e.id] =
            IF old = Absent \/ old.at < Offered(e.id, t).at
            THEN ObjectOf(Offered(e.id, t)) ELSE old
    BY <2>1, <2>2 DEF Patched
  <2>4. CASE Positions(e.id, s) = {}
    <3>1. met = old /\ Offered(e.id, t) = e
      BY <2>1, <2>4, OfferedAppend DEF Patched
    <3> QED  BY <2>3, <3>1
  <2>5. CASE Positions(e.id, s) # {}
    <3>1. met = before
      BY <2>1, <2>5 DEF Patched
    <3>2. /\ offer \in Entry
          /\ Offered(e.id, t) = IF offer.at < e.at THEN e ELSE offer
      BY <2>5, OfferedAppend
    <3>3. offer.at \in Int /\ ObjectOf(offer).at = offer.at /\ ObjectOf(offer) # Absent
      BY <3>2, EntryTypes, StampsAreIntegers
    <3> HIDE DEF offer, old
    <3>4. CASE offer.at < e.at
      <4>1. Offered(e.id, t) = e
        BY <3>2, <3>4
      <4>2. CASE old = Absent \/ old.at < offer.at
        <5>1. met = ObjectOf(offer) /\ Newer
          BY <3>1, <3>3, <3>4, <4>2
        <5>2. old = Absent \/ old.at < e.at
          BY <2>1, <3>3, <3>4, <4>2
        <5> QED  BY <2>3, <4>1, <5>1, <5>2 DEF old
      <4>3. CASE ~ (old = Absent \/ old.at < offer.at)
        <5>1. met = old /\ old # Absent
          BY <3>1, <4>3
        <5>2. Newer <=> (old = Absent \/ old.at < e.at)
          BY <5>1
        <5> QED  BY <2>3, <4>1, <5>1, <5>2 DEF old
      <4> QED  BY <4>2, <4>3
    <3>5. CASE ~ (offer.at < e.at)
      <4>1. Patched(items, t)[e.id] = met
        BY <2>3, <3>1, <3>2, <3>5 DEF old
      <4>2. CASE old = Absent \/ old.at < offer.at
        <5>1. met = ObjectOf(offer)
          BY <3>1, <4>2
        <5>2. ~ Newer
          BY <3>3, <3>5, <5>1
        <5> QED  BY <4>1, <5>2
      <4>3. CASE ~ (old = Absent \/ old.at < offer.at)
        <5>1. met = old
          BY <3>1, <4>3
        <5>2. ~ Newer
          BY <2>1, <3>3, <3>5, <4>3, <5>1
        <5> QED  BY <4>1, <5>2
      <4> QED  BY <4>2, <4>3
    <3> QED  BY <3>4, <3>5
  <2> QED  BY <2>4, <2>5
<1> DEFINE new == IF e.id # EmptyId /\ Newer
                  THEN [Patched(items, s) EXCEPT ![e.id] = ObjectOf(e)]
                  ELSE Patched(items, s)
<1>3. ASSUME NEW id \in Ids PROVE Patched(items, t)[id] = new[id]
  <2>1. Patched(items, s) = [i \in Ids |-> Patched(items, s)[i]]
    BY DEF Patched
  <2> HIDE DEF met
  <2>2. CASE e.id = EmptyId
    <3>1. e.id # id
      BY <2>2, DistinctAssumption
    <3> QED  BY <1>1, <2>2, <3>1
  <2>3. CASE e.id # EmptyId /\ id # e.id
    BY <1>1, <2>1, <2>3
  <2>4. CASE e.id # EmptyId /\ id = e.id
    <3>1. Newer => new[id] = ObjectOf(e)
      BY <2>1, <2>4
    <3>2. ~ Newer => new[id] = met
      BY <2>4 DEF met
    <3> HIDE DEF new, Newer
    <3> QED  BY <1>2, <2>4, <3>1, <3>2
  <2> QED  BY <2>2, <2>3, <2>4
<1>4. Patched(items, t) = [id \in Ids |-> Patched(items, t)[id]]
      /\ Patched(items, s) = [id \in Ids |-> Patched(items, s)[id]]
  BY DEF Patched
<1>5. new = [id \in Ids |-> new[id]]
  BY <1>4
<1> HIDE DEF new
<1>6. Patched(items, t) = new
  BY <1>3, <1>4, <1>5
<1> QED  BY <1>6 DEF new

(* It conflicts when it did so far, or when the object meets the same      *)
(* stamp with another body.                                                *)
LEMMA ConflictsAppend ==
    ASSUME NEW items \in ItemMaps, NEW s \in Seq(Entry), NEW e \in Entry
    PROVE  LET met == Patched(items, s)[e.id]
           IN  Conflicts(items, Append(s, e)) <=>
                   \/ Conflicts(items, s)
                   \/ e.id # EmptyId /\ met # Absent /\ met.at = e.at /\ met.body # e.body
<1> DEFINE t == Append(s, e)
           Clash(d, i) == /\ d[i].id # EmptyId
                          /\ LET met == Patched(items, SubSeq(d, 1, i - 1))[d[i].id]
                             IN  met # Absent /\ met.at = d[i].at /\ met.body # d[i].body
<1>1. \A i \in DOMAIN s : i \in DOMAIN t /\ t[i] = s[i] /\ SubSeq(t, 1, i - 1) = SubSeq(s, 1, i - 1)
  OBVIOUS
<1>2. \A i \in DOMAIN s : Clash(t, i) <=> Clash(s, i)
  BY <1>1
<1>3. /\ DOMAIN t = DOMAIN s \cup {Len(s) + 1} /\ t[Len(s) + 1] = e
      /\ SubSeq(t, 1, (Len(s) + 1) - 1) = s
  OBVIOUS
<1>4. Conflicts(items, t) <=> \E i \in DOMAIN t : Clash(t, i)
  BY DEF Conflicts
<1>5. Conflicts(items, s) <=> \E i \in DOMAIN s : Clash(s, i)
  BY DEF Conflicts
<1>6. Clash(t, Len(s) + 1) <=>
          LET met == Patched(items, s)[e.id]
          IN  e.id # EmptyId /\ met # Absent /\ met.at = e.at /\ met.body # e.body
  BY <1>3
<1> HIDE DEF Clash
<1> QED  BY <1>2, <1>3, <1>4, <1>5, <1>6

(* Without an object a populate empties the store, ...                     *)
LEMMA ReplacedEmpty == Replaced(<<>>) = NoItems /\ ReplacedVersion(<<>>) = 0
<1>1. \A id \in Ids : Positions(id, <<>>) = {}
  BY DEF Positions
<1>2. Replaced(<<>>) = NoItems
  BY <1>1 DEF Replaced, NoItems
<1>3. {0} \cup {<<>>[i].at : i \in {j \in DOMAIN <<>> : <<>>[j].id # EmptyId}} = {0}
  OBVIOUS
<1>4. {0} \in SUBSET Int /\ 0 \in {0} /\ \A y \in {0} : y =< 0
  OBVIOUS
<1>5. Max({0}) = 0
  BY <1>4, MaxIs
<1> QED  BY <1>2, <1>3, <1>5 DEF ReplacedVersion

(* ... and a patch does nothing.                                           *)
LEMMA PatchedEmpty ==
    ASSUME NEW items \in ItemMaps
    PROVE  Patched(items, <<>>) = items /\ ~ Conflicts(items, <<>>)
<1>1. \A id \in Ids : Positions(id, <<>>) = {}
  BY DEF Positions
<1> QED  BY <1>1 DEF Patched, Conflicts, ItemMaps
=============================================================================
