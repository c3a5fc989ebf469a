------------------------ MODULE SessionAuthorityProofs ------------------------
(***************************************************************************)
(* Invariants of the session authority, for any number of users,           *)
(* connections and objects and for any limits.  The first part is about    *)
(* the operators of HierarchyModel: what they return for any retained      *)
(* Hierarchy and any operation.                                            *)
(***************************************************************************)
EXTENDS SessionForest, FiniteSetTheorems, WellFoundedInduction, TLAPS

IsObjects(objs) == IsMap(objs, Objects, HierarchyRecord)

\* What validateHierarchyOperation leaves of a request.
IsRequest(m) ==
  /\ m.kind \in Kinds
  /\ m.object \in Objects
  /\ m.parent \in Parents
  /\ m.index \in Nat

-----------------------------------------------------------------------------
(* Maps. *)

LEMMA DropType ==
  ASSUME NEW map, NEW K, NEW V, IsMap(map, K, V), NEW S
  PROVE  /\ IsMap(Drop(map, S), K, V)
         /\ DOMAIN Drop(map, S) = DOMAIN map \ S
         /\ \A k \in DOMAIN map \ S : Drop(map, S)[k] = map[k]
  BY DEF IsMap, Drop

LEMMA PutType ==
  ASSUME NEW map, NEW K, NEW V, IsMap(map, K, V), NEW k \in K, NEW v \in V
  PROVE  /\ IsMap(Put(map, k, v), K, V)
         /\ DOMAIN Put(map, k, v) = DOMAIN map \cup {k}
         /\ Put(map, k, v)[k] = v
         /\ \A x \in DOMAIN map \ {k} : Put(map, k, v)[x] = map[x]
  BY DEF IsMap, Put

LEMMA EmptyMapType ==
  ASSUME NEW K, NEW V
  PROVE  IsMap(EmptyMap, K, V) /\ DOMAIN EmptyMap = {}
  BY DEF IsMap, EmptyMap

-----------------------------------------------------------------------------
(* Sibling order. *)

LEMMA PositionType ==
  ASSUME NEW objs, NEW S \in SUBSET Objects, NEW k
  PROVE  Position(objs, S, k) \in Nat
<1>1. {s \in S : Before(objs, s, k)} \in SUBSET Objects
  OBVIOUS
<1>2. IsFiniteSet({s \in S : Before(objs, s, k)})
  BY <1>1, FS_Subset, HierarchyAssumption
<1> QED
  BY <1>2, FS_CardinalityType DEF Position

LEMMA ChildrenAreObjects ==
  ASSUME NEW objs, IsObjects(objs), NEW scene, NEW parent
  PROVE  ChildrenOf(objs, scene, parent) \in SUBSET (DOMAIN objs)
  BY DEF ChildrenOf, SceneObjects

\* new differs from objs in the indexes of some members of S, and in the stamps
\* of those, which become rev.
Reindexed(new, objs, S, rev) ==
  /\ IsObjects(new)
  /\ DOMAIN new = DOMAIN objs
  /\ \A k \in DOMAIN objs :
       /\ new[k].parent = objs[k].parent
       /\ new[k].name = objs[k].name
       /\ new[k].pose = objs[k].pose
       /\ new[k].revision \in {objs[k].revision, rev}
       /\ k \notin S => new[k].index = objs[k].index

LEMMA AssignType ==
  ASSUME NEW objs, IsObjects(objs), NEW S, NEW place,
         \A k \in S : place[k] \in Nat,
         NEW rev \in Nat
  PROVE  /\ Reindexed(Assign(objs, S, place, rev), objs, S, rev)
         /\ \A k \in DOMAIN objs \cap S : Assign(objs, S, place, rev)[k].index = place[k]
<1> DEFINE stamped(k) == [objs[k] EXCEPT !.index = place[k], !.revision = rev]
<1>1. ASSUME NEW k \in DOMAIN objs, k \in S
      PROVE  /\ stamped(k) \in HierarchyRecord
             /\ stamped(k).parent = objs[k].parent
             /\ stamped(k).name = objs[k].name
             /\ stamped(k).pose = objs[k].pose
             /\ stamped(k).revision = rev
             /\ stamped(k).index = place[k]
  BY <1>1 DEF IsObjects, IsMap, HierarchyRecord
<1>2. Assign(objs, S, place, rev) =
        [k \in DOMAIN objs |-> IF k \in S /\ objs[k].index # place[k] THEN stamped(k) ELSE objs[k]]
  BY DEF Assign
<1> HIDE DEF stamped
<1> QED
  BY <1>1, <1>2 DEF Reindexed, IsObjects, IsMap

LEMMA ReindexType ==
  ASSUME NEW objs, IsObjects(objs), NEW S \in SUBSET Objects, NEW rev \in Nat
  PROVE  /\ Reindexed(Reindex(objs, S, rev), objs, S, rev)
         /\ \A k \in DOMAIN objs \cap S : Reindex(objs, S, rev)[k].index = Position(objs, S, k)
<1> DEFINE place == [k \in S |-> Position(objs, S, k)]
<1>1. \A k \in S : place[k] = Position(objs, S, k) /\ place[k] \in Nat
  BY PositionType
<1>2. Reindex(objs, S, rev) = Assign(objs, S, place, rev)
  BY DEF Reindex
<1> HIDE DEF place
<1> QED
  BY <1>1, <1>2, AssignType

\* The siblings of k with k at the requested place, as InsertAt lays them out.
Siblings(objs, k) == ChildrenOf(objs, SceneOf[k], objs[k].parent) \ {k}
Clamped(objs, k, requested) ==
  IF requested < Cardinality(Siblings(objs, k)) THEN requested ELSE Cardinality(Siblings(objs, k))
Shifted(objs, k, requested, s) ==
  IF Position(objs, Siblings(objs, k), s) < Clamped(objs, k, requested)
  THEN Position(objs, Siblings(objs, k), s)
  ELSE Position(objs, Siblings(objs, k), s) + 1

LEMMA InsertAtType ==
  ASSUME NEW objs, IsObjects(objs), NEW k \in DOMAIN objs,
         NEW requested \in Nat, NEW rev \in Nat
  PROVE  /\ Reindexed(InsertAt(objs, k, requested, rev), objs, Siblings(objs, k) \cup {k}, rev)
         /\ InsertAt(objs, k, requested, rev)[k].index = Clamped(objs, k, requested)
         /\ \A s \in Siblings(objs, k) :
              InsertAt(objs, k, requested, rev)[s].index = Shifted(objs, k, requested, s)
<1> DEFINE siblings == Siblings(objs, k)
           at == Clamped(objs, k, requested)
           place == [s \in siblings \cup {k} |->
                       IF s = k THEN at
                       ELSE IF Position(objs, siblings, s) < at
                            THEN Position(objs, siblings, s)
                            ELSE Position(objs, siblings, s) + 1]
<1>1. siblings \in SUBSET Objects /\ siblings \subseteq DOMAIN objs /\ k \notin siblings
  BY ChildrenAreObjects DEF IsObjects, IsMap, Siblings
<1>2. Cardinality(siblings) \in Nat
  BY <1>1, FS_Subset, FS_CardinalityType, HierarchyAssumption
<1>3. InsertAt(objs, k, requested, rev) = Assign(objs, siblings \cup {k}, place, rev)
  BY DEF InsertAt, Siblings, Clamped
<1>4. at \in Nat
  BY <1>2 DEF Clamped
<1>5. \A s \in siblings : Position(objs, siblings, s) \in Nat
  BY <1>1, PositionType
<1>6. /\ place[k] = at
      /\ \A s \in siblings : place[s] = Shifted(objs, k, requested, s)
  BY <1>1 DEF Shifted
<1>7. \A s \in siblings : Shifted(objs, k, requested, s) \in Nat
  BY <1>4, <1>5 DEF Shifted
<1> HIDE DEF siblings, at, place
<1>8. \A s \in siblings \cup {k} : place[s] \in Nat
  BY <1>4, <1>6, <1>7
<1>9. /\ Reindexed(Assign(objs, siblings \cup {k}, place, rev), objs, siblings \cup {k}, rev)
      /\ \A x \in DOMAIN objs \cap (siblings \cup {k}) :
           Assign(objs, siblings \cup {k}, place, rev)[x].index = place[x]
  BY <1>8, AssignType
<1> QED
  BY <1>1, <1>3, <1>6, <1>9 DEF siblings, at

-----------------------------------------------------------------------------
(* Operations. *)

\* One field of one record is replaced.
LEMMA EditType ==
  ASSUME NEW objs, IsObjects(objs), NEW k \in DOMAIN objs, NEW r \in HierarchyRecord
  PROVE  /\ IsObjects([objs EXCEPT ![k] = r])
         /\ DOMAIN [objs EXCEPT ![k] = r] = DOMAIN objs
         /\ [objs EXCEPT ![k] = r][k] = r
         /\ \A x \in DOMAIN objs \ {k} : [objs EXCEPT ![k] = r][x] = objs[x]
  BY DEF IsObjects, IsMap

Placed(m) == m.kind \in {"create_object", "reparent_object"}

\* The parents among whose children indexes may change.
TouchedParents(objs, m) ==
  (IF Placed(m) THEN {m.parent} ELSE {})
  \cup
  (IF m.kind \in {"delete_object", "reparent_object", "reorder_sibling"}
   THEN {objs[m.object].parent} ELSE {})

\* new is what operation m, applied at rev, makes of objs: which objects there
\* are, where they hang, and what of each record the operation leaves alone.
Follows(new, objs, m, rev) ==
  /\ IsObjects(new)
  /\ DOMAIN new = IF m.kind = "create_object" THEN DOMAIN objs \cup {m.object}
                  ELSE DOMAIN objs \ DeletedObjects(objs, m)
  /\ \A k \in DOMAIN new :
       /\ new[k].pose = IF k = m.object /\ Placed(m) THEN rev ELSE objs[k].pose
       /\ new[k].parent = IF k = m.object /\ Placed(m) THEN m.parent ELSE objs[k].parent
       /\ k # m.object => new[k].name = objs[k].name
       /\ new[k].revision # rev => k \in DOMAIN objs /\ new[k].revision = objs[k].revision
       /\ k = m.object /\ Placed(m) => new[k].revision = rev
       /\ k # m.object /\ objs[k].parent \notin TouchedParents(objs, m)
            => new[k].index = objs[k].index

LEMMA SiblingsShareParent ==
  ASSUME NEW objs, NEW k, NEW s \in Siblings(objs, k)
  PROVE  objs[s].parent = objs[k].parent
  BY DEF Siblings, ChildrenOf

LEMMA NextObjectsType ==
  ASSUME NEW objs, IsObjects(objs), NEW m, IsRequest(m), NEW rev \in Nat,
         m.kind # "create_object" => m.object \in DOMAIN objs
  PROVE  Follows(NextObjects(objs, m, rev), objs, m, rev)
<1> USE DEF Follows, Placed
<1>1. CASE m.kind = "create_object"
  <2> DEFINE record == [parent |-> m.parent, index |-> 0, name |-> rev, pose |-> rev,
                        created |-> rev, revision |-> rev]
  <2>1. /\ record \in HierarchyRecord
        /\ record.pose = rev
        /\ record.parent = m.parent
        /\ record.revision = rev
    BY DEF HierarchyRecord, IsRequest
  <2>2. NextObjects(objs, m, rev) = InsertAt(Put(objs, m.object, record), m.object, m.index, rev)
    BY <1>1 DEF NextObjects
  <2> HIDE DEF record
  <2> DEFINE grown == Put(objs, m.object, record)
             new == InsertAt(grown, m.object, m.index, rev)
  <2>3. /\ IsMap(grown, Objects, HierarchyRecord)
        /\ DOMAIN grown = DOMAIN objs \cup {m.object}
        /\ grown[m.object] = record
        /\ \A x \in DOMAIN objs \ {m.object} : grown[x] = objs[x]
    BY <2>1 DEF IsObjects, IsRequest, IsMap, Put
  <2> HIDE DEF grown
  <2>4. IsObjects(grown) /\ m.object \in DOMAIN grown /\ m.index \in Nat
    BY <2>3 DEF IsObjects, IsRequest
  <2>5. Reindexed(new, grown, Siblings(grown, m.object) \cup {m.object}, rev)
    BY <2>4, InsertAtType
  <2>6. \A s \in Siblings(grown, m.object) : grown[s].parent = m.parent
    BY <2>1, <2>3, SiblingsShareParent
  <2>7. m.parent \in TouchedParents(objs, m)
    BY <1>1 DEF TouchedParents
  <2> HIDE DEF new
  <2>8. /\ IsObjects(new)
        /\ DOMAIN new = DOMAIN objs \cup {m.object}
        /\ \A k \in DOMAIN new :
             /\ new[k].pose = grown[k].pose
             /\ new[k].parent = grown[k].parent
             /\ new[k].name = grown[k].name
             /\ new[k].revision \in {grown[k].revision, rev}
             /\ k # m.object /\ grown[k].parent # m.parent => new[k].index = grown[k].index
    BY <2>3, <2>5, <2>6 DEF Reindexed
  <2> QED
    BY <1>1, <2>1, <2>2, <2>3, <2>7, <2>8 DEF new, grown
<1>2. CASE m.kind = "delete_object"
  <2> DEFINE rest == Drop(objs, DescendantsIncluding(objs, m.object))
             siblings == ChildrenOf(rest, SceneOf[m.object], objs[m.object].parent)
             new == Reindex(rest, siblings, rev)
  <2>1. NextObjects(objs, m, rev) = new
    BY <1>2 DEF NextObjects
  <2>2. /\ IsObjects(rest)
        /\ DOMAIN rest = DOMAIN objs \ DeletedObjects(objs, m)
        /\ \A k \in DOMAIN rest : rest[k] = objs[k]
    BY <1>2, DropType DEF IsObjects, DeletedObjects
  <2> HIDE DEF rest
  <2>3. siblings \in SUBSET Objects
    BY <2>2, ChildrenAreObjects DEF IsObjects, IsMap
  <2>4. \A s \in siblings : s \in DOMAIN rest /\ rest[s].parent \in TouchedParents(objs, m)
    BY <1>2 DEF TouchedParents, ChildrenOf, SceneObjects
  <2> HIDE DEF siblings
  <2>5. Reindexed(new, rest, siblings, rev)
    BY <2>2, <2>3, ReindexType
  <2> HIDE DEF new
  <2> QED
    BY <1>2, <2>1, <2>2, <2>4, <2>5 DEF Reindexed
<1>3. CASE m.kind = "rename_object"
  <2> DEFINE record == [objs[m.object] EXCEPT !.name = rev, !.revision = rev]
  <2>1. /\ record \in HierarchyRecord
        /\ record.pose = objs[m.object].pose
        /\ record.parent = objs[m.object].parent
        /\ record.revision = rev
    BY <1>3 DEF IsObjects, IsMap, HierarchyRecord
  <2>2. NextObjects(objs, m, rev) = [objs EXCEPT ![m.object] = record]
    BY <1>3 DEF NextObjects
  <2> HIDE DEF record
  <2>3. m.object \in DOMAIN objs /\ DeletedObjects(objs, m) = {}
    BY <1>3 DEF DeletedObjects
  <2>4. /\ IsObjects([objs EXCEPT ![m.object] = record])
        /\ DOMAIN [objs EXCEPT ![m.object] = record] = DOMAIN objs
        /\ [objs EXCEPT ![m.object] = record][m.object] = record
        /\ \A x \in DOMAIN objs \ {m.object} : [objs EXCEPT ![m.object] = record][x] = objs[x]
    BY <2>1, <2>3, EditType
  <2> QED
    BY <1>3, <2>1, <2>2, <2>3, <2>4 
<1>4. CASE m.kind = "reparent_object"
  <2> DEFINE record == [objs[m.object] EXCEPT !.parent = m.parent, !.pose = rev, !.revision = rev]
             moved == [objs EXCEPT ![m.object] = record]
             left == ChildrenOf(moved, SceneOf[m.object], objs[m.object].parent) \ {m.object}
             closed == Reindex(moved, left, rev)
             new == InsertAt(closed, m.object, m.index, rev)
  <2>1. /\ record \in HierarchyRecord
        /\ record.pose = rev
        /\ record.parent = m.parent
        /\ record.revision = rev
    BY <1>4 DEF IsObjects, IsMap, HierarchyRecord, IsRequest
  <2>2. NextObjects(objs, m, rev) = new
    BY <1>4 DEF NextObjects
  <2> HIDE DEF record
  <2>3. /\ IsObjects(moved)
        /\ DOMAIN moved = DOMAIN objs
        /\ moved[m.object] = record
        /\ \A x \in DOMAIN objs \ {m.object} : moved[x] = objs[x]
    BY <1>4, <2>1, EditType
  <2> HIDE DEF moved
  <2>4. left \in SUBSET Objects /\ \A s \in left : moved[s].parent = objs[m.object].parent
    BY <2>3, ChildrenAreObjects DEF IsObjects, IsMap, ChildrenOf
  <2> HIDE DEF left
  <2>5. Reindexed(closed, moved, left, rev)
    BY <2>3, <2>4, ReindexType
  <2> HIDE DEF closed
  <2>6. Reindexed(new, closed, Siblings(closed, m.object) \cup {m.object}, rev)
    <3>1. IsObjects(closed) /\ m.object \in DOMAIN closed /\ m.index \in Nat
      BY <1>4, <2>3, <2>5 DEF IsRequest, Reindexed
    <3> QED
      BY <3>1, InsertAtType
  <2> HIDE DEF new
  <2>7. closed[m.object].parent = m.parent
    BY <1>4, <2>1, <2>3, <2>5 DEF Reindexed
  <2>8. \A s \in Siblings(closed, m.object) : closed[s].parent = m.parent
    BY <2>7, SiblingsShareParent
  <2>9. m.parent \in TouchedParents(objs, m) /\ objs[m.object].parent \in TouchedParents(objs, m)
    BY <1>4 DEF TouchedParents
  <2>10. DeletedObjects(objs, m) = {} /\ m.object \in DOMAIN objs
    BY <1>4 DEF DeletedObjects
  <2>11. /\ IsObjects(new)
         /\ DOMAIN new = DOMAIN objs
         /\ \A k \in DOMAIN objs :
              /\ new[k].pose = moved[k].pose
              /\ new[k].parent = moved[k].parent
              /\ new[k].name = moved[k].name
              /\ new[k].revision \in {moved[k].revision, rev}
              /\ k # m.object /\ moved[k].parent \notin TouchedParents(objs, m)
                   => new[k].index = moved[k].index
    <3>1. DOMAIN closed = DOMAIN objs /\ DOMAIN new = DOMAIN objs /\ IsObjects(new)
      BY <2>3, <2>5, <2>6 DEF Reindexed
    <3>2. \A k \in DOMAIN objs :
            /\ closed[k].pose = moved[k].pose
            /\ closed[k].parent = moved[k].parent
            /\ closed[k].name = moved[k].name
            /\ closed[k].revision \in {moved[k].revision, rev}
            /\ moved[k].parent \notin TouchedParents(objs, m) => closed[k].index = moved[k].index
      BY <2>3, <2>4, <2>5, <2>9 DEF Reindexed
    <3>3. \A k \in DOMAIN objs :
            /\ new[k].pose = closed[k].pose
            /\ new[k].parent = closed[k].parent
            /\ new[k].name = closed[k].name
            /\ new[k].revision \in {closed[k].revision, rev}
            /\ k # m.object /\ closed[k].parent \notin TouchedParents(objs, m)
                 => new[k].index = closed[k].index
      BY <3>1, <2>6, <2>8, <2>9 DEF Reindexed
    <3> QED
      BY <3>1, <3>2, <3>3
  <2> QED
    BY <1>4, <2>1, <2>2, <2>3, <2>10, <2>11
<1>5. CASE m.kind = "reorder_sibling"
  <2> DEFINE ordered == InsertAt(objs, m.object, m.index, rev)
             record == [ordered[m.object] EXCEPT !.revision = rev]
  <2>1. NextObjects(objs, m, rev) = [ordered EXCEPT ![m.object] = record]
    BY <1>5 DEF NextObjects
  <2>2. Reindexed(ordered, objs, Siblings(objs, m.object) \cup {m.object}, rev)
    BY <1>5, InsertAtType DEF IsRequest
  <2>3. \A s \in Siblings(objs, m.object) : objs[s].parent \in TouchedParents(objs, m)
    BY <1>5, SiblingsShareParent DEF TouchedParents
  <2> HIDE DEF ordered
  <2>4. m.object \in DOMAIN ordered /\ m.object \in DOMAIN objs /\ DeletedObjects(objs, m) = {}
    BY <1>5, <2>2 DEF DeletedObjects, Reindexed
  <2>5. /\ record \in HierarchyRecord
        /\ record.pose = ordered[m.object].pose
        /\ record.parent = ordered[m.object].parent
        /\ record.revision = rev
    BY <2>2, <2>4 DEF IsObjects, IsMap, HierarchyRecord, Reindexed
  <2> HIDE DEF record
  <2> DEFINE new == [ordered EXCEPT ![m.object] = record]
  <2>6. /\ IsObjects(new)
        /\ DOMAIN new = DOMAIN ordered
        /\ new[m.object] = record
        /\ \A x \in DOMAIN ordered \ {m.object} : new[x] = ordered[x]
    BY <2>2, <2>4, <2>5, EditType DEF Reindexed
  <2> HIDE DEF new
  <2> QED
    BY <1>5, <2>1, <2>2, <2>3, <2>4, <2>5, <2>6 DEF Reindexed, new
<1> QED
  BY <1>1, <1>2, <1>3, <1>4, <1>5 DEF IsRequest, Kinds

\* A rename moves nothing.
LEMMA RenameKeepsOrder ==
  ASSUME NEW objs, IsObjects(objs), NEW m, IsRequest(m), NEW rev \in Nat,
         m.kind = "rename_object", m.object \in DOMAIN objs
  PROVE  \A k \in DOMAIN objs : NextObjects(objs, m, rev)[k].index = objs[k].index
<1> DEFINE record == [objs[m.object] EXCEPT !.name = rev, !.revision = rev]
<1>1. NextObjects(objs, m, rev) = [objs EXCEPT ![m.object] = record]
  BY DEF NextObjects
<1>2. record.index = objs[m.object].index
  BY DEF IsObjects, IsMap, HierarchyRecord
<1> HIDE DEF record
<1> QED
  BY <1>1, <1>2 DEF IsObjects, IsMap

LEMMA DeletedAreObjects ==
  ASSUME NEW objs, NEW m
  PROVE  DeletedObjects(objs, m) \subseteq DOMAIN objs
  BY DEF DeletedObjects, DescendantsIncluding

\* The record of a seeded object: no edited pose, and the seed's revision.
IsBaseline(record, base) == record.pose = 0 /\ record.revision = base

LEMMA SeedObjectsType ==
  ASSUME NEW scene, NEW nodes, NEW base \in Nat,
         IsMap(nodes, Objects, [parent: Parents, index: Nat, pose: {0}])
  PROVE  /\ IsObjects(SeedObjects(scene, nodes, base))
         /\ DOMAIN SeedObjects(scene, nodes, base) = DOMAIN nodes
         /\ \A k \in DOMAIN nodes : IsBaseline(SeedObjects(scene, nodes, base)[k], base)
<1> DEFINE raw == [k \in DOMAIN nodes |->
                     [parent |-> nodes[k].parent, index |-> nodes[k].index, name |-> 0,
                      pose |-> nodes[k].pose, created |-> 0, revision |-> base]]
           place(k) == Position(raw, ChildrenOf(raw, scene, raw[k].parent), k)
           record(k) == [raw[k] EXCEPT !.index = place(k)]
           seeds == [k \in DOMAIN raw |-> record(k)]
<1>1. SeedObjects(scene, nodes, base) = seeds
  BY DEF SeedObjects
<1>2. /\ IsObjects(raw)
      /\ DOMAIN raw = DOMAIN nodes
      /\ \A k \in DOMAIN nodes : raw[k].pose = 0 /\ raw[k].revision = base
  BY DEF IsMap, IsObjects, HierarchyRecord
<1> HIDE DEF raw
<1>3. ASSUME NEW k
      PROVE  place(k) \in Nat
  BY <1>2, PositionType, ChildrenAreObjects DEF IsObjects, IsMap
<1> HIDE DEF place
<1>4. ASSUME NEW k \in DOMAIN raw
      PROVE  record(k) \in HierarchyRecord /\ record(k).pose = 0 /\ record(k).revision = base
  BY <1>2, <1>3 DEF IsObjects, IsMap, HierarchyRecord
<1> HIDE DEF record
<1> QED
  BY <1>1, <1>2, <1>4 DEF IsObjects, IsMap, IsBaseline

LEMMA MergeType ==
  ASSUME NEW objs, IsObjects(objs), NEW more, IsObjects(more)
  PROVE  /\ IsObjects(Merge(objs, more))
         /\ DOMAIN Merge(objs, more) = DOMAIN objs \cup DOMAIN more
         /\ \A k \in DOMAIN objs \cup DOMAIN more :
              Merge(objs, more)[k] = IF k \in DOMAIN more THEN more[k] ELSE objs[k]
  BY DEF IsObjects, IsMap, Merge

-----------------------------------------------------------------------------
(* Induction, as a statement about a set of numbers. *)

LEMMA NatOrder ==
  \E R : IsWellFoundedOn(R, Nat) /\ \A x, y \in Nat : x < y => <<x, y>> \in R
<1> DEFINE less == OpToRel(<, Nat)
<1>1. IsWellFoundedOn(less, Nat)
  BY NatLessThanWellFounded
<1>2. \A x, y \in Nat : x < y => <<x, y>> \in less
  BY DEF OpToRel
<1> HIDE DEF less
<1> QED
  BY <1>1, <1>2

LEMMA LeastNat ==
  ASSUME NEW T \in SUBSET Nat, T # {}
  PROVE  \E x \in T : \A y \in T : x <= y
<1>1. PICK R : IsWellFoundedOn(R, Nat) /\ \A x, y \in Nat : x < y => <<x, y>> \in R
  BY NatOrder
<1>2. PICK x \in T : \A y \in T : ~ (<<y, x>> \in R)
  <2>1. IsWellFoundedOn(R, Nat) /\ T \subseteq Nat /\ T # {}
    BY <1>1
  <2> QED
    BY <2>1, WFMin
<1>3. \A y \in T : ~(y < x)
  BY <1>1, <1>2
<1>4. \A y \in T : y \in Nat
  OBVIOUS
<1> QED
  BY <1>3, <1>4

\* A set that holds 0 and with each number below n the next holds all up to n.
LEMMA UpTo ==
  ASSUME NEW n \in Nat, NEW T, 0 \in T, \A i \in 0..n : i < n /\ i \in T => i + 1 \in T
  PROVE  0..n \subseteq T
<1> SUFFICES ASSUME (0..n) \ T # {}
             PROVE  FALSE
  OBVIOUS
<1>1. (0..n) \ T \in SUBSET Nat
  OBVIOUS
<1>2. PICK x \in (0..n) \ T : \A y \in (0..n) \ T : x <= y
  BY <1>1, LeastNat
<1>3. x # 0 /\ x - 1 \in 0..n /\ x - 1 < n
  BY <1>2
<1>4. x - 1 \in T
  BY <1>2, <1>3
<1> QED
  BY <1>2, <1>3, <1>4

-----------------------------------------------------------------------------
(* The parent graph. *)

IsChain(f, objs, k, n) == f = [i \in 0..n |-> IF i = 0 THEN k ELSE Up(objs, f[i - 1])]

LEMMA ChainExists ==
  ASSUME NEW objs, NEW k, NEW n \in Nat
  PROVE  \E f : IsChain(f, objs, k, n)
<1> DEFINE T == {m \in 0..n : \E f : IsChain(f, objs, k, m)}
<1>1. 0 \in T
  <2>1. IsChain([i \in 0..0 |-> k], objs, k, 0)
    BY DEF IsChain
  <2> QED
    BY <2>1
<1>2. ASSUME NEW m \in 0..n, m < n, m \in T
      PROVE  m + 1 \in T
  <2>1. PICK f : IsChain(f, objs, k, m)
    BY <1>2
  <2> DEFINE g == [i \in 0..(m + 1) |-> IF i = m + 1 THEN Up(objs, f[m]) ELSE f[i]]
  <2>2. IsChain(g, objs, k, m + 1)
    BY <2>1 DEF IsChain
  <2> QED
    BY <1>2, <2>2
<1> HIDE DEF T
<1>3. n \in T
  BY <1>1, <1>2, UpTo
<1> QED
  BY <1>3 DEF T

\* A chain starts at k and goes up one step at a time.
LEMMA ChainDef ==
  ASSUME NEW objs, NEW k, NEW n \in Nat
  PROVE  /\ Chain(objs, k, n)[0] = k
         /\ \A i \in 0..n : i < n => Chain(objs, k, n)[i + 1] = Up(objs, Chain(objs, k, n)[i])
<1>1. Chain(objs, k, n) = CHOOSE f : IsChain(f, objs, k, n)
  BY DEF Chain, IsChain
<1>2. IsChain(Chain(objs, k, n), objs, k, n)
  BY <1>1, ChainExists
<1> HIDE DEF Chain
<1> QED
  BY <1>2 DEF IsChain

\* Two Hierarchies that lead upwards in the same way from a closed set S have
\* the same chains from there.
LEMMA ChainsAgree ==
  ASSUME NEW old, NEW new, NEW S, NEW k \in S, NEW n \in Nat,
         \A x \in S : Up(new, x) = Up(old, x) /\ Up(old, x) \in S
  PROVE  \A i \in 0..n : Chain(new, k, n)[i] = Chain(old, k, n)[i] /\ Chain(old, k, n)[i] \in S
<1> DEFINE T == {i \in 0..n : Chain(new, k, n)[i] = Chain(old, k, n)[i] /\ Chain(old, k, n)[i] \in S}
<1>1. 0 \in T
  BY ChainDef
<1>2. ASSUME NEW i \in 0..n, i < n, i \in T
      PROVE  i + 1 \in T
  <2>1. Chain(new, k, n)[i + 1] = Up(new, Chain(new, k, n)[i])
    BY <1>2, ChainDef
  <2>2. Chain(old, k, n)[i + 1] = Up(old, Chain(old, k, n)[i])
    BY <1>2, ChainDef
  <2> QED
    BY <1>2, <2>1, <2>2
<1> HIDE DEF T
<1>3. 0..n \subseteq T
  BY <1>1, <1>2, UpTo
<1> QED
  BY <1>3 DEF T

\* The chain from k goes on as the chain from its parent.
LEMMA ChainFromParent ==
  ASSUME NEW objs, NEW k, NEW n \in Nat
  PROVE  \A i \in 0..n : i < n => Chain(objs, k, n)[i + 1] = Chain(objs, Up(objs, k), n)[i]
<1> DEFINE T == {i \in 0..n : i < n => Chain(objs, k, n)[i + 1] = Chain(objs, Up(objs, k), n)[i]}
<1>1. 0 \in T
  <2>1. 0 < n => Chain(objs, k, n)[0 + 1] = Up(objs, Chain(objs, k, n)[0])
    BY ChainDef
  <2>2. Chain(objs, k, n)[0] = k /\ Chain(objs, Up(objs, k), n)[0] = Up(objs, k)
    BY ChainDef
  <2> QED
    BY <2>1, <2>2
<1>2. ASSUME NEW i \in 0..n, i < n, i \in T
      PROVE  i + 1 \in T
  <2>1. SUFFICES ASSUME i + 1 < n
                 PROVE  Chain(objs, k, n)[(i + 1) + 1] = Chain(objs, Up(objs, k), n)[i + 1]
    BY <1>2
  <2>2. Chain(objs, k, n)[(i + 1) + 1] = Up(objs, Chain(objs, k, n)[i + 1])
    BY <2>1, ChainDef
  <2>3. Chain(objs, Up(objs, k), n)[i + 1] = Up(objs, Chain(objs, Up(objs, k), n)[i])
    BY <1>2, ChainDef
  <2> QED
    BY <1>2, <2>2, <2>3
<1> HIDE DEF T
<1>3. 0..n \subseteq T
  BY <1>1, <1>2, UpTo
<1> QED
  BY <1>3 DEF T

\* Whoever hangs below a deleted object is that object, or has a parent that
\* goes too.
LEMMA DescendantsFromParents ==
  ASSUME NEW objs, IsObjects(objs), NEW root \in DOMAIN objs,
         NEW k \in DescendantsIncluding(objs, root), k # root
  PROVE  k \in DOMAIN objs /\ objs[k].parent \in DescendantsIncluding(objs, root)
<1> DEFINE n == Cardinality(DOMAIN objs)
<1>1. DOMAIN objs \subseteq Objects /\ Root \notin DOMAIN objs /\ n \in Nat
  BY HierarchyAssumption, FS_Subset, FS_CardinalityType DEF IsObjects, IsMap
<1>2. k \in DOMAIN objs /\ \E i \in 0..n : Chain(objs, k, n)[i] = root
  BY DEF DescendantsIncluding, Ancestors
<1> HIDE DEF n
<1>3. PICK i \in 0..n : Chain(objs, k, n)[i] = root
  BY <1>2
<1>4. i # 0
  BY <1>1, <1>3, ChainDef
<1>5. i - 1 \in 0..n /\ i - 1 < n /\ (i - 1) + 1 = i
  BY <1>1, <1>4
<1>6. Chain(objs, objs[k].parent, n)[i - 1] = root
  <2>1. Chain(objs, k, n)[(i - 1) + 1] = Chain(objs, Up(objs, k), n)[i - 1]
    BY <1>1, <1>5, ChainFromParent
  <2> QED
    BY <1>2, <1>3, <1>5, <2>1 DEF Up
<1>7. objs[k].parent \in DOMAIN objs
  <2>1. ASSUME objs[k].parent \notin DOMAIN objs
        PROVE  FALSE
    <3>1. objs[k].parent = Root \/ objs[k].parent # Root
      OBVIOUS
    <3>2. \A x : x \notin DOMAIN objs => Up(objs, x) = Root
      BY DEF Up
    <3> DEFINE p == objs[k].parent
               S == {p, Root}
    <3>3. \A x \in S : Up(objs, x) = Up(objs, x) /\ Up(objs, x) \in S
      BY <1>1, <2>1, <3>2
    <3>4. p \in S
      OBVIOUS
    <3> HIDE DEF S
    <3>5. Chain(objs, p, n)[i - 1] \in S
      BY <1>1, <1>5, <3>3, <3>4, ChainsAgree
    <3> QED
      BY <1>1, <1>6, <2>1, <3>5 DEF S
  <2> QED
    BY <2>1
<1> QED
  BY <1>2, <1>5, <1>6, <1>7 DEF DescendantsIncluding, Ancestors, n

\* A change that keeps the objects and their parents keeps the graph valid.
LEMMA GraphKept ==
  ASSUME NEW old, IsObjects(old), NEW new, DOMAIN new = DOMAIN old,
         \A k \in DOMAIN old : new[k].parent = old[k].parent,
         GraphValid(old)
  PROVE  GraphValid(new)
<1> DEFINE n == MaxHierarchyDepth + 1
<1>1. n \in Nat
  BY HierarchyAssumption
<1>2. \A x \in Parents : Up(new, x) = Up(old, x) /\ Up(old, x) \in Parents
  BY DEF Up, IsObjects, IsMap, HierarchyRecord, Parents
<1> SUFFICES ASSUME NEW k \in DOMAIN new
             PROVE  /\ new[k].parent # Root => new[k].parent \in SceneObjects(new, SceneOf[k])
                    /\ Chain(new, k, n)[n] = Root
  BY DEF GraphValid
<1>3. k \in Parents
  BY DEF IsObjects, IsMap, Parents
<1>4. Chain(old, k, n)[n] = Root
  BY DEF GraphValid
<1>5. Chain(new, k, n)[n] = Chain(old, k, n)[n]
  <2> HIDE DEF n
  <2>1. \A i \in 0..n : Chain(new, k, n)[i] = Chain(old, k, n)[i]
    BY <1>1, <1>2, <1>3, ChainsAgree
  <2>2. n \in 0..n
    BY <1>1
  <2> QED
    BY <2>1, <2>2
<1> QED
  BY <1>4, <1>5 DEF GraphValid, SceneObjects

\* Two Hierarchies of different Scenes stay valid when they are put together.
LEMMA GraphsMerge ==
  ASSUME NEW objs, IsObjects(objs), NEW more, IsObjects(more),
         GraphValid(objs), GraphValid(more),
         \A k \in DOMAIN objs, x \in DOMAIN more : SceneOf[k] # SceneOf[x]
  PROVE  GraphValid(Merge(objs, more))
<1> DEFINE n == MaxHierarchyDepth + 1
           all == Merge(objs, more)
<1>1. n \in Nat /\ Root \notin DOMAIN objs /\ Root \notin DOMAIN more
  BY HierarchyAssumption DEF IsObjects, IsMap
<1>2. /\ DOMAIN all = DOMAIN objs \cup DOMAIN more
      /\ \A k \in DOMAIN more : all[k] = more[k]
      /\ \A k \in DOMAIN objs : all[k] = objs[k]
      /\ DOMAIN objs \cap DOMAIN more = {}
  <2>1. DOMAIN objs \cap DOMAIN more = {}
    OBVIOUS
  <2> QED
    BY <2>1 DEF Merge
<1> HIDE DEF all, n
<1>3. ASSUME NEW part \in {objs, more}, NEW k \in DOMAIN part
      PROVE  /\ all[k].parent # Root => all[k].parent \in SceneObjects(all, SceneOf[k])
             /\ Chain(all, k, n)[n] = Root
  <2> DEFINE S == DOMAIN part \cup {Root}
  <2>1. /\ GraphValid(part)
        /\ Root \notin DOMAIN all
        /\ DOMAIN part \subseteq DOMAIN all
        /\ \A x \in DOMAIN part : all[x] = part[x]
    BY <1>1, <1>2
  <2>2. \A x \in DOMAIN part : part[x].parent \in S
    BY <2>1 DEF GraphValid, SceneObjects
  <2>3. \A x \in S : Up(all, x) = Up(part, x) /\ Up(part, x) \in S
    BY <1>1, <2>1, <2>2 DEF Up
  <2>4. k \in S /\ n \in 0..n
    BY <1>1
  <2> HIDE DEF S
  <2>5. Chain(all, k, n)[n] = Chain(part, k, n)[n]
    BY <1>1, <2>3, <2>4, ChainsAgree
  <2> QED
    BY <2>1, <2>5 DEF GraphValid, SceneObjects, n
<1>4. \A k \in DOMAIN all : \E part \in {objs, more} : k \in DOMAIN part
  BY <1>2
<1> QED
  BY <1>3, <1>4 DEF GraphValid, all, n

-----------------------------------------------------------------------------
(* Canonical sibling order. *)

\* Sorting siblings gives each a place of its own, below their number.
LEMMA PositionsOrder ==
  ASSUME NEW objs, IsObjects(objs), NEW S \in SUBSET (DOMAIN objs)
  PROVE  \A k \in S :
           /\ Position(objs, S, k) < Cardinality(S)
           /\ \A s \in S : Position(objs, S, s) = Position(objs, S, k) => s = k
           /\ \A s \in S : Before(objs, s, k) => Position(objs, S, s) < Position(objs, S, k)
<1> DEFINE before(k) == {s \in S : Before(objs, s, k)}
<1>1. IsFiniteSet(S) /\ Cardinality(S) \in Nat
  BY HierarchyAssumption, FS_Subset, FS_CardinalityType DEF IsObjects, IsMap
<1>2. \A k \in S : k \in Objects /\ objs[k].index \in Nat /\ IdOrder[k] \in Nat
  BY HierarchyAssumption DEF IsObjects, IsMap, HierarchyRecord
<1>3. \A k, s \in S : s # k => IdOrder[s] # IdOrder[k]
  BY <1>2, HierarchyAssumption
<1>4. ASSUME NEW k \in S
      PROVE  /\ IsFiniteSet(before(k))
             /\ Cardinality(before(k)) \in Nat
             /\ k \notin before(k)
             /\ Position(objs, S, k) = Cardinality(before(k))
  <2>1. before(k) \in SUBSET S
    OBVIOUS
  <2>2. IsFiniteSet(before(k)) /\ Cardinality(before(k)) \in Nat
    BY <1>1, <2>1, FS_Subset, FS_CardinalityType
  <2>3. ~ Before(objs, k, k)
    BY <1>2 DEF Before
  <2> QED
    BY <2>2, <2>3 DEF Position
<1>5. ASSUME NEW k \in S
      PROVE  Position(objs, S, k) < Cardinality(S)
  <2>1. IsFiniteSet(S \ {k}) /\ Cardinality(S \ {k}) = Cardinality(S) - 1
    BY <1>1, FS_RemoveElement
  <2>2. before(k) \in SUBSET (S \ {k})
    BY <1>4
  <2>3. Cardinality(before(k)) <= Cardinality(S) - 1
    BY <2>1, <2>2, FS_Subset
  <2> QED
    BY <1>1, <1>4, <2>3
<1>6. ASSUME NEW k \in S, NEW s \in S, Before(objs, s, k)
      PROVE  Position(objs, S, s) < Position(objs, S, k)
  <2>1. /\ IsFiniteSet(before(k) \ {s})
        /\ Cardinality(before(k) \ {s}) = Cardinality(before(k)) - 1
    BY <1>4, <1>6, FS_RemoveElement
  <2>2. \A x \in S : Before(objs, x, s) => Before(objs, x, k)
    BY <1>2, <1>6 DEF Before
  <2>3. before(s) \in SUBSET (before(k) \ {s})
    BY <1>4, <2>2
  <2>4. Cardinality(before(s)) <= Cardinality(before(k)) - 1
    BY <2>1, <2>3, FS_Subset
  <2>5. Cardinality(before(s)) \in Nat /\ Cardinality(before(k)) \in Nat
    BY <1>4
  <2>6. Position(objs, S, s) = Cardinality(before(s)) /\ Position(objs, S, k) = Cardinality(before(k))
    BY <1>4
  <2> QED
    BY <2>4, <2>5, <2>6
<1>7. ASSUME NEW k \in S, NEW s \in S, s # k
      PROVE  Before(objs, s, k) \/ Before(objs, k, s)
  BY <1>2, <1>3, <1>7 DEF Before
<1>8. \A k \in S : Position(objs, S, k) \in Nat
  BY <1>4
<1> QED
  BY <1>5, <1>6, <1>7, <1>8

\* The children of one place are in canonical order.
GroupOrdered(objs, scene, parent) ==
  \A k \in ChildrenOf(objs, scene, parent) :
    /\ objs[k].index < Cardinality(ChildrenOf(objs, scene, parent))
    /\ \A s \in ChildrenOf(objs, scene, parent) : objs[s].index = objs[k].index => s = k

LEMMA OrderByGroups ==
  ASSUME NEW objs, IsObjects(objs)
  PROVE  CanonicalOrder(objs) <=> \A scene \in Scenes, parent \in Parents : GroupOrdered(objs, scene, parent)
<1>1. \A k \in DOMAIN objs :
        /\ SceneOf[k] \in Scenes
        /\ objs[k].parent \in Parents
        /\ k \in ChildrenOf(objs, SceneOf[k], objs[k].parent)
  BY HierarchyAssumption DEF IsObjects, IsMap, HierarchyRecord, ChildrenOf, SceneObjects
<1>2. \A scene, parent : \A k \in ChildrenOf(objs, scene, parent) :
        k \in DOMAIN objs /\ SceneOf[k] = scene /\ objs[k].parent = parent
  BY DEF ChildrenOf, SceneObjects
<1> QED
  BY <1>1, <1>2 DEF CanonicalOrder, GroupOrdered

\* Same children with the same indexes: as ordered as before.
LEMMA GroupKept ==
  ASSUME NEW old, NEW new, NEW scene, NEW parent,
         ChildrenOf(new, scene, parent) = ChildrenOf(old, scene, parent),
         \A k \in ChildrenOf(old, scene, parent) : new[k].index = old[k].index,
         GroupOrdered(old, scene, parent)
  PROVE  GroupOrdered(new, scene, parent)
  BY DEF GroupOrdered

LEMMA ReindexedChildren ==
  ASSUME NEW objs, NEW new, NEW S, NEW rev, Reindexed(new, objs, S, rev),
         NEW scene, NEW parent
  PROVE  ChildrenOf(new, scene, parent) = ChildrenOf(objs, scene, parent)
  BY DEF Reindexed, ChildrenOf, SceneObjects

\* New indexes among the children of one place leave the other places alone.
LEMMA OtherGroupsKept ==
  ASSUME NEW objs, NEW new, NEW S, NEW rev, Reindexed(new, objs, S, rev),
         NEW scene, NEW parent, S \subseteq ChildrenOf(objs, scene, parent),
         NEW otherScene, NEW otherParent, <<otherScene, otherParent>> # <<scene, parent>>,
         GroupOrdered(objs, otherScene, otherParent)
  PROVE  GroupOrdered(new, otherScene, otherParent)
<1> DEFINE others == ChildrenOf(objs, otherScene, otherParent)
<1>1. ChildrenOf(new, otherScene, otherParent) = others
  BY ReindexedChildren
<1>2. \A k \in others : k \in DOMAIN objs /\ k \notin S
  BY DEF ChildrenOf, SceneObjects
<1>3. \A k \in others : new[k].index = objs[k].index
  BY <1>2 DEF Reindexed
<1> QED
  BY <1>1, <1>3, GroupKept

LEMMA ReindexOrders ==
  ASSUME NEW objs, IsObjects(objs), NEW scene, NEW parent, NEW rev \in Nat
  PROVE  GroupOrdered(Reindex(objs, ChildrenOf(objs, scene, parent), rev), scene, parent)
<1> DEFINE S == ChildrenOf(objs, scene, parent)
           new == Reindex(objs, S, rev)
<1>1. S \in SUBSET (DOMAIN objs) /\ S \in SUBSET Objects
  BY ChildrenAreObjects DEF IsObjects, IsMap
<1>2. Reindexed(new, objs, S, rev) /\ \A k \in DOMAIN objs \cap S : new[k].index = Position(objs, S, k)
  BY <1>1, ReindexType
<1>3. ChildrenOf(new, scene, parent) = S
  BY <1>2, ReindexedChildren
<1>4. \A k \in S : /\ Position(objs, S, k) < Cardinality(S)
                   /\ \A s \in S : Position(objs, S, s) = Position(objs, S, k) => s = k
  BY <1>1, PositionsOrder
<1>5. \A k \in S : new[k].index = Position(objs, S, k)
  BY <1>1, <1>2
<1> HIDE DEF S, new
<1>6. GroupOrdered(new, scene, parent)
  BY <1>3, <1>4, <1>5 DEF GroupOrdered
<1> QED
  BY <1>6 DEF new, S

LEMMA InsertAtOrders ==
  ASSUME NEW objs, IsObjects(objs), NEW k \in DOMAIN objs,
         NEW requested \in Nat, NEW rev \in Nat
  PROVE  GroupOrdered(InsertAt(objs, k, requested, rev), SceneOf[k], objs[k].parent)
<1> DEFINE S == Siblings(objs, k)
           G == ChildrenOf(objs, SceneOf[k], objs[k].parent)
           new == InsertAt(objs, k, requested, rev)
           at == Clamped(objs, k, requested)
           n == Cardinality(S)
           pos(s) == Position(objs, S, s)
<1>1. S \in SUBSET (DOMAIN objs) /\ S \in SUBSET Objects /\ k \notin S /\ G = S \cup {k}
  BY ChildrenAreObjects DEF IsObjects, IsMap, Siblings, ChildrenOf, SceneObjects
<1>2. IsFiniteSet(S) /\ n \in Nat
  BY <1>1, HierarchyAssumption, FS_Subset, FS_CardinalityType
<1>3. Cardinality(G) = n + 1
  BY <1>1, <1>2, FS_AddElement
<1>4. /\ Reindexed(new, objs, S \cup {k}, rev)
      /\ new[k].index = at
      /\ \A s \in S : new[s].index = Shifted(objs, k, requested, s)
  BY InsertAtType
<1>5. ChildrenOf(new, SceneOf[k], objs[k].parent) = G
  BY <1>4, ReindexedChildren
<1>6. \A s \in S : /\ pos(s) \in Nat
                   /\ pos(s) < n
                   /\ \A t \in S : pos(t) = pos(s) => t = s
  <2> HIDE DEF S
  <2>1. \A s \in S : pos(s) \in Nat
    BY <1>1, PositionType
  <2>2. \A s \in S : pos(s) < n /\ \A t \in S : pos(t) = pos(s) => t = s
    BY <1>1, PositionsOrder
  <2> QED
    BY <2>1, <2>2
<1>7. at \in Nat /\ at <= n
  BY <1>2 DEF Clamped
<1>8. \A s \in S : new[s].index = IF pos(s) < at THEN pos(s) ELSE pos(s) + 1
  BY <1>4 DEF Shifted
<1> HIDE DEF S, G, new, at, n, pos
<1>9. \A s \in S : /\ new[s].index \in Nat
                   /\ new[s].index < n + 1
                   /\ new[s].index # at
                   /\ \A t \in S : new[t].index = new[s].index => t = s
  BY <1>2, <1>6, <1>7, <1>8
<1>10. at < n + 1
  BY <1>2, <1>7
<1>11. GroupOrdered(new, SceneOf[k], objs[k].parent)
  BY <1>1, <1>3, <1>4, <1>5, <1>9, <1>10 DEF GroupOrdered
<1> QED
  BY <1>11 DEF new

\* An operation whose result is a valid graph leaves every place ordered.
LEMMA OperationOrders ==
  ASSUME NEW objs, IsObjects(objs), NEW m, IsRequest(m), NEW rev \in Nat,
         m.kind # "create_object" => m.object \in DOMAIN objs,
         m.kind = "create_object" => m.object \notin DOMAIN objs,
         CanonicalOrder(objs),
         GraphValid(NextObjects(objs, m, rev))
  PROVE  CanonicalOrder(NextObjects(objs, m, rev))
<1> DEFINE next == NextObjects(objs, m, rev)
<1>1. \A scene \in Scenes, parent \in Parents : GroupOrdered(objs, scene, parent)
  BY OrderByGroups
<1>2. IsObjects(next)
  BY NextObjectsType DEF Follows
<1> SUFFICES ASSUME NEW scene \in Scenes, NEW parent \in Parents
             PROVE  GroupOrdered(next, scene, parent)
  <2> HIDE DEF next
  <2>1. CanonicalOrder(next)
    BY <1>2, OrderByGroups
  <2> QED
    BY <2>1 DEF next
<1>3. CASE m.kind = "create_object"
  <2> DEFINE record == [parent |-> m.parent, index |-> 0, name |-> rev, pose |-> rev,
                        created |-> rev, revision |-> rev]
             grown == Put(objs, m.object, record)
             here == Siblings(grown, m.object) \cup {m.object}
  <2>1. next = InsertAt(grown, m.object, m.index, rev)
    BY <1>3 DEF NextObjects
  <2>2. record \in HierarchyRecord /\ record.parent = m.parent /\ m.index \in Nat /\ m.object \in Objects
    BY DEF HierarchyRecord, IsRequest
  <2> HIDE DEF record
  <2>3. /\ IsObjects(grown)
        /\ DOMAIN grown = DOMAIN objs \cup {m.object}
        /\ grown[m.object].parent = m.parent
        /\ \A x \in DOMAIN objs : grown[x] = objs[x]
    BY <1>3, <2>2 DEF IsObjects, IsMap, Put
  <2> HIDE DEF grown
  <2>4. CASE scene = SceneOf[m.object] /\ parent = m.parent
    BY <2>1, <2>2, <2>3, <2>4, InsertAtOrders
  <2>5. CASE <<scene, parent>> # <<SceneOf[m.object], m.parent>>
    <3>1. ChildrenOf(grown, scene, parent) = ChildrenOf(objs, scene, parent)
      BY <1>3, <2>3, <2>5 DEF ChildrenOf, SceneObjects
    <3>2. \A k \in ChildrenOf(objs, scene, parent) : grown[k].index = objs[k].index
      BY <2>3 DEF ChildrenOf, SceneObjects
    <3>3. GroupOrdered(grown, scene, parent)
      BY <1>1, <3>1, <3>2, GroupKept
    <3>4. Reindexed(next, grown, here, rev)
      <4>1. m.object \in DOMAIN grown
        BY <2>3
      <4>2. Reindexed(InsertAt(grown, m.object, m.index, rev), grown, here, rev)
        BY <2>2, <2>3, <4>1, InsertAtType
      <4> HIDE DEF next
      <4> QED
        BY <2>1, <4>2
    <3>5. here \subseteq ChildrenOf(grown, SceneOf[m.object], m.parent)
      BY <2>3 DEF Siblings, ChildrenOf, SceneObjects
    <3> HIDE DEF next, here
    <3> QED
      BY <2>5, <3>3, <3>4, <3>5, OtherGroupsKept
  <2> QED
    BY <2>4, <2>5
<1>4. CASE m.kind = "delete_object"
  <2> DEFINE gone == DescendantsIncluding(objs, m.object)
             rest == Drop(objs, gone)
             home == objs[m.object].parent
             left == ChildrenOf(rest, SceneOf[m.object], home)
  <2>1. next = Reindex(rest, left, rev)
    BY <1>4 DEF NextObjects
  <2>2. IsObjects(rest) /\ DOMAIN rest = DOMAIN objs \ gone /\ \A k \in DOMAIN rest : rest[k] = objs[k]
    BY DropType DEF IsObjects
  <2>3. m.object \in DOMAIN objs /\ \A k \in gone : k # m.object => objs[k].parent \in gone
    BY <1>4, DescendantsFromParents
  <2>4. \A k \in gone : k \in DOMAIN objs
    BY DEF DescendantsIncluding
  <2> HIDE DEF gone, rest
  <2>5. CASE scene = SceneOf[m.object] /\ parent = home
    BY <2>1, <2>2, <2>5, ReindexOrders
  <2>6. CASE <<scene, parent>> # <<SceneOf[m.object], home>>
    <3>1. left \in SUBSET Objects
      BY <2>2, ChildrenAreObjects DEF IsObjects, IsMap
    <3>2. Reindexed(next, rest, left, rev)
      BY <2>1, <2>2, <3>1, ReindexType
    <3>3. GroupOrdered(rest, scene, parent)
      <4>1. CASE parent \in gone
        <5>1. ASSUME NEW k \in ChildrenOf(rest, scene, parent)
              PROVE  FALSE
          <6>1. k \in DOMAIN next /\ next[k].parent = parent /\ parent \notin DOMAIN next
            BY <2>2, <3>2, <4>1 DEF ChildrenOf, SceneObjects, Reindexed
          <6>2. parent # Root
            BY <2>4, <4>1, HierarchyAssumption DEF IsObjects, IsMap
          <6> QED
            BY <6>1, <6>2 DEF GraphValid, SceneObjects
        <5> QED
          BY <5>1 DEF GroupOrdered
      <4>2. CASE parent \notin gone
        <5>1. \A k \in ChildrenOf(objs, scene, parent) : k \notin gone
          BY <2>3, <2>6, <4>2 DEF ChildrenOf, SceneObjects
        <5>2. ChildrenOf(rest, scene, parent) = ChildrenOf(objs, scene, parent)
          BY <2>2, <5>1 DEF ChildrenOf, SceneObjects
        <5>3. \A k \in ChildrenOf(objs, scene, parent) : rest[k].index = objs[k].index
          BY <2>2, <5>1 DEF ChildrenOf, SceneObjects
        <5> QED
          BY <1>1, <5>2, <5>3, GroupKept
      <4> QED
        BY <4>1, <4>2
    <3> HIDE DEF next
    <3> QED
      BY <2>6, <3>2, <3>3, OtherGroupsKept
  <2> QED
    BY <2>5, <2>6
<1>5. CASE m.kind = "rename_object"
  <2> DEFINE record == [objs[m.object] EXCEPT !.name = rev, !.revision = rev]
  <2>1. m.object \in DOMAIN objs
    BY <1>5
  <2>2. record.index = objs[m.object].index /\ record.parent = objs[m.object].parent
    BY <2>1 DEF IsObjects, IsMap, HierarchyRecord
  <2>3. next = [objs EXCEPT ![m.object] = record]
    BY <1>5 DEF NextObjects
  <2> HIDE DEF record
  <2>4. /\ DOMAIN next = DOMAIN objs
        /\ \A k \in DOMAIN objs : next[k].index = objs[k].index /\ next[k].parent = objs[k].parent
    BY <2>1, <2>2, <2>3 DEF IsObjects, IsMap
  <2> HIDE DEF next
  <2>5. ChildrenOf(next, scene, parent) = ChildrenOf(objs, scene, parent)
    BY <2>4 DEF ChildrenOf, SceneObjects
  <2>6. \A k \in ChildrenOf(objs, scene, parent) : next[k].index = objs[k].index
    BY <2>4 DEF ChildrenOf, SceneObjects
  <2> QED
    BY <1>1, <2>5, <2>6, GroupKept
<1>6. CASE m.kind = "reparent_object"
  <2> DEFINE record == [objs[m.object] EXCEPT !.parent = m.parent, !.pose = rev, !.revision = rev]
             home == objs[m.object].parent
             moved == [objs EXCEPT ![m.object] = record]
             left == ChildrenOf(moved, SceneOf[m.object], home) \ {m.object}
             closed == Reindex(moved, left, rev)
             here == Siblings(closed, m.object) \cup {m.object}
  <2>1. next = InsertAt(closed, m.object, m.index, rev)
    BY <1>6 DEF NextObjects
  <2>2. /\ m.object \in DOMAIN objs
        /\ record \in HierarchyRecord
        /\ record.parent = m.parent
        /\ m.index \in Nat
    BY <1>6 DEF IsObjects, IsMap, HierarchyRecord, IsRequest
  <2> HIDE DEF record
  <2>3. /\ IsObjects(moved)
        /\ DOMAIN moved = DOMAIN objs
        /\ moved[m.object].parent = m.parent
        /\ \A x \in DOMAIN objs \ {m.object} : moved[x] = objs[x]
    BY <2>2, EditType
  <2> HIDE DEF moved
  <2>4. left \in SUBSET Objects /\ left \subseteq ChildrenOf(moved, SceneOf[m.object], home)
    BY <2>3, ChildrenAreObjects DEF IsObjects, IsMap
  <2>5. Reindexed(closed, moved, left, rev)
    BY <2>3, <2>4, ReindexType
  <2>6. IsObjects(closed) /\ m.object \in DOMAIN closed /\ closed[m.object].parent = m.parent
    BY <2>2, <2>3, <2>5 DEF Reindexed
  <2>7. CASE scene = SceneOf[m.object] /\ parent = m.parent
    BY <2>1, <2>2, <2>6, <2>7, InsertAtOrders
  <2>8. CASE <<scene, parent>> # <<SceneOf[m.object], m.parent>>
    <3>1. GroupOrdered(closed, scene, parent)
      <4>1. CASE scene = SceneOf[m.object] /\ parent = home
        <5>1. left = ChildrenOf(moved, SceneOf[m.object], home)
          BY <2>3, <2>8, <4>1 DEF ChildrenOf
        <5> HIDE DEF left
        <5> QED
          BY <2>3, <4>1, <5>1, ReindexOrders
      <4>2. CASE <<scene, parent>> # <<SceneOf[m.object], home>>
        <5>1. ChildrenOf(moved, scene, parent) = ChildrenOf(objs, scene, parent)
          BY <2>2, <2>3, <2>8, <4>2 DEF ChildrenOf, SceneObjects
        <5>2. \A k \in ChildrenOf(objs, scene, parent) : k # m.object /\ k \in DOMAIN objs
          BY <4>2 DEF ChildrenOf, SceneObjects
        <5>3. \A k \in ChildrenOf(objs, scene, parent) : moved[k].index = objs[k].index
          BY <2>3, <5>2
        <5>4. GroupOrdered(moved, scene, parent)
          BY <1>1, <5>1, <5>3, GroupKept
        <5> HIDE DEF closed, left, home
        <5> QED
          BY <2>4, <2>5, <4>2, <5>4, OtherGroupsKept
      <4> QED
        BY <4>1, <4>2
    <3> HIDE DEF closed
    <3>2. Reindexed(next, closed, here, rev)
      <4>1. Reindexed(InsertAt(closed, m.object, m.index, rev), closed, here, rev)
        BY <2>2, <2>6, InsertAtType
      <4> HIDE DEF next
      <4> QED
        BY <2>1, <4>1
    <3>3. here \subseteq ChildrenOf(closed, SceneOf[m.object], m.parent)
      BY <2>6 DEF Siblings, ChildrenOf, SceneObjects
    <3> HIDE DEF next, here
    <3> QED
      BY <2>8, <3>1, <3>2, <3>3, OtherGroupsKept
  <2> QED
    BY <2>7, <2>8
<1>7. CASE m.kind = "reorder_sibling"
  <2> DEFINE ordered == InsertAt(objs, m.object, m.index, rev)
             record == [ordered[m.object] EXCEPT !.revision = rev]
             here == Siblings(objs, m.object) \cup {m.object}
  <2>1. m.object \in DOMAIN objs /\ m.index \in Nat
    BY <1>7 DEF IsRequest
  <2>2. Reindexed(ordered, objs, here, rev)
    BY <2>1, InsertAtType
  <2>3. here \subseteq ChildrenOf(objs, SceneOf[m.object], objs[m.object].parent)
    BY <2>1 DEF Siblings, ChildrenOf, SceneObjects
  <2>4. GroupOrdered(ordered, scene, parent)
    <3>1. CASE scene = SceneOf[m.object] /\ parent = objs[m.object].parent
      BY <2>1, <3>1, InsertAtOrders
    <3>2. CASE <<scene, parent>> # <<SceneOf[m.object], objs[m.object].parent>>
      <4> HIDE DEF ordered, here
      <4> QED
        BY <1>1, <2>2, <2>3, <3>2, OtherGroupsKept
    <3> QED
      BY <3>1, <3>2
  <2>5. next = [ordered EXCEPT ![m.object] = record]
    BY <1>7 DEF NextObjects
  <2> HIDE DEF ordered, here
  <2>6. /\ record.index = ordered[m.object].index
        /\ record.parent = ordered[m.object].parent
        /\ m.object \in DOMAIN ordered
    BY <2>1, <2>2 DEF Reindexed, IsObjects, IsMap, HierarchyRecord
  <2> HIDE DEF record
  <2>7. /\ DOMAIN next = DOMAIN ordered
        /\ \A k \in DOMAIN ordered : next[k].index = ordered[k].index /\ next[k].parent = ordered[k].parent
    BY <2>2, <2>5, <2>6 DEF Reindexed, IsObjects, IsMap
  <2> HIDE DEF next
  <2>8. ChildrenOf(next, scene, parent) = ChildrenOf(ordered, scene, parent)
    BY <2>7 DEF ChildrenOf, SceneObjects
  <2>9. \A k \in ChildrenOf(ordered, scene, parent) : next[k].index = ordered[k].index
    BY <2>7 DEF ChildrenOf, SceneObjects
  <2> QED
    BY <2>4, <2>8, <2>9, GroupKept
<1> QED
  BY <1>3, <1>4, <1>5, <1>6, <1>7 DEF IsRequest, Kinds

\* Same objects, parents and indexes: as ordered as before.
LEMMA OrderKept ==
  ASSUME NEW old, NEW new, DOMAIN new = DOMAIN old,
         \A k \in DOMAIN old : new[k].parent = old[k].parent /\ new[k].index = old[k].index,
         CanonicalOrder(old)
  PROVE  CanonicalOrder(new)
<1>1. \A scene, parent : ChildrenOf(new, scene, parent) = ChildrenOf(old, scene, parent)
  BY DEF ChildrenOf, SceneObjects
<1>2. \A scene, parent : \A k \in ChildrenOf(old, scene, parent) : k \in DOMAIN old
  BY DEF ChildrenOf, SceneObjects
<1> QED
  BY <1>1, <1>2 DEF CanonicalOrder

\* The baseline of a Scene is in canonical order, whatever indexes it came with.
LEMMA SeedOrders ==
  ASSUME NEW scene \in Scenes, NEW nodes, NEW base \in Nat,
         IsMap(nodes, Objects, [parent: Parents, index: Nat, pose: {0}]),
         SeedWellFormed(scene, nodes)
  PROVE  CanonicalOrder(SeedObjects(scene, nodes, base))
<1> DEFINE raw == [k \in DOMAIN nodes |->
                     [parent |-> nodes[k].parent, index |-> nodes[k].index, name |-> 0,
                      pose |-> nodes[k].pose, created |-> 0, revision |-> base]]
           group(p) == ChildrenOf(raw, scene, p)
           seeds == SeedObjects(scene, nodes, base)
<1>1. seeds = [k \in DOMAIN raw |-> [raw[k] EXCEPT !.index = Position(raw, group(raw[k].parent), k)]]
  BY DEF SeedObjects
<1>2. IsObjects(raw) /\ DOMAIN raw = DOMAIN nodes
  BY DEF IsMap, IsObjects, HierarchyRecord
<1>3. \A k \in DOMAIN raw : SceneOf[k] = scene
  BY <1>2 DEF SeedWellFormed
<1>4. IsObjects(seeds) /\ DOMAIN seeds = DOMAIN raw
  <2>1. /\ IsObjects(SeedObjects(scene, nodes, base))
        /\ DOMAIN SeedObjects(scene, nodes, base) = DOMAIN nodes
    BY SeedObjectsType
  <2> QED
    BY <1>2, <2>1
<1> HIDE DEF raw, seeds
<1>5. \A k \in DOMAIN raw : /\ seeds[k].parent = raw[k].parent
                            /\ seeds[k].index = Position(raw, group(raw[k].parent), k)
  <2>1. ASSUME NEW k \in DOMAIN raw, NEW n
        PROVE  /\ [raw[k] EXCEPT !.index = n].parent = raw[k].parent
               /\ [raw[k] EXCEPT !.index = n].index = n
    BY <1>2 DEF IsObjects, IsMap, HierarchyRecord
  <2> HIDE DEF group
  <2> QED
    BY <1>1, <2>1
<1> SUFFICES ASSUME NEW sc \in Scenes, NEW parent \in Parents
             PROVE  GroupOrdered(seeds, sc, parent)
  <2>1. CanonicalOrder(seeds)
    BY <1>4, OrderByGroups
  <2> QED
    BY <2>1 DEF seeds
<1>6. CASE sc = scene
  <2> DEFINE S == group(parent)
  <2>1. ChildrenOf(seeds, scene, parent) = S
    BY <1>4, <1>5 DEF ChildrenOf, SceneObjects
  <2>2. S \in SUBSET (DOMAIN raw)
    BY <1>2, ChildrenAreObjects
  <2>3. \A k \in S : seeds[k].index = Position(raw, S, k)
    BY <1>5, <2>2 DEF ChildrenOf
  <2> HIDE DEF S
  <2>4. \A k \in S : /\ Position(raw, S, k) < Cardinality(S)
                     /\ \A s \in S : Position(raw, S, s) = Position(raw, S, k) => s = k
    BY <1>2, <2>2, PositionsOrder
  <2> QED
    BY <1>6, <2>1, <2>3, <2>4 DEF GroupOrdered
<1>7. CASE sc # scene
  <2>1. ChildrenOf(seeds, sc, parent) = {}
    BY <1>3, <1>4, <1>7 DEF ChildrenOf, SceneObjects
  <2> QED
    BY <2>1 DEF GroupOrdered
<1> QED
  BY <1>6, <1>7

LEMMA OrdersMerge ==
  ASSUME NEW objs, IsObjects(objs), NEW more, IsObjects(more),
         CanonicalOrder(objs), CanonicalOrder(more),
         \A k \in DOMAIN objs, x \in DOMAIN more : SceneOf[k] # SceneOf[x]
  PROVE  CanonicalOrder(Merge(objs, more))
<1> DEFINE all == Merge(objs, more)
<1>1. /\ DOMAIN all = DOMAIN objs \cup DOMAIN more
      /\ \A k \in DOMAIN more : all[k] = more[k]
      /\ \A k \in DOMAIN objs : all[k] = objs[k]
  <2>1. DOMAIN objs \cap DOMAIN more = {}
    OBVIOUS
  <2> QED
    BY <2>1 DEF Merge
<1> HIDE DEF all
<1>2. ASSUME NEW part \in {objs, more}, NEW k \in DOMAIN part
      PROVE  /\ ChildrenOf(all, SceneOf[k], all[k].parent) = ChildrenOf(part, SceneOf[k], part[k].parent)
             /\ CanonicalOrder(part)
             /\ \A x \in DOMAIN part : all[x] = part[x]
  <2>1. \A x \in DOMAIN all : SceneOf[x] = SceneOf[k] <=> x \in DOMAIN part /\ SceneOf[x] = SceneOf[k]
    BY <1>1, <1>2
  <2>2. DOMAIN part \subseteq DOMAIN all /\ \A x \in DOMAIN part : all[x] = part[x]
    BY <1>1
  <2>3. SceneObjects(all, SceneOf[k]) = SceneObjects(part, SceneOf[k])
    BY <2>1, <2>2 DEF SceneObjects
  <2>4. \A x \in SceneObjects(part, SceneOf[k]) : all[x] = part[x]
    BY <2>2 DEF SceneObjects
  <2> QED
    BY <2>2, <2>3, <2>4 DEF ChildrenOf
<1>3. \A k \in DOMAIN all : \E part \in {objs, more} : k \in DOMAIN part
  BY <1>1
<1>4. ASSUME NEW part \in {objs, more}, NEW k \in DOMAIN part
      PROVE  LET siblings == ChildrenOf(all, SceneOf[k], all[k].parent)
             IN  /\ all[k].index < Cardinality(siblings)
                 /\ \A s \in siblings : all[s].index = all[k].index => s = k
  <2> DEFINE S == ChildrenOf(part, SceneOf[k], part[k].parent)
  <2>1. \A s \in S : s \in DOMAIN part
    BY DEF ChildrenOf, SceneObjects
  <2>2. part[k].index < Cardinality(S) /\ \A s \in S : part[s].index = part[k].index => s = k
    BY <1>2 DEF CanonicalOrder
  <2> HIDE DEF S
  <2>3. ChildrenOf(all, SceneOf[k], all[k].parent) = S /\ \A x \in DOMAIN part : all[x] = part[x]
    BY <1>2 DEF S
  <2> QED
    BY <2>1, <2>2, <2>3
<1> QED
  BY <1>3, <1>4 DEF CanonicalOrder, all

-----------------------------------------------------------------------------
(* The session: types. *)

LEMMA RequestsAreRequests ==
  ASSUME NEW m \in HierarchyRequests
  PROVE  IsRequest(m)
<1>1. IsFiniteSet(Objects) /\ Cardinality(Objects) \in Nat
  BY HierarchyAssumption, FS_CardinalityType
<1> QED
  BY <1>1 DEF HierarchyRequests, IsRequest

\* Dropping expired locks, and any others, leaves a lock table.
LEMMA LiveLocksType ==
  ASSUME TypeOK
  PROVE  /\ IsMap(LiveLocks, Objects, LockState)
         /\ DOMAIN LiveLocks = DOMAIN locks \ Expired
         /\ \A k \in DOMAIN LiveLocks : LiveLocks[k] = locks[k]
<1>1. IsMap(locks, Objects, LockState)
  BY DEF TypeOK
<1>2. /\ IsMap(Drop(locks, Expired), Objects, LockState)
      /\ DOMAIN Drop(locks, Expired) = DOMAIN locks \ Expired
      /\ \A k \in DOMAIN locks \ Expired : Drop(locks, Expired)[k] = locks[k]
  BY <1>1, DropType
<1> QED
  BY <1>2 DEF LiveLocks

\* The roll-back of an update that is too large for the snapshot restores both
\* copies of the pose: what is left of the request is the removal of expired locks.
LEMMA RollbackRestores ==
  ASSUME TypeOK, NEW c \in Conns, NEW k \in Objects, NEW id \in OpIds, NEW base \in 0..MaxRevision,
         TransformTooLarge(c, k, id, base)
  PROVE  /\ transforms' = transforms /\ objects' = objects
         /\ locks' = LiveLocks
         /\ UNCHANGED <<open, members, selected, tombstones, scenes, operations, revision>>
<1> DEFINE applied == [pose |-> revision + 1, revision |-> revision + 1]
<1>1. /\ IsMap(transforms, Objects, [pose: Nat, revision: Nat])
      /\ IsMap(objects, Objects, HierarchyRecord)
  BY DEF TypeOK
<1>2. RestoredTransforms(k) = transforms
  <2>1. MovedTransforms(k) = Put(transforms, k, applied)
    BY DEF MovedTransforms
  <2> HIDE DEF applied
  <2>2. CASE k \in DOMAIN transforms
    <3>1. RestoredTransforms(k) = Put(Put(transforms, k, applied), k, transforms[k])
      BY <2>1, <2>2 DEF RestoredTransforms
    <3> QED
      BY <1>1, <2>2, <3>1 DEF Put, IsMap
  <2>3. CASE k \notin DOMAIN transforms
    <3>1. RestoredTransforms(k) = Drop(Put(transforms, k, applied), {k})
      BY <2>1, <2>3 DEF RestoredTransforms
    <3> QED
      BY <1>1, <2>3, <3>1 DEF Put, Drop, IsMap
  <2> QED
    BY <2>2, <2>3
<1>3. RestoredObjects(k) = objects
  <2>1. CASE k \in DOMAIN objects
    <3> DEFINE moved == [objects[k] EXCEPT !.pose = revision + 1]
    <3>1. objects[k] \in HierarchyRecord /\ objects = [x \in DOMAIN objects |-> objects[x]]
      BY <1>1, <2>1 DEF IsMap
    <3>2. [moved EXCEPT !.pose = objects[k].pose] = objects[k]
      BY <3>1 DEF HierarchyRecord
    <3>3. RestoredObjects(k) = [[objects EXCEPT ![k] = moved] EXCEPT ![k] = [moved EXCEPT !.pose = objects[k].pose]]
      BY <2>1, <3>1 DEF RestoredObjects, MovedObjects
    <3> HIDE DEF moved
    <3> QED
      BY <3>1, <3>2, <3>3
  <2> QED
    BY <2>1 DEF RestoredObjects, MovedObjects
<1> QED
  BY <1>2, <1>3 DEF TransformTooLarge, log

LEMMA RememberType ==
  ASSUME TypeOK, NEW c \in Conns, NEW id \in OpIds, Remember(c, id)
  PROVE  operations' \in Seq(Applied)
<1> DEFINE entry == [id |-> id, user |-> UserOf[c], revision |-> revision + 1]
           longer == Append(operations, entry)
<1>1. entry \in Applied
  BY AuthorityAssumption DEF TypeOK, Applied
<1> HIDE DEF entry
<1>2. longer \in Seq(Applied) /\ longer # <<>>
  BY <1>1 DEF TypeOK
<1>3. operations' \in {longer, Tail(longer)}
  BY DEF Remember, entry
<1> HIDE DEF longer
<1> QED
  BY <1>2, <1>3

\* An accepted operation names an object that exists, unless it creates it.
LEMMA AcceptedTarget ==
  ASSUME NEW m, NEW locked,
         OperationAccepted(objects, tombstones, scenes, revision, m, locked)
  PROVE  /\ m.kind # "create_object" => m.object \in DOMAIN objects
         /\ m.kind = "create_object" => m.object \notin DOMAIN objects \cup DOMAIN tombstones
         /\ SceneOf[m.object] \in scenes
  BY DEF OperationAccepted, IdIsFree

LEMMA RetainedTransformsType ==
  ASSUME TypeOK, NEW m, IsRequest(m)
  PROVE  /\ IsMap(RetainedTransforms(m), Objects, [pose: Nat, revision: Nat])
         /\ DOMAIN RetainedTransforms(m) \subseteq DOMAIN transforms \ DeletedObjects(objects, m)
         /\ \A k \in DOMAIN RetainedTransforms(m) :
              RetainedTransforms(m)[k].pose =
                IF k = m.object /\ m.kind \in {"create_object", "reparent_object"}
                THEN revision + 1 ELSE transforms[k].pose
         /\ \A k \in DOMAIN RetainedTransforms(m) :
              RetainedTransforms(m)[k].revision \in {revision + 1, transforms[k].revision}
<1> DEFINE stamp == [pose |-> revision + 1, revision |-> revision + 1]
           deleted == DeletedObjects(objects, m)
<1>1. /\ stamp \in [pose: Nat, revision: Nat]
      /\ stamp.pose = revision + 1 /\ stamp.revision = revision + 1
  BY DEF TypeOK
<1>2. IsMap(transforms, Objects, [pose: Nat, revision: Nat]) /\ m.object \in Objects
  BY DEF TypeOK, IsRequest
<1> HIDE DEF stamp
<1>3. CASE m.kind \in {"create_object", "reparent_object"} /\ m.object \in DOMAIN transforms
  <2>1. RetainedTransforms(m) = Put(transforms, m.object, stamp)
    BY <1>3 DEF RetainedTransforms, stamp
  <2>2. deleted = {}
    BY <1>3 DEF DeletedObjects
  <2> HIDE DEF deleted
  <2>3. /\ IsMap(Put(transforms, m.object, stamp), Objects, [pose: Nat, revision: Nat])
        /\ DOMAIN Put(transforms, m.object, stamp) = DOMAIN transforms \cup {m.object}
        /\ Put(transforms, m.object, stamp)[m.object] = stamp
        /\ \A x \in DOMAIN transforms \ {m.object} :
             Put(transforms, m.object, stamp)[x] = transforms[x]
    BY <1>1, <1>2 DEF IsMap, Put
  <2> QED
    BY <1>1, <1>3, <2>1, <2>2, <2>3 DEF deleted
<1>4. CASE ~(m.kind \in {"create_object", "reparent_object"} /\ m.object \in DOMAIN transforms)
  <2>1. RetainedTransforms(m) = Drop(transforms, deleted)
    BY <1>4 DEF RetainedTransforms
  <2> HIDE DEF deleted
  <2>2. /\ IsMap(Drop(transforms, deleted), Objects, [pose: Nat, revision: Nat])
        /\ DOMAIN Drop(transforms, deleted) = DOMAIN transforms \ deleted
        /\ \A k \in DOMAIN transforms \ deleted : Drop(transforms, deleted)[k] = transforms[k]
    BY <1>2, DropType
  <2> QED
    BY <1>4, <2>1, <2>2 DEF deleted
<1> QED
  BY <1>3, <1>4

\* What a structural edit does to the maps it replaces.
LEMMA OperationEffect ==
  ASSUME TypeOK, NEW c \in Conns, NEW m \in HierarchyRequests, NEW id \in OpIds,
         HierarchyOperation(c, m, id)
  PROVE  /\ IsRequest(m)
         /\ Follows(objects', objects, m, revision + 1)
         /\ IsMap(tombstones', Objects, Nat)
         /\ DOMAIN tombstones' \subseteq DOMAIN tombstones \cup DeletedObjects(objects, m)
         /\ \A k \in DOMAIN tombstones' : tombstones'[k] \in {revision + 1, tombstones[k]}
         /\ \A k \in DOMAIN tombstones' : tombstones'[k] = revision + 1 \/ k \in DOMAIN tombstones
         /\ IsMap(locks', Objects, LockState)
         /\ DOMAIN locks' = DOMAIN LiveLocks \ DeletedObjects(objects, m)
         /\ \A k \in DOMAIN locks' : locks'[k] = locks[k]
<1> DEFINE deleted == DeletedObjects(objects, m)
           next == NextTombstones(objects, tombstones, m, revision + 1)
<1>1. IsRequest(m)
  BY RequestsAreRequests
<1>2. IsObjects(objects) /\ revision + 1 \in Nat
  BY DEF TypeOK, IsObjects
<1>3. m.kind # "create_object" => m.object \in DOMAIN objects
  BY AcceptedTarget DEF HierarchyOperation
<1>4. objects' = NextObjects(objects, m, revision + 1)
  BY DEF HierarchyOperation
<1>5. Follows(objects', objects, m, revision + 1)
  BY <1>1, <1>2, <1>3, <1>4, NextObjectsType
<1>6. deleted \subseteq Objects
  BY DeletedAreObjects DEF TypeOK, IsMap
<1>7. /\ IsMap(next, Objects, Nat) /\ DOMAIN next = DOMAIN tombstones \cup deleted
      /\ \A k \in DOMAIN next : next[k] \in {revision + 1, tombstones[k]}
      /\ \A k \in DOMAIN next : next[k] = revision + 1 \/ k \in DOMAIN tombstones
  <2> HIDE DEF deleted
  <2>1. next = [k \in DOMAIN tombstones \cup deleted |->
                  IF k \in deleted THEN revision + 1 ELSE tombstones[k]]
    BY DEF NextTombstones, deleted
  <2> QED
    BY <1>2, <1>6, <2>1 DEF TypeOK, IsMap
<1>8. PICK evicted : tombstones' = Drop(next, evicted)
  BY DEF HierarchyOperation
<1> HIDE DEF next
<1>9. /\ IsMap(tombstones', Objects, Nat) /\ DOMAIN tombstones' \subseteq DOMAIN next
      /\ \A k \in DOMAIN tombstones' : tombstones'[k] = next[k]
  <2>1. IsMap(next, Objects, Nat)
    BY <1>7
  <2>2. IsMap(Drop(next, evicted), Objects, Nat)
    BY <2>1, DropType
  <2>3. DOMAIN Drop(next, evicted) \subseteq DOMAIN next
    BY DEF Drop
  <2>4. \A k \in DOMAIN Drop(next, evicted) : Drop(next, evicted)[k] = next[k]
    BY DEF Drop
  <2> QED
    BY <1>8, <2>2, <2>3, <2>4
<1>10. locks' = Drop(LiveLocks, deleted)
  BY DEF HierarchyOperation
<1> HIDE DEF deleted
<1>11. /\ IsMap(locks', Objects, LockState)
       /\ DOMAIN locks' = DOMAIN LiveLocks \ deleted
       /\ \A k \in DOMAIN locks' : locks'[k] = locks[k]
  <2>1. /\ IsMap(LiveLocks, Objects, LockState)
        /\ \A k \in DOMAIN LiveLocks : LiveLocks[k] = locks[k]
    BY LiveLocksType
  <2>2. /\ IsMap(Drop(LiveLocks, deleted), Objects, LockState)
        /\ DOMAIN Drop(LiveLocks, deleted) = DOMAIN LiveLocks \ deleted
        /\ \A k \in DOMAIN LiveLocks \ deleted : Drop(LiveLocks, deleted)[k] = LiveLocks[k]
    BY <2>1, DropType
  <2> QED
    BY <1>10, <2>1, <2>2
<1> QED
  BY <1>1, <1>5, <1>7, <1>9, <1>11 DEF deleted

LEMMA InitTypeOK == Init => TypeOK
<1> SUFFICES ASSUME Init PROVE TypeOK
  OBVIOUS
<1>1. members \in [Users -> Conns \cup {NoConn}] /\ selected \in [Users -> Objects \cup {NoObject}]
  BY DEF Init, NoMembers
<1>2. operations \in Seq(Applied)
  BY DEF Init
<1> QED
  BY <1>1, <1>2, EmptyMapType DEF Init, TypeOK

LEMMA NextTypeOK == TypeOK /\ [Next]_vars => TypeOK'
<1> SUFFICES ASSUME TypeOK, [Next]_vars PROVE TypeOK'
  OBVIOUS
<1> USE AuthorityAssumption
<1>1. ASSUME NEW c \in Conns, RegisterPresence(c)
      PROVE  TypeOK'
  <2> DEFINE kept == Drop(locks, OwnedBy(members[UserOf[c]]))
  <2>1. IsMap(kept, Objects, LockState)
    BY DropType DEF TypeOK
  <2> HIDE DEF kept
  <2>2. IsMap(Drop(kept, Expired), Objects, LockState)
    BY <2>1, DropType
  <2>3. IsMap(locks', Objects, LockState)
    BY <1>1, <2>1, <2>2 DEF RegisterPresence, kept
  <2> QED
    BY <1>1, <2>3 DEF RegisterPresence, TypeOK, hierarchy, log
<1>2. ASSUME NEW c \in Conns, CloseSuperseded(c)
      PROVE  TypeOK'
  BY <1>2 DEF CloseSuperseded, TypeOK, hierarchy, log
<1>3. ASSUME NEW c \in Conns, RemovePresence(c)
      PROVE  TypeOK'
  <2>1. IsMap(locks', Objects, LockState)
    BY <1>3, DropType DEF RemovePresence, TypeOK
  <2> QED
    BY <1>3, <2>1 DEF RemovePresence, TypeOK, hierarchy, log
<1>4. ASSUME NEW c \in Conns, RemoveLastPresence(c)
      PROVE  TypeOK'
  <2>1. operations' \in Seq(Applied)
    BY <1>4 DEF RemoveLastPresence, ForgetSession
  <2>2. /\ members' \in [Users -> Conns \cup {NoConn}]
        /\ selected' \in [Users -> Objects \cup {NoObject}]
        /\ open' \in SUBSET Conns
    BY <1>4 DEF RemoveLastPresence, ForgetSession, NoMembers, TypeOK
  <2> QED
    BY <1>4, <2>1, <2>2, EmptyMapType DEF RemoveLastPresence, ForgetSession, TypeOK
<1>5. ASSUME NEW c \in Conns, NEW o \in Selectable \cup {NoObject}, UpdatePresence(c, o)
      PROVE  TypeOK'
  BY <1>5 DEF UpdatePresence, TypeOK, hierarchy, log
<1>6. ASSUME NEW c \in Conns, NEW k \in Objects, LockRequest(c, k)
      PROVE  TypeOK'
  <2> DEFINE lock == [owner |-> c, ttl |-> Lease]
  <2>1. lock \in LockState
    BY DEF LockState
  <2>2. locks' = Put(LiveLocks, k, lock)
    BY <1>6 DEF LockRequest
  <2> HIDE DEF lock
  <2>3. IsMap(locks', Objects, LockState)
    BY <2>1, <2>2, LiveLocksType, PutType
  <2> QED
    BY <1>6, <2>3 DEF LockRequest, TypeOK, hierarchy, log
<1>7. ASSUME NEW c \in Conns, NEW k \in Objects, LockRelease(c, k)
      PROVE  TypeOK'
  <2>1. IsMap(locks', Objects, LockState)
    BY <1>7, LiveLocksType, DropType DEF LockRelease
  <2> QED
    BY <1>7, <2>1 DEF LockRelease, TypeOK, hierarchy, log
<1>8. ASSUME NEW c \in Conns, NEW k \in Objects, NEW id \in OpIds, NEW base \in 0..MaxRevision,
             TransformUpdate(c, k, id, base)
      PROVE  TypeOK'
  <2> DEFINE applied == [pose |-> revision + 1, revision |-> revision + 1]
  <2>1. applied \in [pose: Nat, revision: Nat] /\ revision + 1 \in Nat
    BY DEF TypeOK
  <2>2. transforms' = Put(transforms, k, applied)
    BY <1>8 DEF TransformUpdate, MovedTransforms
  <2> HIDE DEF applied
  <2>3. IsMap(transforms', Objects, [pose: Nat, revision: Nat])
    BY <2>1, <2>2, PutType DEF TypeOK
  <2>4. IsMap(locks', Objects, LockState)
    BY <1>8, LiveLocksType DEF TransformUpdate
  <2>5. IsMap(objects', Objects, HierarchyRecord)
    <3> DEFINE posed == [objects[k] EXCEPT !.pose = revision + 1]
    <3>1. objects \in [DOMAIN objects -> HierarchyRecord] /\ DOMAIN objects \subseteq Objects
      BY DEF TypeOK, IsMap
    <3>2. CASE k \in DOMAIN objects
      <4>1. posed \in HierarchyRecord
        BY <3>1, <3>2, <2>1 DEF HierarchyRecord
      <4>2. objects' = [objects EXCEPT ![k] = posed]
        BY <1>8, <3>2 DEF TransformUpdate, MovedObjects
      <4> HIDE DEF posed
      <4> QED
        BY <3>1, <4>1, <4>2 DEF IsMap
    <3>3. CASE k \notin DOMAIN objects
      BY <1>8, <3>1, <3>3 DEF TransformUpdate, MovedObjects, IsMap
    <3> QED
      BY <3>2, <3>3
  <2>6. operations' \in Seq(Applied)
    BY <1>8, RememberType DEF TransformUpdate
  <2> QED
    BY <1>8, <2>1, <2>3, <2>4, <2>5, <2>6 DEF TransformUpdate, TypeOK
<1>9. ASSUME NEW c \in Conns, NEW s \in Seeds, NEW base \in 0..MaxRevision, HierarchySeed(c, s, base)
      PROVE  TypeOK'
  <2> DEFINE seed == SeedObjects(s.scene, s.nodes, base)
  <2>1. base \in Nat /\ s.scene \in Scenes
    OBVIOUS
  <2>2. IsObjects(seed)
    BY <2>1, SeedObjectsType
  <2> HIDE DEF seed
  <2>3. IsObjects(Merge(objects, seed))
    BY <2>2, MergeType DEF TypeOK, IsObjects
  <2>4. IsMap(objects', Objects, HierarchyRecord)
    BY <1>9, <2>3 DEF HierarchySeed, IsObjects, seed
  <2> QED
    BY <1>9, <2>1, <2>4 DEF HierarchySeed, TypeOK, log
<1>10. ASSUME NEW c \in Conns, NEW m \in HierarchyRequests, NEW id \in OpIds,
              HierarchyOperation(c, m, id)
       PROVE  TypeOK'
  <2>1. /\ IsRequest(m)
        /\ Follows(objects', objects, m, revision + 1)
        /\ IsMap(tombstones', Objects, Nat)
        /\ IsMap(locks', Objects, LockState)
    BY <1>10, OperationEffect
  <2>2. IsMap(transforms', Objects, [pose: Nat, revision: Nat])
    BY <1>10, <2>1, RetainedTransformsType DEF HierarchyOperation
  <2>3. operations' \in Seq(Applied)
    BY <1>10, RememberType DEF HierarchyOperation
  <2>4. selected' \in [Users -> Objects \cup {NoObject}]
    BY <1>10 DEF HierarchyOperation, TypeOK
  <2>5. revision' \in Nat /\ open' = open /\ members' = members /\ scenes' = scenes
    BY <1>10 DEF HierarchyOperation, TypeOK
  <2> QED
    BY <2>1, <2>2, <2>3, <2>4, <2>5 DEF TypeOK, Follows, IsObjects
<1>11. CASE ExpireLocks
  BY <1>11, LiveLocksType DEF ExpireLocks, TypeOK, hierarchy, log
<1>12. CASE Tick
  <2> DEFINE aged(k) == IF locks[k].ttl > 0 THEN [locks[k] EXCEPT !.ttl = @ - 1] ELSE locks[k]
  <2>1. DOMAIN locks \subseteq Objects /\ locks \in [DOMAIN locks -> LockState]
    BY DEF TypeOK, IsMap
  <2>2. ASSUME NEW k \in DOMAIN locks
        PROVE  aged(k) \in LockState
    <3>1. locks[k] \in LockState
      BY <2>1
    <3> QED
      BY <3>1 DEF LockState
  <2>3. locks' = [k \in DOMAIN locks |-> aged(k)]
    BY <1>12 DEF Tick
  <2> HIDE DEF aged
  <2>4. IsMap(locks', Objects, LockState)
    BY <2>1, <2>2, <2>3 DEF IsMap
  <2> QED
    BY <1>12, <2>4 DEF Tick, TypeOK, hierarchy, log
<1>13. ASSUME NEW c \in Conns, NEW k \in Objects, NEW id \in OpIds, NEW base \in 0..MaxRevision,
              TransformTooLarge(c, k, id, base)
       PROVE  TypeOK'
  BY <1>13, RollbackRestores, LiveLocksType DEF TypeOK
<1>14. CASE UNCHANGED vars
  BY <1>14 DEF vars, hierarchy, log, TypeOK
<1> QED
  BY <1>1, <1>2, <1>3, <1>4, <1>5, <1>6, <1>7, <1>8, <1>9, <1>10, <1>11, <1>12, <1>13, <1>14
     DEF Next

\* Every reachable state of the session has the types of its maps and logs.
THEOREM SessionTypeOK == Spec => []TypeOK
  BY InitTypeOK, NextTypeOK, PTL DEF Spec

-----------------------------------------------------------------------------
(* Who owns a lock. *)

\* Locks only go, and the ones that stay keep their owner.
LocksShrink ==
  /\ DOMAIN locks' \subseteq DOMAIN locks
  /\ \A k \in DOMAIN locks' : locks'[k].owner = locks[k].owner

\* A step that can add a lock is a lock request.
IsLockRequest == \E c \in Conns, k \in Objects : LockRequest(c, k)

LEMMA RegisterLocks ==
  ASSUME TypeOK, NEW c \in Conns, RegisterPresence(c)
  PROVE  /\ DOMAIN locks \ (OwnedBy(members[UserOf[c]]) \cup Expired) \subseteq DOMAIN locks'
         /\ DOMAIN locks' \subseteq DOMAIN locks \ OwnedBy(members[UserOf[c]])
         /\ \A k \in DOMAIN locks' : locks'[k] = locks[k]
<1> DEFINE old == OwnedBy(members[UserOf[c]])
<1>1. locks' = IF c \in TransformConns THEN Drop(Drop(locks, old), Expired) ELSE Drop(locks, old)
  BY DEF RegisterPresence
<1> HIDE DEF old
<1>2. /\ DOMAIN Drop(locks, old) = DOMAIN locks \ old
      /\ \A k \in DOMAIN locks \ old : Drop(locks, old)[k] = locks[k]
  BY DEF Drop
<1>3. /\ DOMAIN Drop(Drop(locks, old), Expired) = (DOMAIN locks \ old) \ Expired
      /\ \A k \in (DOMAIN locks \ old) \ Expired : Drop(Drop(locks, old), Expired)[k] = locks[k]
  BY <1>2 DEF Drop
<1> QED
  BY <1>1, <1>2, <1>3 DEF old

LEMMA OnlyRequestsAddLocks ==
  ASSUME TypeOK, [Next]_vars
  PROVE  IsLockRequest \/ LocksShrink
<1> USE DEF LocksShrink
<1>1. ASSUME NEW c \in Conns, RegisterPresence(c)
      PROVE  LocksShrink
  BY <1>1, RegisterLocks
<1>2. ASSUME NEW c \in Conns, CloseSuperseded(c)
      PROVE  LocksShrink
  BY <1>2 DEF CloseSuperseded
<1>3. ASSUME NEW c \in Conns, RemovePresence(c)
      PROVE  LocksShrink
  BY <1>3 DEF RemovePresence, Drop
<1>4. ASSUME NEW c \in Conns, RemoveLastPresence(c)
      PROVE  LocksShrink
  BY <1>4 DEF RemoveLastPresence, ForgetSession, EmptyMap
<1>5. ASSUME NEW c \in Conns, NEW o \in Selectable \cup {NoObject}, UpdatePresence(c, o)
      PROVE  LocksShrink
  BY <1>5 DEF UpdatePresence
<1>6. ASSUME NEW c \in Conns, NEW k \in Objects, LockRequest(c, k)
      PROVE  IsLockRequest
  BY <1>6 DEF IsLockRequest
<1>7. ASSUME NEW c \in Conns, NEW k \in Objects, LockRelease(c, k)
      PROVE  LocksShrink
  BY <1>7, LiveLocksType DEF LockRelease, Drop
<1>8. ASSUME NEW c \in Conns, NEW k \in Objects, NEW id \in OpIds, NEW base \in 0..MaxRevision,
             TransformUpdate(c, k, id, base)
      PROVE  LocksShrink
  BY <1>8, LiveLocksType DEF TransformUpdate
<1>9. ASSUME NEW c \in Conns, NEW s \in Seeds, NEW base \in 0..MaxRevision, HierarchySeed(c, s, base)
      PROVE  LocksShrink
  BY <1>9 DEF HierarchySeed
<1>10. ASSUME NEW c \in Conns, NEW m \in HierarchyRequests, NEW id \in OpIds,
              HierarchyOperation(c, m, id)
       PROVE  LocksShrink
  BY <1>10, OperationEffect, LiveLocksType
<1>11. CASE ExpireLocks
  BY <1>11, LiveLocksType DEF ExpireLocks
<1>12. CASE Tick
  <2>1. ASSUME NEW k \in DOMAIN locks
        PROVE  /\ locks[k] \in LockState
               /\ [locks[k] EXCEPT !.ttl = @ - 1].owner = locks[k].owner
    BY DEF TypeOK, IsMap, LockState
  <2> QED
    BY <1>12, <2>1 DEF Tick
<1>13. ASSUME NEW c \in Conns, NEW k \in Objects, NEW id \in OpIds, NEW base \in 0..MaxRevision,
              TransformTooLarge(c, k, id, base)
       PROVE  LocksShrink
  BY <1>13, RollbackRestores, LiveLocksType
<1>14. CASE UNCHANGED vars
  BY <1>14 DEF vars
<1> QED
  BY <1>1, <1>2, <1>3, <1>4, <1>5, <1>6, <1>7, <1>8, <1>9, <1>10, <1>11, <1>12, <1>13, <1>14
     DEF Next

\* Steps that move nobody in or out leave the present connections alone.
LEMMA RequestMembership ==
  ASSUME NEW c \in Conns, NEW k \in Objects, LockRequest(c, k)
  PROVE  open' = open /\ members' = members
  BY DEF LockRequest

LEMMA InitLockOwners == Init => LockOwnersAreMembers
  BY DEF Init, LockOwnersAreMembers, EmptyMap, NoMembers

LEMMA NextLockOwners ==
  TypeOK /\ LockOwnersAreMembers /\ [Next]_vars => LockOwnersAreMembers'
<1> SUFFICES ASSUME TypeOK, LockOwnersAreMembers, [Next]_vars
             PROVE  LockOwnersAreMembers'
  OBVIOUS
<1> USE AuthorityAssumption
<1>1. \A k \in DOMAIN locks : locks[k].owner \in Conns /\ members[UserOf[locks[k].owner]] = locks[k].owner
  BY DEF TypeOK, IsMap, LockState, LockOwnersAreMembers, Active
<1>2. members \in [Users -> Conns \cup {NoConn}] /\ open \in SUBSET Conns
  BY DEF TypeOK
<1>3. CASE open' = open /\ members' = members /\ LocksShrink
  BY <1>1, <1>3 DEF LockOwnersAreMembers, Active, LocksShrink
<1>4. ASSUME NEW c \in Conns, RegisterPresence(c)
      PROVE  LockOwnersAreMembers'
  <2>1. /\ members' = [members EXCEPT ![UserOf[c]] = c]
        /\ open' = open \cup {c}
        /\ c \notin open
    BY <1>4 DEF RegisterPresence
  <2>2. ASSUME NEW k \in DOMAIN locks'
        PROVE  members'[UserOf[locks'[k].owner]] = locks'[k].owner
    <3>1. k \in DOMAIN locks /\ locks'[k] = locks[k] /\ locks[k].owner # members[UserOf[c]]
      BY <1>4, RegisterLocks DEF OwnedBy
    <3>2. UserOf[locks[k].owner] # UserOf[c]
      BY <1>1, <3>1
    <3> QED
      BY <1>1, <1>2, <2>1, <3>1, <3>2
  <2>3. \A u \in Users : members'[u] # NoConn => members'[u] \in open' /\ UserOf[members'[u]] = u
    BY <1>2, <2>1 DEF LockOwnersAreMembers
  <2> QED
    BY <2>2, <2>3 DEF LockOwnersAreMembers, Active
<1>5. ASSUME NEW c \in Conns, CloseSuperseded(c)
      PROVE  LockOwnersAreMembers'
  <2>1. members' = members /\ locks' = locks /\ open' = open \ {c} /\ members[UserOf[c]] # c
    BY <1>5 DEF CloseSuperseded, Active
  <2>2. \A u \in Users : members[u] # NoConn => members[u] # c
    BY <2>1 DEF LockOwnersAreMembers
  <2> QED
    BY <1>1, <2>1, <2>2 DEF LockOwnersAreMembers, Active
<1>6. ASSUME NEW c \in Conns, RemovePresence(c)
      PROVE  LockOwnersAreMembers'
  <2>1. /\ members' = [members EXCEPT ![UserOf[c]] = NoConn]
        /\ open' = open \ {c}
        /\ members[UserOf[c]] = c
        /\ locks' = Drop(locks, OwnedBy(c))
    BY <1>6 DEF RemovePresence, Active
  <2>2. ASSUME NEW k \in DOMAIN locks'
        PROVE  members'[UserOf[locks'[k].owner]] = locks'[k].owner
    <3>1. k \in DOMAIN locks /\ locks'[k] = locks[k] /\ locks[k].owner # c
      BY <2>1 DEF OwnedBy, Drop
    <3>2. UserOf[locks[k].owner] # UserOf[c]
      BY <1>1, <2>1, <3>1
    <3> QED
      BY <1>1, <1>2, <2>1, <3>1, <3>2
  <2>3. \A u \in Users : members'[u] # NoConn => members'[u] \in open' /\ UserOf[members'[u]] = u
    <3>1. \A u \in Users : u # UserOf[c] => members'[u] = members[u] /\ members[u] # c
      BY <1>2, <2>1 DEF LockOwnersAreMembers
    <3> QED
      BY <1>2, <2>1, <3>1 DEF LockOwnersAreMembers
  <2> QED
    BY <2>2, <2>3 DEF LockOwnersAreMembers, Active
<1>7. ASSUME NEW c \in Conns, RemoveLastPresence(c)
      PROVE  LockOwnersAreMembers'
  BY <1>7 DEF RemoveLastPresence, ForgetSession, EmptyMap, NoMembers, LockOwnersAreMembers
<1>8. ASSUME NEW c \in Conns, NEW k \in Objects, LockRequest(c, k)
      PROVE  LockOwnersAreMembers'
  <2> DEFINE lock == [owner |-> c, ttl |-> Lease]
  <2>1. locks' = Put(LiveLocks, k, lock) /\ members[UserOf[c]] = c /\ lock.owner = c
    BY <1>8 DEF LockRequest, Active
  <2> HIDE DEF lock
  <2>2. \A x \in DOMAIN locks' : locks'[x] = IF x = k THEN lock ELSE LiveLocks[x]
    BY <2>1 DEF Put
  <2>3. \A x \in DOMAIN locks' : x # k => x \in DOMAIN locks /\ locks'[x] = locks[x]
    BY <2>1, <2>2, LiveLocksType DEF Put
  <2>4. open' = open /\ members' = members
    BY <1>8, RequestMembership
  <2> QED
    BY <1>1, <2>1, <2>2, <2>3, <2>4 DEF LockOwnersAreMembers, Active
<1>9. CASE Next
  <2>1. ASSUME NEW c \in Conns, NEW o \in Selectable \cup {NoObject}, UpdatePresence(c, o)
        PROVE  LockOwnersAreMembers'
    BY <1>1, <2>1 DEF UpdatePresence, LockOwnersAreMembers, Active
  <2>2. CASE \/ \E c \in Conns : \/ \E k \in Objects : LockRelease(c, k)
                                 \/ \E k \in Objects, id \in OpIds, base \in 0..MaxRevision :
                                      TransformUpdate(c, k, id, base) \/ TransformTooLarge(c, k, id, base)
                                 \/ \E s \in Seeds, base \in 0..MaxRevision : HierarchySeed(c, s, base)
                                 \/ \E m \in HierarchyRequests, id \in OpIds :
                                      HierarchyOperation(c, m, id)
             \/ ExpireLocks
             \/ Tick
    <3>1. open' = open /\ members' = members
      BY <2>2 DEF LockRelease, TransformUpdate, TransformTooLarge, HierarchySeed, HierarchyOperation,
                  ExpireLocks, Tick
    <3>2. CASE LocksShrink
      BY <1>3, <3>1, <3>2
    <3>3. CASE IsLockRequest
      BY <1>8, <3>3 DEF IsLockRequest
    <3> QED
      BY <3>2, <3>3, OnlyRequestsAddLocks
  <2> QED
    BY <1>4, <1>5, <1>6, <1>7, <1>8, <1>9, <2>1, <2>2 DEF Next
<1>10. CASE UNCHANGED vars
  BY <1>1, <1>10 DEF vars, LockOwnersAreMembers, Active
<1> QED
  BY <1>9, <1>10

\* A lock never outlives its owner's presence, whatever the order of hellos,
\* supersessions, late closes and requests.
THEOREM LockOwnersArePresent == Spec => []LockOwnersAreMembers
<1>1. Spec => []TypeOK
  BY SessionTypeOK
<1> QED
  BY <1>1, InitLockOwners, NextLockOwners, PTL DEF Spec

-----------------------------------------------------------------------------
(* The retained records.  Most steps leave all of them alone. *)

Quiet == UNCHANGED <<transforms, hierarchy, log>>

Empties == \E c \in Conns : RemoveLastPresence(c)
Moves ==
  \E c \in Conns, k \in Objects, id \in OpIds, base \in 0..MaxRevision : TransformUpdate(c, k, id, base)
SeedsScene == \E c \in Conns, s \in Seeds, base \in 0..MaxRevision : HierarchySeed(c, s, base)
Edits == \E c \in Conns, m \in HierarchyRequests, id \in OpIds : HierarchyOperation(c, m, id)

LEMMA StepKinds ==
  ASSUME TypeOK, [Next]_vars
  PROVE  Quiet \/ Empties \/ Moves \/ SeedsScene \/ Edits
<1>1. ASSUME NEW c \in Conns, NEW k \in Objects, NEW id \in OpIds, NEW base \in 0..MaxRevision,
             TransformTooLarge(c, k, id, base)
      PROVE  Quiet
  BY <1>1, RollbackRestores DEF Quiet, hierarchy, log
<1> QED
  BY <1>1 DEF Next, vars, Quiet, Empties, Moves, SeedsScene, Edits, hierarchy, log, RegisterPresence,
         CloseSuperseded, RemovePresence, UpdatePresence, LockRequest, LockRelease, ExpireLocks, Tick

\* The session that is dropped leaves nothing.
LEMMA EmptySession ==
  ASSUME Empties
  PROVE  /\ DOMAIN locks' = {} /\ DOMAIN transforms' = {} /\ DOMAIN objects' = {}
         /\ DOMAIN tombstones' = {} /\ scenes' = {} /\ operations' = <<>> /\ revision' = 0
  BY DEF Empties, RemoveLastPresence, ForgetSession, EmptyMap

\* What a Transform update changes.
LEMMA MoveEffect ==
  ASSUME TypeOK, NEW c \in Conns, NEW k \in Objects, NEW id \in OpIds, NEW base \in 0..MaxRevision,
         TransformUpdate(c, k, id, base)
  PROVE  /\ DOMAIN transforms' = DOMAIN transforms \cup {k}
         /\ transforms'[k].pose = revision + 1 /\ transforms'[k].revision = revision + 1
         /\ \A x \in DOMAIN transforms \ {k} : transforms'[x] = transforms[x]
         /\ DOMAIN objects' = DOMAIN objects
         /\ k \in DOMAIN objects => objects'[k] = [objects[k] EXCEPT !.pose = revision + 1]
         /\ \A x \in DOMAIN objects \ {k} : objects'[x] = objects[x]
         /\ tombstones' = tombstones /\ scenes' = scenes /\ revision' = revision + 1
         /\ members' = members /\ open' = open
<1> DEFINE applied == [pose |-> revision + 1, revision |-> revision + 1]
<1>1. applied.pose = revision + 1 /\ applied.revision = revision + 1
  OBVIOUS
<1>2. transforms' = Put(transforms, k, applied)
  BY DEF TransformUpdate, MovedTransforms
<1> HIDE DEF applied
<1>3. /\ DOMAIN transforms' = DOMAIN transforms \cup {k}
      /\ transforms'[k] = applied
      /\ \A x \in DOMAIN transforms \ {k} : transforms'[x] = transforms[x]
  BY <1>2 DEF Put
<1>4. objects' = IF k \in DOMAIN objects THEN [objects EXCEPT ![k].pose = revision + 1] ELSE objects
  BY DEF TransformUpdate, MovedObjects
<1>5. /\ DOMAIN objects' = DOMAIN objects
      /\ k \in DOMAIN objects => objects'[k] = [objects[k] EXCEPT !.pose = revision + 1]
      /\ \A x \in DOMAIN objects \ {k} : objects'[x] = objects[x]
  BY <1>4 DEF TypeOK, IsMap
<1> QED
  BY <1>1, <1>3, <1>5 DEF TransformUpdate

LEMMA SeedRecords ==
  ASSUME NEW s \in Seeds, NEW base \in 0..MaxRevision
  PROVE  /\ IsObjects(SeedObjects(s.scene, s.nodes, base))
         /\ DOMAIN SeedObjects(s.scene, s.nodes, base) = DOMAIN s.nodes
         /\ \A k \in DOMAIN s.nodes : IsBaseline(SeedObjects(s.scene, s.nodes, base)[k], base)
<1>1. base \in Nat
  BY AuthorityAssumption
<1>2. IsMap(s.nodes, Objects, [parent: Parents, index: Nat, pose: {0}])
  BY AuthorityAssumption
<1> QED
  BY <1>1, <1>2, SeedObjectsType

\* What a baseline adds.
LEMMA SeedEffect ==
  ASSUME TypeOK, NEW c \in Conns, NEW s \in Seeds, NEW base \in 0..MaxRevision, HierarchySeed(c, s, base)
  PROVE  /\ IsObjects(SeedObjects(s.scene, s.nodes, base))
         /\ objects' = Merge(objects, SeedObjects(s.scene, s.nodes, base))
         /\ DOMAIN objects' = DOMAIN objects \cup DOMAIN s.nodes
         /\ \A k \in DOMAIN s.nodes : /\ IsBaseline(objects'[k], base)
                                      /\ SceneOf[k] = s.scene
                                      /\ k \notin DOMAIN tombstones
         /\ \A k \in DOMAIN objects : objects'[k] = objects[k] /\ SceneOf[k] # s.scene
         /\ s.scene \in Scenes /\ s.scene \notin scenes /\ scenes' = scenes \cup {s.scene} /\ base = revision
         /\ UNCHANGED <<members, open, locks, transforms, tombstones, operations, revision>>
<1> DEFINE seed == SeedObjects(s.scene, s.nodes, base)
<1>1. /\ IsObjects(seed)
      /\ DOMAIN seed = DOMAIN s.nodes
      /\ \A k \in DOMAIN s.nodes : IsBaseline(seed[k], base)
  BY SeedRecords
<1>2. objects' = Merge(objects, seed) /\ IsObjects(objects)
  BY DEF HierarchySeed, TypeOK, IsObjects
<1>3. /\ SeedWellFormed(s.scene, s.nodes)
      /\ base = revision
      /\ s.scene \notin scenes
      /\ SceneObjects(objects, s.scene) = {}
      /\ SceneObjects(tombstones, s.scene) = {}
  BY DEF HierarchySeed, SeedInstalls, SceneIsNew
<1>4. \A k \in DOMAIN s.nodes : SceneOf[k] = s.scene
  BY <1>3 DEF SeedWellFormed
<1>5. /\ \A k \in DOMAIN objects : SceneOf[k] # s.scene
      /\ \A k \in DOMAIN tombstones : SceneOf[k] # s.scene
  BY <1>3 DEF SceneObjects
<1> HIDE DEF seed
<1>6. /\ DOMAIN objects' = DOMAIN objects \cup DOMAIN s.nodes
      /\ \A k \in DOMAIN s.nodes : objects'[k] = seed[k]
      /\ \A k \in DOMAIN objects : objects'[k] = objects[k]
  BY <1>1, <1>2, <1>4, <1>5 DEF Merge
<1>7. s.scene \in Scenes
  BY AuthorityAssumption
<1> QED
  BY <1>1, <1>2, <1>3, <1>4, <1>5, <1>6, <1>7 DEF HierarchySeed, log, seed

-----------------------------------------------------------------------------
(* Edited poses. *)

LEMMA NextPosesAgree == TypeOK /\ PosesAgree /\ [Next]_vars => PosesAgree'
<1> SUFFICES ASSUME TypeOK, PosesAgree, [Next]_vars PROVE PosesAgree'
  OBVIOUS
<1>1. CASE Quiet
  BY <1>1 DEF Quiet, PosesAgree, hierarchy, log
<1>2. CASE Empties
  BY <1>2, EmptySession DEF PosesAgree
<1>3. CASE Moves
  <2>1. PICK c \in Conns, k \in Objects, id \in OpIds, base \in 0..MaxRevision : TransformUpdate(c, k, id, base)
    BY <1>3 DEF Moves
  <2>2. k \in DOMAIN objects => [objects[k] EXCEPT !.pose = revision + 1].pose = revision + 1
    BY DEF TypeOK, IsMap, HierarchyRecord
  <2>3. /\ DOMAIN transforms' = DOMAIN transforms \cup {k}
        /\ transforms'[k].pose = revision + 1
        /\ \A x \in DOMAIN transforms \ {k} : transforms'[x] = transforms[x]
        /\ DOMAIN objects' = DOMAIN objects
        /\ k \in DOMAIN objects => objects'[k].pose = revision + 1
        /\ \A x \in DOMAIN objects \ {k} : objects'[x] = objects[x]
    BY <2>1, <2>2, MoveEffect
  <2> QED
    BY <2>3 DEF PosesAgree
<1>4. CASE SeedsScene
  <2>1. PICK c \in Conns, s \in Seeds, base \in 0..MaxRevision : HierarchySeed(c, s, base)
    BY <1>4 DEF SeedsScene
  <2> QED
    BY <2>1, SeedEffect DEF PosesAgree, IsBaseline
<1>5. CASE Edits
  <2>1. PICK c \in Conns, m \in HierarchyRequests, id \in OpIds : HierarchyOperation(c, m, id)
    BY <1>5 DEF Edits
  <2>2. IsRequest(m) /\ Follows(objects', objects, m, revision + 1)
    BY <2>1, OperationEffect
  <2>3. /\ DOMAIN transforms' \subseteq DOMAIN transforms \ DeletedObjects(objects, m)
        /\ \A k \in DOMAIN transforms' :
             transforms'[k].pose = IF k = m.object /\ Placed(m) THEN revision + 1 ELSE transforms[k].pose
    <3>1. transforms' = RetainedTransforms(m)
      BY <2>1 DEF HierarchyOperation
    <3> QED
      BY <2>2, <3>1, RetainedTransformsType DEF Placed
  <2> SUFFICES ASSUME NEW k \in DOMAIN objects' \cap DOMAIN transforms'
               PROVE  objects'[k].pose \in {transforms'[k].pose, 0}
    BY DEF PosesAgree
  <2>4. CASE k = m.object /\ Placed(m)
    BY <2>2, <2>3, <2>4 DEF Follows
  <2>5. CASE ~(k = m.object /\ Placed(m))
    <3>1. k \in DOMAIN objects
      BY <2>2, <2>5 DEF Follows, Placed
    <3> QED
      BY <2>2, <2>3, <2>5, <3>1 DEF Follows, PosesAgree
  <2> QED
    BY <2>4, <2>5
<1> QED
  BY <1>1, <1>2, <1>3, <1>4, <1>5, StepKinds

\* The Transform snapshot and the Hierarchy snapshot agree on every edited pose.
THEOREM SnapshotsAgree == Spec => []PosesAgree
<1>1. Init => PosesAgree
  BY DEF Init, PosesAgree, EmptyMap
<1> QED
  BY <1>1, NextPosesAgree, SessionTypeOK, PTL DEF Spec

-----------------------------------------------------------------------------
(* The forest. *)

LEMMA NextForest == TypeOK /\ HierarchyIsForest /\ [Next]_vars => HierarchyIsForest'
<1> SUFFICES ASSUME TypeOK, HierarchyIsForest, [Next]_vars PROVE HierarchyIsForest'
  OBVIOUS
<1>1. /\ IsObjects(objects) /\ GraphValid(objects) /\ CanonicalOrder(objects)
      /\ \A k \in DOMAIN objects \cup DOMAIN tombstones : SceneOf[k] \in scenes
  BY DEF TypeOK, IsObjects, HierarchyIsForest
<1>2. CASE Quiet
  BY <1>1, <1>2 DEF Quiet, HierarchyIsForest, hierarchy, log
<1>3. CASE Empties
  BY <1>3, EmptySession DEF HierarchyIsForest, GraphValid, CanonicalOrder
<1>4. CASE Moves
  <2>1. PICK c \in Conns, k \in Objects, id \in OpIds, base \in 0..MaxRevision : TransformUpdate(c, k, id, base)
    BY <1>4 DEF Moves
  <2>2. /\ DOMAIN objects' = DOMAIN objects
        /\ \A x \in DOMAIN objects :
             objects'[x].parent = objects[x].parent /\ objects'[x].index = objects[x].index
    <3>1. k \in DOMAIN objects => /\ [objects[k] EXCEPT !.pose = revision + 1].parent = objects[k].parent
                                 /\ [objects[k] EXCEPT !.pose = revision + 1].index = objects[k].index
      BY DEF TypeOK, IsMap, HierarchyRecord
    <3> QED
      BY <2>1, <3>1, MoveEffect
  <2>3. tombstones' = tombstones /\ scenes' = scenes
    BY <2>1, MoveEffect
  <2>4. GraphValid(objects') /\ CanonicalOrder(objects')
    BY <1>1, <2>2, GraphKept, OrderKept
  <2> QED
    BY <1>1, <2>2, <2>3, <2>4 DEF HierarchyIsForest, GraphValid, CanonicalOrder
<1>5. CASE SeedsScene
  <2>1. PICK c \in Conns, s \in Seeds, base \in 0..MaxRevision : HierarchySeed(c, s, base)
    BY <1>5 DEF SeedsScene
  <2> DEFINE seed == SeedObjects(s.scene, s.nodes, base)
  <2>2. /\ IsObjects(seed)
        /\ objects' = Merge(objects, seed)
        /\ DOMAIN objects' = DOMAIN objects \cup DOMAIN s.nodes
        /\ \A k \in DOMAIN s.nodes : SceneOf[k] = s.scene
        /\ \A k \in DOMAIN objects : SceneOf[k] # s.scene
        /\ scenes' = scenes \cup {s.scene} /\ tombstones' = tombstones
        /\ s.scene \in Scenes
    BY <2>1, SeedEffect
  <2>3. /\ base \in Nat
        /\ IsMap(s.nodes, Objects, [parent: Parents, index: Nat, pose: {0}])
        /\ SeedWellFormed(s.scene, s.nodes)
        /\ GraphValid(seed)
    <3>1. base \in Nat
      BY AuthorityAssumption
    <3>2. IsMap(s.nodes, Objects, [parent: Parents, index: Nat, pose: {0}])
      BY AuthorityAssumption
    <3>3. SeedWellFormed(s.scene, s.nodes) /\ GraphValid(seed)
      BY <2>1 DEF HierarchySeed, SeedInstalls
    <3> QED
      BY <3>1, <3>2, <3>3
  <2>4. DOMAIN seed = DOMAIN s.nodes
    BY SeedRecords
  <2>5. CanonicalOrder(seed)
    BY <2>2, <2>3, SeedOrders
  <2> HIDE DEF seed
  <2>6. \A k \in DOMAIN objects, x \in DOMAIN seed : SceneOf[k] # SceneOf[x]
    BY <2>2, <2>4
  <2>7. GraphValid(objects') /\ CanonicalOrder(objects')
    BY <1>1, <2>2, <2>3, <2>5, <2>6, GraphsMerge, OrdersMerge
  <2> QED
    BY <1>1, <2>2, <2>7 DEF HierarchyIsForest, GraphValid, CanonicalOrder
<1>6. CASE Edits
  <2>1. PICK c \in Conns, m \in HierarchyRequests, id \in OpIds : HierarchyOperation(c, m, id)
    BY <1>6 DEF Edits
  <2>2. /\ IsRequest(m) /\ Follows(objects', objects, m, revision + 1)
        /\ DOMAIN tombstones' \subseteq DOMAIN tombstones \cup DeletedObjects(objects, m)
    BY <2>1, OperationEffect
  <2>3. /\ objects' = NextObjects(objects, m, revision + 1)
        /\ GraphValid(NextObjects(objects, m, revision + 1))
        /\ scenes' = scenes
        /\ revision + 1 \in Nat
    BY <2>1 DEF HierarchyOperation, OperationAccepted, TypeOK
  <2>4. /\ m.kind # "create_object" => m.object \in DOMAIN objects
        /\ m.kind = "create_object" => m.object \notin DOMAIN objects
        /\ SceneOf[m.object] \in scenes
    BY <2>1, AcceptedTarget DEF HierarchyOperation
  <2>5. CanonicalOrder(NextObjects(objects, m, revision + 1))
    BY <1>1, <2>2, <2>3, <2>4, OperationOrders
  <2>6. \A k \in DOMAIN objects' \cup DOMAIN tombstones' : SceneOf[k] \in scenes
    BY <1>1, <2>2, <2>4, DeletedAreObjects DEF Follows
  <2> QED
    BY <2>3, <2>5, <2>6 DEF HierarchyIsForest, GraphValid, CanonicalOrder
<1> QED
  BY <1>2, <1>3, <1>4, <1>5, <1>6, StepKinds

\* Whatever editors seed, create, delete, move and reorder, every Scene stays a
\* forest of bounded depth whose siblings are numbered without gaps.
THEOREM SessionStaysForest == Spec => []HierarchyIsForest
<1>1. Init => HierarchyIsForest
  BY DEF Init, HierarchyIsForest, EmptyMap, GraphValid, CanonicalOrder
<1> QED
  BY <1>1, NextForest, SessionTypeOK, PTL DEF Spec

-----------------------------------------------------------------------------
(* Tombstones. *)

\* Nothing of the session names an object that has a tombstone.
LEMMA NextTombstonesDead ==
  TypeOK /\ HierarchyIsForest /\ TombstonesStayDead /\ [Next]_vars => TombstonesStayDead'
<1> SUFFICES ASSUME TypeOK, HierarchyIsForest, TombstonesStayDead, [Next]_vars
             PROVE  TombstonesStayDead'
  OBVIOUS
<1>1. CASE Quiet
  <2>1. UNCHANGED <<transforms, objects, tombstones>>
    BY <1>1 DEF Quiet, hierarchy
  <2>2. CASE LocksShrink
    BY <2>1, <2>2 DEF LocksShrink, TombstonesStayDead
  <2>3. CASE IsLockRequest
    <3>1. PICK c \in Conns, k \in Objects : LockRequest(c, k)
      BY <2>3 DEF IsLockRequest
    <3>2. k \notin DOMAIN tombstones
      BY <3>1 DEF LockRequest, Compatible, HierarchyIsForest
    <3>3. DOMAIN locks' \subseteq DOMAIN locks \cup {k}
      BY <3>1, LiveLocksType DEF LockRequest, Put
    <3> QED
      BY <2>1, <3>2, <3>3 DEF TombstonesStayDead
  <2> QED
    BY <2>2, <2>3, OnlyRequestsAddLocks
<1>2. CASE Empties
  BY <1>2, EmptySession DEF TombstonesStayDead
<1>3. CASE Moves
  <2>1. PICK c \in Conns, k \in Objects, id \in OpIds, base \in 0..MaxRevision : TransformUpdate(c, k, id, base)
    BY <1>3 DEF Moves
  <2>2. k \notin DOMAIN tombstones
    BY <2>1 DEF TransformUpdate, MayTransform, Compatible, HierarchyIsForest
  <2>3. DOMAIN locks' \subseteq DOMAIN locks
    BY <2>1, LiveLocksType DEF TransformUpdate
  <2>4. /\ DOMAIN transforms' = DOMAIN transforms \cup {k}
        /\ DOMAIN objects' = DOMAIN objects
        /\ tombstones' = tombstones
    BY <2>1, MoveEffect
  <2> QED
    BY <2>2, <2>3, <2>4 DEF TombstonesStayDead
<1>4. CASE SeedsScene
  <2>1. PICK c \in Conns, s \in Seeds, base \in 0..MaxRevision : HierarchySeed(c, s, base)
    BY <1>4 DEF SeedsScene
  <2>2. /\ DOMAIN objects' = DOMAIN objects \cup DOMAIN s.nodes
        /\ \A k \in DOMAIN s.nodes : k \notin DOMAIN tombstones
        /\ UNCHANGED <<locks, transforms, tombstones>>
    BY <2>1, SeedEffect
  <2> QED
    BY <2>2 DEF TombstonesStayDead
<1>5. CASE Edits
  <2>1. PICK c \in Conns, m \in HierarchyRequests, id \in OpIds : HierarchyOperation(c, m, id)
    BY <1>5 DEF Edits
  <2> DEFINE deleted == DeletedObjects(objects, m)
  <2>2. /\ IsRequest(m)
        /\ DOMAIN objects' = IF m.kind = "create_object" THEN DOMAIN objects \cup {m.object}
                             ELSE DOMAIN objects \ deleted
        /\ DOMAIN tombstones' \subseteq DOMAIN tombstones \cup deleted
        /\ DOMAIN locks' = DOMAIN LiveLocks \ deleted
    BY <2>1, OperationEffect DEF Follows
  <2>3. DOMAIN transforms' \subseteq DOMAIN transforms \ deleted
    BY <2>1, <2>2, RetainedTransformsType DEF HierarchyOperation
  <2>4. DOMAIN LiveLocks \subseteq DOMAIN locks
    BY LiveLocksType
  <2>5. m.kind = "create_object" => m.object \notin DOMAIN tombstones /\ deleted = {}
    BY <2>1, AcceptedTarget DEF HierarchyOperation, DeletedObjects
  <2> HIDE DEF deleted
  <2> QED
    BY <2>2, <2>3, <2>4, <2>5 DEF TombstonesStayDead
<1> QED
  BY <1>1, <1>2, <1>3, <1>4, <1>5, StepKinds

\* A deleted object comes back as nothing: no later create, lock or pose of it
\* is accepted while its tombstone is retained.
THEOREM DeletedObjectsStayDead == Spec => []TombstonesStayDead
<1>1. Init => TombstonesStayDead
  BY DEF Init, TombstonesStayDead, EmptyMap
<1> QED
  BY <1>1, NextTombstonesDead, SessionTypeOK, SessionStaysForest, PTL DEF Spec

-----------------------------------------------------------------------------
(* The log of recent operations and the revisions it orders. *)

\* The three kinds of retained records carry no revision from the future.
StampsReached ==
  /\ \A k \in DOMAIN objects : objects[k].revision <= revision /\ objects[k].pose <= revision
  /\ \A k \in DOMAIN tombstones : tombstones[k] <= revision
  /\ \A k \in DOMAIN transforms : transforms[k].revision <= revision

LogInOrder ==
  /\ revision > 0 => operations # <<>>
  /\ \A i \in 1..Len(operations) :
       /\ operations[i].revision = revision - (Len(operations) - i)
       /\ \A j \in 1..Len(operations) : operations[i].id = operations[j].id => i = j

IsEntry(entry, c, id) ==
  entry.id = id /\ entry.user = UserOf[c] /\ entry.revision = revision + 1

\* Remembering an operation appends it, and forgets at most the oldest one.
LEMMA LogGrows ==
  ASSUME TypeOK, NEW c \in Conns, NEW id \in OpIds, Remember(c, id)
  PROVE  \E gone \in {0, 1} :
           /\ Len(operations') = Len(operations) + 1 - gone
           /\ Len(operations') >= 1
           /\ \A i \in 1..Len(operations') :
                IF i + gone <= Len(operations) THEN operations'[i] = operations[i + gone]
                ELSE i = Len(operations') /\ IsEntry(operations'[i], c, id)
<1> DEFINE entry == [id |-> id, user |-> UserOf[c], revision |-> revision + 1]
           n == Len(operations)
           longer == Append(operations, entry)
<1>1. entry \in Applied /\ IsEntry(entry, c, id)
  BY AuthorityAssumption DEF TypeOK, Applied, IsEntry
<1>2. operations' = IF Len(longer) > MaxRecentOperations THEN Tail(longer) ELSE longer
  BY DEF Remember
<1> HIDE DEF entry
<1>3. operations \in Seq(Applied)
  BY DEF TypeOK
<1>4. /\ longer \in Seq(Applied)
      /\ Len(longer) = n + 1
      /\ \A i \in 1..n : longer[i] = operations[i]
      /\ longer[n + 1] = entry
  BY <1>1, <1>3
<1>5. n \in Nat
  BY <1>3
<1> HIDE DEF n, longer
<1>6. CASE Len(longer) > MaxRecentOperations
  <2>1. n >= 1
    BY <1>4, <1>5, <1>6, AuthorityAssumption
  <2>2. operations' = Tail(longer)
    BY <1>2, <1>6
  <2>3. Len(operations') = n /\ \A i \in 1..n : operations'[i] = longer[i + 1]
    BY <1>4, <1>5, <2>1, <2>2
  <2>4. \A i \in 1..n : IF i + 1 <= n THEN operations'[i] = operations[i + 1]
                        ELSE i = n /\ operations'[i] = entry
    BY <1>4, <1>5, <2>3
  <2>5. n + 1 - 1 = n
    BY <1>5
  <2> WITNESS 1 \in {0, 1}
  <2> QED
    BY <1>1, <2>1, <2>3, <2>4, <2>5 DEF n
<1>7. CASE ~(Len(longer) > MaxRecentOperations)
  <2>1. operations' = longer
    BY <1>2, <1>7
  <2>2. Len(operations') = n + 1 - 0 /\ n + 1 - 0 >= 1
    BY <1>4, <1>5, <2>1
  <2>3. \A i \in 1..(n + 1) : IF i + 0 <= n THEN operations'[i] = operations[i + 0]
                              ELSE i = n + 1 /\ operations'[i] = entry
    BY <1>4, <1>5, <2>1
  <2>4. n + 1 - 0 = n + 1
    BY <1>5
  <2> WITNESS 0 \in {0, 1}
  <2> QED
    BY <1>1, <2>2, <2>3, <2>4 DEF n
<1> QED
  BY <1>6, <1>7

\* The last operation in the log is the one just applied.
LEMMA LastEntry ==
  ASSUME TypeOK, NEW c \in Conns, NEW id \in OpIds, Remember(c, id)
  PROVE  operations' # <<>> /\ IsEntry(operations'[Len(operations')], c, id)
<1>1. PICK gone \in {0, 1} :
        /\ Len(operations') = Len(operations) + 1 - gone
        /\ Len(operations') >= 1
        /\ \A i \in 1..Len(operations') :
             IF i + gone <= Len(operations) THEN operations'[i] = operations[i + gone]
             ELSE i = Len(operations') /\ IsEntry(operations'[i], c, id)
  BY LogGrows
<1>2. Len(operations) \in Nat
  BY DEF TypeOK
<1>3. /\ Len(operations') \in 1..Len(operations')
      /\ ~(Len(operations') + gone <= Len(operations))
  BY <1>1, <1>2
<1> QED
  BY <1>1, <1>3

LEMMA LogStaysInOrder ==
  ASSUME TypeOK, LogInOrder, NEW c \in Conns, NEW id \in OpIds, Remember(c, id),
         ~Retained(id), revision' = revision + 1
  PROVE  LogInOrder'
<1> DEFINE n == Len(operations)
           len == Len(operations')
<1>1. PICK gone \in {0, 1} :
        /\ len = n + 1 - gone
        /\ len >= 1
        /\ \A i \in 1..len :
             IF i + gone <= n THEN operations'[i] = operations[i + gone]
             ELSE i = len /\ IsEntry(operations'[i], c, id)
  BY LogGrows
<1>2. n \in Nat /\ revision \in Nat
  BY DEF TypeOK
<1>3. /\ \A i \in 1..n : operations[i].revision = revision - (n - i)
      /\ \A i, j \in 1..n : operations[i].id = operations[j].id => i = j
      /\ \A i \in 1..n : operations[i].id # id
  BY DEF LogInOrder, Retained
<1>4. operations' # <<>>
  BY LastEntry
<1> HIDE DEF n, len
<1>5. ASSUME NEW i \in 1..len
      PROVE  operations'[i].revision = (revision + 1) - (len - i)
  <2>1. CASE i + gone <= n
    <3>1. i + gone \in 1..n /\ operations'[i] = operations[i + gone]
      BY <1>1, <1>2, <2>1
    <3>2. operations[i + gone].revision = revision - (n - (i + gone))
      BY <1>3, <3>1
    <3> QED
      BY <1>1, <1>2, <3>1, <3>2
  <2>2. CASE ~(i + gone <= n)
    BY <1>1, <1>2, <2>2 DEF IsEntry
  <2> QED
    BY <2>1, <2>2
<1>6. ASSUME NEW i \in 1..len, NEW j \in 1..len, operations'[i].id = operations'[j].id
      PROVE  i = j
  <2>1. \A x \in 1..len : x + gone <= n => x + gone \in 1..n /\ operations'[x] = operations[x + gone]
    BY <1>1, <1>2
  <2>2. \A x \in 1..len : ~(x + gone <= n) => x = len /\ operations'[x].id = id
    BY <1>1, <1>2 DEF IsEntry
  <2>3. CASE i + gone <= n /\ j + gone <= n
    <3>1. i + gone = j + gone
      BY <1>3, <1>6, <2>1, <2>3
    <3> QED
      BY <1>1, <1>2, <3>1
  <2>4. CASE ~(i + gone <= n /\ j + gone <= n)
    BY <1>3, <1>6, <2>1, <2>2, <2>4
  <2> QED
    BY <2>3, <2>4
<1>7. \A i \in 1..len :
        /\ operations'[i].revision = revision' - (len - i)
        /\ \A j \in 1..len : operations'[i].id = operations'[j].id => i = j
  BY <1>5, <1>6
<1> QED
  BY <1>4, <1>7 DEF LogInOrder, len

LEMMA NextLog == TypeOK /\ LogInOrder /\ [Next]_vars => LogInOrder'
<1> SUFFICES ASSUME TypeOK, LogInOrder, [Next]_vars PROVE LogInOrder'
  OBVIOUS
<1>1. CASE Quiet \/ SeedsScene
  <2>1. operations' = operations /\ revision' = revision
    BY <1>1 DEF Quiet, SeedsScene, HierarchySeed, log
  <2> QED
    BY <2>1 DEF LogInOrder
<1>2. CASE Empties
  BY <1>2, EmptySession DEF LogInOrder
<1>3. CASE Moves
  BY <1>3, LogStaysInOrder DEF Moves, TransformUpdate, MayTransform
<1>4. CASE Edits
  BY <1>4, LogStaysInOrder DEF Edits, HierarchyOperation
<1> QED
  BY <1>1, <1>2, <1>3, <1>4, StepKinds

LEMMA NextStamps == TypeOK /\ StampsReached /\ [Next]_vars => StampsReached'
<1> SUFFICES ASSUME TypeOK, StampsReached, [Next]_vars PROVE StampsReached'
  OBVIOUS
<1>1. revision \in Nat
  BY DEF TypeOK
<1>2. /\ \A k \in DOMAIN objects : /\ objects[k] \in HierarchyRecord
                                   /\ objects[k].revision \in Nat /\ objects[k].pose \in Nat
      /\ \A k \in DOMAIN tombstones : tombstones[k] \in Nat
      /\ \A k \in DOMAIN transforms : transforms[k].revision \in Nat
  BY DEF TypeOK, IsMap, HierarchyRecord
<1>3. CASE Quiet
  BY <1>3 DEF Quiet, StampsReached, hierarchy, log
<1>4. CASE Empties
  BY <1>4, EmptySession DEF StampsReached
<1>5. CASE Moves
  <2>1. PICK c \in Conns, k \in Objects, id \in OpIds, base \in 0..MaxRevision : TransformUpdate(c, k, id, base)
    BY <1>5 DEF Moves
  <2>2. k \in DOMAIN objects =>
          /\ [objects[k] EXCEPT !.pose = revision + 1].pose = revision + 1
          /\ [objects[k] EXCEPT !.pose = revision + 1].revision = objects[k].revision
    BY <1>2 DEF HierarchyRecord
  <2>3. /\ DOMAIN transforms' = DOMAIN transforms \cup {k}
        /\ transforms'[k].revision = revision + 1
        /\ \A x \in DOMAIN transforms \ {k} : transforms'[x].revision = transforms[x].revision
        /\ DOMAIN objects' = DOMAIN objects
        /\ k \in DOMAIN objects => objects'[k].pose = revision + 1 /\ objects'[k].revision = objects[k].revision
        /\ \A x \in DOMAIN objects \ {k} :
             objects'[x].pose = objects[x].pose /\ objects'[x].revision = objects[x].revision
        /\ tombstones' = tombstones
        /\ revision' = revision + 1
    BY <2>1, <2>2, MoveEffect
  <2> QED
    BY <1>1, <1>2, <2>3 DEF StampsReached
<1>6. CASE SeedsScene
  <2>1. PICK c \in Conns, s \in Seeds, base \in 0..MaxRevision : HierarchySeed(c, s, base)
    BY <1>6 DEF SeedsScene
  <2>2. /\ DOMAIN objects' = DOMAIN objects \cup DOMAIN s.nodes
        /\ \A k \in DOMAIN s.nodes : IsBaseline(objects'[k], base)
        /\ \A k \in DOMAIN objects : objects'[k] = objects[k]
        /\ base = revision
        /\ UNCHANGED <<transforms, tombstones, revision>>
    BY <2>1, SeedEffect
  <2>3. \A k \in DOMAIN s.nodes : objects'[k].pose = 0 /\ objects'[k].revision = revision
    BY <2>2 DEF IsBaseline
  <2> QED
    BY <1>1, <1>2, <2>2, <2>3 DEF StampsReached
<1>7. CASE Edits
  <2>1. PICK c \in Conns, m \in HierarchyRequests, id \in OpIds : HierarchyOperation(c, m, id)
    BY <1>7 DEF Edits
  <2>2. /\ IsRequest(m)
        /\ Follows(objects', objects, m, revision + 1)
        /\ \A k \in DOMAIN tombstones' : tombstones'[k] \in {revision + 1, tombstones[k]}
        /\ \A k \in DOMAIN tombstones' : tombstones'[k] = revision + 1 \/ k \in DOMAIN tombstones
    BY <2>1, OperationEffect
  <2>3. /\ \A k \in DOMAIN transforms' : transforms'[k].revision \in {revision + 1, transforms[k].revision}
        /\ DOMAIN transforms' \subseteq DOMAIN transforms
    BY <2>1, <2>2, RetainedTransformsType DEF HierarchyOperation
  <2>4. revision' = revision + 1
    BY <2>1 DEF HierarchyOperation
  <2>5. ASSUME NEW k \in DOMAIN objects'
        PROVE  objects'[k].revision <= revision + 1 /\ objects'[k].pose <= revision + 1
    <3>1. objects'[k].revision = revision + 1 \/ (k \in DOMAIN objects /\ objects'[k].revision = objects[k].revision)
      BY <2>2 DEF Follows
    <3>2. objects'[k].pose = revision + 1 \/ (k \in DOMAIN objects /\ objects'[k].pose = objects[k].pose)
      BY <2>2 DEF Follows, Placed
    <3> QED
      BY <1>1, <1>2, <3>1, <3>2 DEF StampsReached
  <2>6. ASSUME NEW k \in DOMAIN tombstones'
        PROVE  tombstones'[k] <= revision + 1
    BY <1>1, <1>2, <2>2 DEF StampsReached
  <2>7. ASSUME NEW k \in DOMAIN transforms'
        PROVE  transforms'[k].revision <= revision + 1
    BY <1>1, <1>2, <2>3 DEF StampsReached
  <2> QED
    BY <2>4, <2>5, <2>6, <2>7 DEF StampsReached
<1> QED
  BY <1>3, <1>4, <1>5, <1>6, <1>7, StepKinds

\* Recent operations are numbered to the current revision without a gap, none
\* is applied twice while it is remembered, and nothing is ahead of the log.
THEOREM LogOrdersEverything == Spec => []RevisionLog
<1>1. Init => LogInOrder /\ StampsReached
  BY DEF Init, LogInOrder, StampsReached, EmptyMap
<1>2. TypeOK /\ LogInOrder /\ StampsReached => RevisionLog
  <2> SUFFICES ASSUME TypeOK, LogInOrder, StampsReached PROVE RevisionLog
    OBVIOUS
  <2>1. revision \in Nat /\ Len(operations) \in Nat
    BY DEF TypeOK
  <2>2. operations # <<>> => operations[Len(operations)].revision = revision
    <3> SUFFICES ASSUME operations # <<>> PROVE operations[Len(operations)].revision = revision
      OBVIOUS
    <3>1. Len(operations) \in 1..Len(operations)
      BY DEF TypeOK
    <3> QED
      BY <2>1, <3>1 DEF LogInOrder
  <2> QED
    BY <2>2 DEF RevisionLog, LogInOrder, StampsReached
<1> QED
  BY <1>1, <1>2, NextLog, NextStamps, SessionTypeOK, PTL DEF Spec

-----------------------------------------------------------------------------
(* What a step may never do. *)

\* A request or a release of one connection leaves the leases of others alone.
LEMMA RequestsSpareOthers ==
  ASSUME TypeOK, NEW k \in DOMAIN LiveLocks, NEW c \in Conns, c # locks[k].owner,
         NEW o \in Objects, LockRequest(c, o) \/ LockRelease(c, o)
  PROVE  k \in DOMAIN locks' /\ locks'[k] = locks[k]
<1>1. k \in LiveForeign(c)
  BY DEF LiveForeign
<1>2. LiveLocks[k] = locks[k]
  BY LiveLocksType
<1>3. CASE LockRequest(c, o)
  <2>1. o # k /\ \E lock : locks' = Put(LiveLocks, o, lock)
    BY <1>1, <1>3 DEF LockRequest
  <2> QED
    BY <1>2, <2>1 DEF Put
<1>4. CASE LockRelease(c, o)
  <2>1. o # k /\ locks' = Drop(LiveLocks, {o})
    BY <1>4 DEF LockRelease, HoldsLease
  <2> QED
    BY <1>2, <2>1 DEF Drop
<1> QED
  BY <1>3, <1>4

\* Who may make a live lock go.
LEMMA LeaseEnds ==
  ASSUME TypeOK, LockOwnersAreMembers, Next, NEW k \in DOMAIN LiveLocks, k \notin DOMAIN locks'
  PROVE  \/ members'[UserOf[locks[k].owner]] # locks[k].owner
         \/ revision' > revision /\ LastUser' = UserOf[locks[k].owner]
         \/ LockRelease(locks[k].owner, k)
<1> DEFINE owner == locks[k].owner
<1>1. k \in DOMAIN locks /\ k \notin Expired /\ LiveLocks[k] = locks[k]
  BY LiveLocksType
<1>2. owner \in Conns /\ owner # NoConn /\ UserOf[owner] \in Users /\ members[UserOf[owner]] = owner
  BY <1>1, AuthorityAssumption DEF TypeOK, IsMap, LockState, LockOwnersAreMembers, Active
<1>3. members \in [Users -> Conns \cup {NoConn}]
  BY DEF TypeOK
<1> HIDE DEF owner
<1>4. ASSUME NEW c \in Conns, RegisterPresence(c)
      PROVE  members'[UserOf[owner]] # owner
  <2>1. owner = members[UserOf[c]]
    BY <1>1, <1>4, RegisterLocks DEF OwnedBy, owner
  <2>2. UserOf[c] \in Users
    BY AuthorityAssumption
  <2>3. owner \in open /\ UserOf[owner] = UserOf[c]
    BY <1>2, <2>1, <2>2 DEF LockOwnersAreMembers
  <2> QED
    BY <1>2, <1>3, <1>4, <2>3 DEF RegisterPresence
<1>5. ASSUME NEW c \in Conns, RemovePresence(c)
      PROVE  members'[UserOf[owner]] # owner
  <2>1. owner = c
    BY <1>1, <1>5 DEF RemovePresence, Drop, OwnedBy, owner
  <2> QED
    BY <1>2, <1>3, <1>5, <2>1 DEF RemovePresence
<1>6. ASSUME NEW c \in Conns, RemoveLastPresence(c)
      PROVE  members'[UserOf[owner]] # owner
  BY <1>2, <1>6 DEF RemoveLastPresence, ForgetSession, NoMembers
<1>7. ASSUME NEW c \in Conns, NEW x \in Objects, LockRelease(c, x)
      PROVE  LockRelease(owner, k)
  <2>1. x = k
    BY <1>7 DEF LockRelease, Drop
  <2> QED
    BY <1>7, <2>1 DEF LockRelease, HoldsLease, owner
<1>8. ASSUME NEW c \in Conns, NEW m \in HierarchyRequests, NEW id \in OpIds,
             HierarchyOperation(c, m, id)
      PROVE  revision' > revision /\ LastUser' = UserOf[owner]
  <2>1. k \in DeletedObjects(objects, m)
    BY <1>8, OperationEffect
  <2>2. owner = c
    BY <1>8, <2>1 DEF HierarchyOperation, LiveForeign, owner
  <2>3. LastUser' = UserOf[c]
    BY <1>8, LastEntry DEF HierarchyOperation, LastUser, IsEntry
  <2> QED
    BY <1>8, <2>2, <2>3 DEF HierarchyOperation, TypeOK
<1>9. ASSUME NEW c \in Conns, NEW x \in Objects, LockRequest(c, x)
      PROVE  FALSE
  BY <1>9 DEF LockRequest, Put
<1>10. ASSUME NEW c \in Conns, NEW x \in Objects, NEW id \in OpIds, NEW base \in 0..MaxRevision,
              TransformUpdate(c, x, id, base) \/ TransformTooLarge(c, x, id, base)
       PROVE  FALSE
  BY <1>10 DEF TransformUpdate, TransformTooLarge
<1>11. ~Tick /\ ~ExpireLocks
  BY <1>1 DEF Tick, ExpireLocks
<1>12. \A c \in Conns :
         /\ ~CloseSuperseded(c)
         /\ \A x \in Selectable \cup {NoObject} : ~UpdatePresence(c, x)
         /\ \A s \in Seeds, base \in 0..MaxRevision : ~HierarchySeed(c, s, base)
  BY <1>1 DEF CloseSuperseded, UpdatePresence, HierarchySeed
<1> QED
  BY <1>4, <1>5, <1>6, <1>7, <1>8, <1>9, <1>10, <1>11, <1>12 DEF Next, owner

LEMMA StepSparesLeases ==
  TypeOK /\ LockOwnersAreMembers /\ [Next]_vars => [LeasesSurvive]_vars
<1> SUFFICES ASSUME TypeOK, LockOwnersAreMembers, Next PROVE LeasesSurvive
  OBVIOUS
<1> SUFFICES ASSUME NEW k \in DOMAIN LiveLocks
             PROVE  /\ \A c \in Conns \ {locks[k].owner} :
                         (\E o \in Objects : LockRequest(c, o) \/ LockRelease(c, o))
                           => k \in DOMAIN locks' /\ locks'[k] = locks[k]
                    /\ k \in DOMAIN locks' => locks'[k].owner = locks[k].owner
                    /\ k \notin DOMAIN locks' =>
                         \/ members'[UserOf[locks[k].owner]] # locks[k].owner
                         \/ revision' > revision /\ LastUser' = UserOf[locks[k].owner]
                         \/ LockRelease(locks[k].owner, k)
  BY DEF LeasesSurvive
<1>1. \A c \in Conns \ {locks[k].owner} :
        (\E o \in Objects : LockRequest(c, o) \/ LockRelease(c, o))
          => k \in DOMAIN locks' /\ locks'[k] = locks[k]
  BY RequestsSpareOthers
<1>2. k \in DOMAIN locks' => locks'[k].owner = locks[k].owner
  <2>1. CASE LocksShrink
    BY <2>1 DEF LocksShrink
  <2>2. ASSUME NEW c \in Conns, NEW o \in Objects, LockRequest(c, o)
        PROVE  locks'[k].owner = locks[k].owner
    <3>1. CASE c # locks[k].owner
      BY <2>2, <3>1, RequestsSpareOthers
    <3>2. CASE c = locks[k].owner
      <4>1. LiveLocks[k] = locks[k]
        BY LiveLocksType
      <4> DEFINE lock == [owner |-> c, ttl |-> Lease]
      <4>2. lock.owner = c /\ locks' = Put(LiveLocks, o, lock)
        BY <2>2 DEF LockRequest
      <4> HIDE DEF lock
      <4> QED
        BY <3>2, <4>1, <4>2 DEF Put
    <3> QED
      BY <3>1, <3>2
  <2> QED
    BY <2>1, <2>2, OnlyRequestsAddLocks DEF IsLockRequest
<1> QED
  BY <1>1, <1>2, LeaseEnds

\* A running lease is ended by its owner's own doing and by nothing else.
THEOREM LeasesAreRespected == Spec => ForeignLeasesSurvive
<1>1. Spec => []TypeOK
  BY SessionTypeOK
<1>2. Spec => []LockOwnersAreMembers
  BY LockOwnersArePresent
<1> QED
  BY <1>1, <1>2, StepSparesLeases, PTL DEF Spec, ForeignLeasesSurvive

LEMMA StepOrdersChanges == TypeOK /\ [Next]_vars => [ChangesInOrder]_vars
<1> SUFFICES ASSUME TypeOK, [Next]_vars PROVE ChangesInOrder
  OBVIOUS
<1>1. CASE Quiet
  BY <1>1 DEF Quiet, ChangesInOrder, hierarchy
<1>2. CASE Empties
  <2>1. SessionEnds
    BY <1>2, AuthorityAssumption
       DEF Empties, RemoveLastPresence, ForgetSession, Active, NoMembers, SessionEnds
  <2> QED
    BY <1>2, <2>1 DEF Empties, RemoveLastPresence, ForgetSession, ChangesInOrder
<1>3. CASE Moves \/ Edits
  BY <1>3 DEF Moves, Edits, TransformUpdate, HierarchyOperation, ChangesInOrder
<1>4. CASE SeedsScene
  <2>1. PICK c \in Conns, s \in Seeds, base \in 0..MaxRevision : HierarchySeed(c, s, base)
    BY <1>4 DEF SeedsScene
  <2>2. /\ DOMAIN objects' = DOMAIN objects \cup DOMAIN s.nodes
        /\ \A k \in DOMAIN s.nodes : SceneOf[k] = s.scene
        /\ \A k \in DOMAIN objects : objects'[k] = objects[k]
        /\ s.scene \notin scenes /\ scenes' = scenes \cup {s.scene}
        /\ UNCHANGED <<transforms, tombstones, operations, revision>>
    BY <2>1, SeedEffect
  <2> QED
    BY <2>2 DEF ChangesInOrder, log
<1> QED
  BY <1>1, <1>2, <1>3, <1>4, StepKinds

\* What late joiners are sent changes by one revision at a time, by a whole new
\* Scene, or by the end of the session.
THEOREM RevisionsOrderChanges == Spec => RevisionOrdersChanges
  BY SessionTypeOK, StepOrdersChanges, PTL DEF Spec, RevisionOrdersChanges

-----------------------------------------------------------------------------
(* Who moves an object. *)

\* The record of an object that a structural edit places is stamped by it.
LEMMA PlacedIsStamped ==
  ASSUME TypeOK, NEW c \in Conns, NEW m \in HierarchyRequests, NEW id \in OpIds,
         HierarchyOperation(c, m, id), NEW k \in Objects, NewPose(k)
  PROVE  k \in DOMAIN objects' /\ objects'[k].revision = revision'
<1>1. IsRequest(m) /\ Follows(objects', objects, m, revision + 1) /\ revision' = revision + 1
  BY OperationEffect DEF HierarchyOperation
<1>2. \A x \in DOMAIN RetainedTransforms(m) :
        x \in DOMAIN transforms /\ ((x = m.object /\ Placed(m)) \/ RetainedTransforms(m)[x] = transforms[x])
  BY DEF RetainedTransforms, Put, Drop, Placed
<1>3. k = m.object /\ Placed(m)
  BY <1>1, <1>2 DEF NewPose, HierarchyOperation, Follows, Placed
<1>4. m.kind # "create_object" => m.object \in DOMAIN objects
  BY AcceptedTarget DEF HierarchyOperation
<1>5. k \in DOMAIN objects'
  BY <1>1, <1>3, <1>4 DEF Follows, Placed, DeletedObjects
<1> QED
  BY <1>1, <1>3, <1>5 DEF Follows

\* A step that gives an object a new pose has the running lease of its author,
\* or is a structural edit of the object.
LEMMA StepNeedsLease == TypeOK /\ [Next]_vars => [MovesAreLeased]_vars
<1> SUFFICES ASSUME TypeOK, [Next]_vars, NEW k \in Objects, NewPose(k)
             PROVE  \/ /\ k \in DOMAIN LiveLocks
                       /\ LastUser' = UserOf[locks[k].owner]
                       /\ k \in DOMAIN locks' /\ locks'[k] = locks[k]
                    \/ k \in DOMAIN objects' /\ objects'[k].revision = revision'
  BY DEF MovesAreLeased
<1>1. CASE Quiet
  BY <1>1 DEF Quiet, hierarchy, NewPose
<1>2. CASE Empties
  BY <1>2, EmptySession DEF NewPose
<1>3. CASE Moves
  <2>1. PICK c \in Conns, x \in Objects, id \in OpIds, base \in 0..MaxRevision : TransformUpdate(c, x, id, base)
    BY <1>3 DEF Moves
  <2>2. x = k
    BY <2>1, MoveEffect DEF NewPose
  <2>3. k \in DOMAIN LiveLocks /\ locks[k].owner = c /\ locks' = LiveLocks
    BY <2>1, <2>2 DEF TransformUpdate, MayTransform, HoldsLease
  <2>4. LastUser' = UserOf[c]
    BY <2>1, LastEntry DEF TransformUpdate, LastUser, IsEntry
  <2> QED
    BY <2>3, <2>4, LiveLocksType
<1>4. CASE SeedsScene
  <2>1. PICK c \in Conns, s \in Seeds, base \in 0..MaxRevision : HierarchySeed(c, s, base)
    BY <1>4 DEF SeedsScene
  <2> QED
    BY <2>1, SeedEffect DEF NewPose
<1>5. CASE Edits
  BY <1>5, PlacedIsStamped DEF Edits
<1> QED
  BY <1>1, <1>2, <1>3, <1>4, <1>5, StepKinds

\* No update of a former owner passes: every new pose is the edit of the user
\* whose lease on the object runs, or comes with a structural edit of it.
THEOREM MovesNeedLeases == Spec => EditsNeedLeases
  BY SessionTypeOK, StepNeedsLease, PTL DEF Spec, EditsNeedLeases

-----------------------------------------------------------------------------
(* Locked content. *)

\* What an object shows is the same when its own fields and its children are.
LEMMA SameContent ==
  ASSUME NEW k, k \in DOMAIN objects, k \in DOMAIN objects',
         objects'[k].parent = objects[k].parent,
         objects'[k].name = objects[k].name,
         objects'[k].pose = objects[k].pose,
         ChildrenOf(objects', SceneOf[k], k) = ChildrenOf(objects, SceneOf[k], k),
         \A x \in ChildrenOf(objects, SceneOf[k], k) : objects'[x].index = objects[x].index
  PROVE  Content(k)' = Content(k)
<1>1. [x \in ChildrenOf(objects', SceneOf[k], k) |-> objects'[x].index]
        = [x \in ChildrenOf(objects, SceneOf[k], k) |-> objects[x].index]
  OBVIOUS
<1> QED
  BY <1>1 DEF Content

\* An edit of somebody else leaves the locked object and its child list alone.
LEMMA EditsSpareLocked ==
  ASSUME TypeOK, NEW c \in Conns, NEW m \in HierarchyRequests, NEW id \in OpIds,
         HierarchyOperation(c, m, id),
         NEW k \in DOMAIN objects, k \in LiveForeign(c)
  PROVE  k \in DOMAIN objects' /\ Content(k)' = Content(k)
<1> DEFINE deleted == DeletedObjects(objects, m)
<1>1. IsRequest(m) /\ Follows(objects', objects, m, revision + 1)
  BY OperationEffect
<1>2. /\ m.kind # "create_object" => m.object \in DOMAIN objects
      /\ m.kind = "create_object" => m.object \notin DOMAIN objects
  BY AcceptedTarget DEF HierarchyOperation
<1>3. m.object # k
  BY <1>2 DEF HierarchyOperation, OperationAccepted
<1>4. k \notin deleted
  BY DEF HierarchyOperation
<1>5. k # Root /\ k \in Objects /\ IsObjects(objects)
  BY HierarchyAssumption DEF TypeOK, IsMap, IsObjects
<1>6. k \notin TouchedParents(objects, m)
  BY <1>2, <1>5 DEF HierarchyOperation, GuardedParents, TouchedParents, Placed
<1>7. ASSUME NEW x \in DOMAIN objects, objects[x].parent = k
      PROVE  x \notin deleted
  <2> SUFFICES ASSUME x \in deleted PROVE FALSE
    OBVIOUS
  <2>1. m.kind = "delete_object" /\ x \in DescendantsIncluding(objects, m.object)
    BY DEF DeletedObjects
  <2>2. x # m.object
    BY <1>6, <1>7, <2>1 DEF TouchedParents
  <2>3. k \in DescendantsIncluding(objects, m.object)
    BY <1>2, <1>5, <1>7, <2>1, <2>2, DescendantsFromParents
  <2> QED
    BY <1>4, <2>1, <2>3 DEF DeletedObjects
<1>8. deleted \subseteq DOMAIN objects
  BY DeletedAreObjects
<1> HIDE DEF deleted
<1>9. DOMAIN objects' = IF m.kind = "create_object" THEN DOMAIN objects \cup {m.object}
                        ELSE DOMAIN objects \ deleted
  BY <1>1 DEF Follows, deleted
<1>10. m.kind = "create_object" => deleted = {}
  BY DEF deleted, DeletedObjects
<1>11. \A x \in DOMAIN objects' :
         objects'[x].parent = IF x = m.object /\ Placed(m) THEN m.parent ELSE objects[x].parent
  BY <1>1 DEF Follows
<1>12. k \in DOMAIN objects'
  BY <1>4, <1>9
<1>13. Placed(m) => m.parent # k
  BY <1>6 DEF TouchedParents
<1>14. m.kind = "reparent_object" => objects[m.object].parent # k
  BY <1>6 DEF TouchedParents
<1>15. ASSUME NEW x
       PROVE  (x \in DOMAIN objects' /\ objects'[x].parent = k) <=> (x \in DOMAIN objects /\ objects[x].parent = k)
  <2>1. CASE x = m.object /\ Placed(m)
    BY <1>2, <1>11, <1>13, <1>14, <2>1 DEF Placed
  <2>2. CASE ~(x = m.object /\ Placed(m))
    BY <1>7, <1>9, <1>10, <1>11, <2>2 DEF Placed
  <2> QED
    BY <2>1, <2>2
<1>16. ChildrenOf(objects', SceneOf[k], k) = ChildrenOf(objects, SceneOf[k], k)
  BY <1>15 DEF ChildrenOf, SceneObjects
<1>17. ASSUME NEW x \in ChildrenOf(objects, SceneOf[k], k)
       PROVE  objects'[x].index = objects[x].index
  <2>1. x \in DOMAIN objects /\ objects[x].parent = k /\ x \in DOMAIN objects'
    BY <1>15 DEF ChildrenOf, SceneObjects
  <2>2. CASE x # m.object
    BY <1>1, <1>6, <2>1, <2>2 DEF Follows
  <2>3. CASE x = m.object
    <3>1. m.kind = "rename_object"
      BY <1>1, <1>2, <1>6, <2>1, <2>3 DEF TouchedParents, IsRequest, Kinds
    <3>2. objects' = NextObjects(objects, m, revision + 1) /\ revision + 1 \in Nat
      BY DEF HierarchyOperation, TypeOK
    <3> QED
      BY <1>1, <1>5, <2>1, <2>3, <3>1, <3>2, RenameKeepsOrder
  <2> QED
    BY <2>2, <2>3
<1>18. /\ objects'[k].parent = objects[k].parent
       /\ objects'[k].name = objects[k].name
       /\ objects'[k].pose = objects[k].pose
  BY <1>1, <1>3, <1>12 DEF Follows
<1> QED
  BY <1>12, <1>16, <1>17, <1>18, SameContent

LEMMA StepKeepsLocked == TypeOK /\ [Next]_vars => [LockedContentKept]_vars
<1> SUFFICES ASSUME TypeOK, [Next]_vars, NEW k \in DOMAIN LiveLocks, k \in DOMAIN objects
             PROVE  \/ k \in DOMAIN objects' /\ Content(k)' = Content(k)
                    \/ SessionEnds
                    \/ LastUser' = UserOf[locks[k].owner]
  BY DEF LockedContentKept
<1>1. CASE Quiet
  <2>1. objects' = objects
    BY <1>1 DEF Quiet, hierarchy
  <2> QED
    BY <2>1, SameContent
<1>2. CASE Empties
  BY <1>2, AuthorityAssumption
     DEF Empties, RemoveLastPresence, ForgetSession, Active, NoMembers, SessionEnds
<1>3. CASE Moves
  <2>1. PICK c \in Conns, x \in Objects, id \in OpIds, base \in 0..MaxRevision : TransformUpdate(c, x, id, base)
    BY <1>3 DEF Moves
  <2>2. CASE x = k
    <3>1. LastUser' = UserOf[c] /\ locks[k].owner = c
      BY <2>1, <2>2, LastEntry DEF TransformUpdate, MayTransform, HoldsLease, LastUser, IsEntry
    <3> QED
      BY <3>1
  <2>3. CASE x # k
    <3>1. x \in DOMAIN objects => /\ [objects[x] EXCEPT !.pose = revision + 1].parent = objects[x].parent
                                 /\ [objects[x] EXCEPT !.pose = revision + 1].index = objects[x].index
      BY DEF TypeOK, IsMap, HierarchyRecord
    <3>2. /\ DOMAIN objects' = DOMAIN objects
          /\ objects'[k] = objects[k]
          /\ \A y \in DOMAIN objects :
               objects'[y].parent = objects[y].parent /\ objects'[y].index = objects[y].index
      BY <2>1, <2>3, <3>1, MoveEffect
    <3>3. ChildrenOf(objects', SceneOf[k], k) = ChildrenOf(objects, SceneOf[k], k)
      BY <3>2 DEF ChildrenOf, SceneObjects
    <3>4. \A y \in ChildrenOf(objects, SceneOf[k], k) : objects'[y].index = objects[y].index
      BY <3>2 DEF ChildrenOf, SceneObjects
    <3> QED
      BY <3>2, <3>3, <3>4, SameContent
  <2> QED
    BY <2>2, <2>3
<1>4. CASE SeedsScene
  <2>1. PICK c \in Conns, s \in Seeds, base \in 0..MaxRevision : HierarchySeed(c, s, base)
    BY <1>4 DEF SeedsScene
  <2>2. /\ DOMAIN objects' = DOMAIN objects \cup DOMAIN s.nodes
        /\ \A x \in DOMAIN s.nodes : SceneOf[x] = s.scene
        /\ \A x \in DOMAIN objects : objects'[x] = objects[x] /\ SceneOf[x] # s.scene
    BY <2>1, SeedEffect
  <2>3. ChildrenOf(objects', SceneOf[k], k) = ChildrenOf(objects, SceneOf[k], k)
    BY <2>2 DEF ChildrenOf, SceneObjects
  <2>4. \A y \in ChildrenOf(objects, SceneOf[k], k) : objects'[y].index = objects[y].index
    BY <2>2 DEF ChildrenOf, SceneObjects
  <2> QED
    BY <2>2, <2>3, <2>4, SameContent
<1>5. CASE Edits
  <2>1. PICK c \in Conns, m \in HierarchyRequests, id \in OpIds : HierarchyOperation(c, m, id)
    BY <1>5 DEF Edits
  <2>2. CASE locks[k].owner = c
    <3>1. LastUser' = UserOf[c]
      BY <2>1, LastEntry DEF HierarchyOperation, LastUser, IsEntry
    <3> QED
      BY <2>2, <3>1
  <2>3. CASE locks[k].owner # c
    BY <2>1, <2>3, EditsSpareLocked DEF LiveForeign
  <2> QED
    BY <2>2, <2>3
<1> QED
  BY <1>1, <1>2, <1>3, <1>4, <1>5, StepKinds

\* Nobody edits a locked object, its child list or its existence but its holder.
THEOREM LockedContentIsRespected == Spec => LockedContentIsStable
  BY SessionTypeOK, StepKeepsLocked, PTL DEF Spec, LockedContentIsStable

-----------------------------------------------------------------------------
(* Rows: what an edit does to the order of the siblings it does not name.   *)

Apart(objs, K) ==
  \A a, b \in K : SamePlace(objs, a, b) /\ a # b => objs[a].index # objs[b].index

\* Among the objects K nothing moves.
RowsKept(new, old, K) ==
  /\ \A a \in K : a \in DOMAIN new /\ a \in DOMAIN old /\ new[a].parent = old[a].parent
  /\ \A a, b \in K : SamePlace(old, a, b) => (new[a].index < new[b].index <=> old[a].index < old[b].index)

LEMMA RowsKeptTwice ==
  ASSUME NEW a, NEW b, NEW c, NEW K, RowsKept(b, a, K), RowsKept(c, b, K)
  PROVE  RowsKept(c, a, K)
BY DEF RowsKept, SamePlace

LEMMA ApartKept ==
  ASSUME NEW old, NEW new, NEW K, IsObjects(old), IsObjects(new), RowsKept(new, old, K), Apart(old, K)
  PROVE  Apart(new, K)
<1>1. \A a \in K : old[a].index \in Nat /\ new[a].index \in Nat
  BY DEF RowsKept, IsObjects, IsMap, HierarchyRecord
<1>2. ASSUME NEW a \in K, NEW b \in K, SamePlace(new, a, b), a # b
      PROVE  new[a].index # new[b].index
  <2>1. SamePlace(old, a, b) /\ SamePlace(old, b, a)
    BY <1>2 DEF RowsKept, SamePlace
  <2>2. /\ new[a].index < new[b].index <=> old[a].index < old[b].index
        /\ new[b].index < new[a].index <=> old[b].index < old[a].index
        /\ old[a].index # old[b].index
    BY <1>2, <2>1 DEF RowsKept, Apart
  <2> QED
    BY <1>1, <2>2
<1> QED
  BY <1>2 DEF Apart

\* In canonical order no two siblings have one index.
LEMMA OrderedApart ==
  ASSUME NEW objs, IsObjects(objs), CanonicalOrder(objs)
  PROVE  Apart(objs, DOMAIN objs)
BY DEF Apart, CanonicalOrder, SamePlace, ChildrenOf, SceneObjects

\* Where siblings have different indexes, sorting them is by index.
LEMMA PositionsAgree ==
  ASSUME NEW objs, IsObjects(objs), NEW S \in SUBSET (DOMAIN objs),
         \A a, b \in S : a # b => objs[a].index # objs[b].index
  PROVE  \A a, b \in S : Position(objs, S, a) < Position(objs, S, b) <=> objs[a].index < objs[b].index
<1>1. \A a, b \in S : /\ Before(objs, a, b) <=> objs[a].index < objs[b].index
                      /\ objs[a].index \in Nat /\ objs[b].index \in Nat
                      /\ Position(objs, S, a) \in Nat /\ Position(objs, S, b) \in Nat
  <2>1. \A a \in S : a \in Objects /\ objs[a].index \in Nat /\ IdOrder[a] \in Nat
    BY HierarchyAssumption DEF IsObjects, IsMap, HierarchyRecord
  <2>2. S \in SUBSET Objects
    BY <2>1
  <2>3. \A a \in S : Position(objs, S, a) \in Nat
    BY <2>2, PositionType
  <2>4. \A a, b \in S : Before(objs, a, b) <=> objs[a].index < objs[b].index
    <3> SUFFICES ASSUME NEW a \in S, NEW b \in S
                 PROVE  Before(objs, a, b) <=> objs[a].index < objs[b].index
      OBVIOUS
    <3>1. a = b \/ objs[a].index # objs[b].index
      OBVIOUS
    <3> QED
      BY <2>1, <3>1 DEF Before
  <2> QED
    BY <2>1, <2>3, <2>4
<1>2. \A a, b \in S : Before(objs, a, b) => Position(objs, S, a) < Position(objs, S, b)
  BY PositionsOrder
<1> QED
  BY <1>1, <1>2

LEMMA ReindexKeepsRows ==
  ASSUME NEW objs, IsObjects(objs), NEW S \in SUBSET (DOMAIN objs), NEW rev \in Nat,
         NEW K \in SUBSET (DOMAIN objs), S \subseteq K, Apart(objs, K),
         \A a \in S, b \in K : SamePlace(objs, a, b) <=> b \in S
  PROVE  RowsKept(Reindex(objs, S, rev), objs, K)
<1> DEFINE new == Reindex(objs, S, rev)
<1>1. S \in SUBSET Objects
  BY DEF IsObjects, IsMap
<1>2. Reindexed(new, objs, S, rev) /\ \A k \in S : new[k].index = Position(objs, S, k)
  BY <1>1, ReindexType
<1> HIDE DEF new
<1>3. \A a, b \in S : a # b => objs[a].index # objs[b].index
  BY DEF Apart
<1>4. \A a, b \in S : Position(objs, S, a) < Position(objs, S, b) <=> objs[a].index < objs[b].index
  BY <1>3, PositionsAgree
<1>5. \A a, b \in K : SamePlace(objs, a, b) => (a \in S <=> b \in S)
  BY DEF SamePlace
<1>6. \A a \in K \ S : new[a].index = objs[a].index
  BY <1>2 DEF Reindexed
<1>7. \A a \in K : a \in DOMAIN new /\ new[a].parent = objs[a].parent
  BY <1>2 DEF Reindexed
<1>8. ASSUME NEW a \in K, NEW b \in K, SamePlace(objs, a, b)
      PROVE  new[a].index < new[b].index <=> objs[a].index < objs[b].index
  <2>1. CASE a \in S /\ b \in S
    BY <1>2, <1>4, <2>1
  <2>2. CASE a \notin S /\ b \notin S
    BY <1>6, <2>2
  <2> QED
    BY <1>5, <1>8, <2>1, <2>2
<1> QED
  BY <1>7, <1>8 DEF RowsKept, new

LEMMA InsertAtKeepsRows ==
  ASSUME NEW objs, IsObjects(objs), NEW k \in DOMAIN objs, NEW requested \in Nat, NEW rev \in Nat,
         Apart(objs, DOMAIN objs \ {k})
  PROVE  RowsKept(InsertAt(objs, k, requested, rev), objs, DOMAIN objs \ {k})
<1> DEFINE new == InsertAt(objs, k, requested, rev)
           S == Siblings(objs, k)
           at == Clamped(objs, k, requested)
           K == DOMAIN objs \ {k}
<1>1. /\ S \in SUBSET (DOMAIN objs) /\ S \in SUBSET Objects /\ S \subseteq K
      /\ \A a, b \in K : SamePlace(objs, a, b) => (a \in S <=> b \in S)
      /\ \A a, b \in S : SamePlace(objs, a, b)
  BY DEF IsObjects, IsMap, Siblings, ChildrenOf, SceneObjects, SamePlace
<1>2. /\ Reindexed(new, objs, S \cup {k}, rev)
      /\ \A s \in S : new[s].index = Shifted(objs, k, requested, s)
  BY InsertAtType
<1>3. at \in Nat
  BY <1>1, HierarchyAssumption, FS_Subset, FS_CardinalityType DEF Clamped
<1>4. \A s \in S : Position(objs, S, s) \in Nat
  <2> HIDE DEF S
  <2> QED
    BY <1>1, PositionType
<1>5. \A s \in S : new[s].index = IF Position(objs, S, s) < at THEN Position(objs, S, s)
                                                              ELSE Position(objs, S, s) + 1
  BY <1>2 DEF Shifted
<1> HIDE DEF new, S, at
<1>6. \A a, b \in S : a # b => objs[a].index # objs[b].index
  BY <1>1 DEF Apart
<1>7. \A a, b \in S : Position(objs, S, a) < Position(objs, S, b) <=> objs[a].index < objs[b].index
  BY <1>1, <1>6, PositionsAgree
<1>8. \A a, b \in S : new[a].index < new[b].index <=> Position(objs, S, a) < Position(objs, S, b)
  BY <1>3, <1>4, <1>5
<1>9. \A a \in K \ S : new[a].index = objs[a].index
  BY <1>2 DEF Reindexed
<1>10. \A a \in K : a \in DOMAIN new /\ new[a].parent = objs[a].parent
  BY <1>2 DEF Reindexed
<1> HIDE DEF K
<1>11. ASSUME NEW a \in K, NEW b \in K, SamePlace(objs, a, b)
       PROVE  new[a].index < new[b].index <=> objs[a].index < objs[b].index
  <2>1. CASE a \in S /\ b \in S
    BY <1>7, <1>8, <2>1
  <2>2. CASE a \notin S /\ b \notin S
    BY <1>9, <2>2
  <2> QED
    BY <1>1, <1>11, <2>1, <2>2
<1>12. \A a \in K : a \in DOMAIN objs
  BY DEF K
<1> QED
  BY <1>10, <1>11, <1>12 DEF RowsKept, new, K
LEMMA CreateKeepsRows ==
  ASSUME NEW objs, IsObjects(objs), NEW m, IsRequest(m), NEW rev \in Nat, CanonicalOrder(objs),
         m.kind = "create_object", m.object \notin DOMAIN objs
  PROVE  RowsKept(NextObjects(objs, m, rev), objs, DOMAIN objs)
<1> DEFINE record == [parent |-> m.parent, index |-> 0, name |-> rev, pose |-> rev,
                      created |-> rev, revision |-> rev]
           grown == Put(objs, m.object, record)
           next == InsertAt(grown, m.object, m.index, rev)
<1>1. NextObjects(objs, m, rev) = next
  BY DEF NextObjects
<1>2. record \in HierarchyRecord /\ m.index \in Nat /\ m.object \in Objects
  BY DEF HierarchyRecord, IsRequest
<1> HIDE DEF record
<1>3. /\ IsObjects(grown) /\ DOMAIN grown = DOMAIN objs \cup {m.object}
      /\ \A x \in DOMAIN objs : grown[x] = objs[x]
  BY <1>2 DEF IsObjects, IsMap, Put
<1> HIDE DEF grown, next
<1>4. DOMAIN grown \ {m.object} = DOMAIN objs
  BY <1>3
<1>5. RowsKept(grown, objs, DOMAIN objs)
  BY <1>3 DEF RowsKept
<1>6. Apart(grown, DOMAIN objs)
  BY <1>3, <1>5, OrderedApart, ApartKept
<1>7. RowsKept(next, grown, DOMAIN objs)
  <2>1. m.object \in DOMAIN grown /\ Apart(grown, DOMAIN grown \ {m.object})
    BY <1>3, <1>4, <1>6
  <2>2. RowsKept(next, grown, DOMAIN grown \ {m.object})
    BY <1>2, <1>3, <2>1, InsertAtKeepsRows DEF next
  <2> QED
    BY <1>4, <2>2
<1> QED
  BY <1>1, <1>5, <1>7, RowsKeptTwice

LEMMA DeleteKeepsRows ==
  ASSUME NEW objs, IsObjects(objs), NEW m, IsRequest(m), NEW rev \in Nat, CanonicalOrder(objs),
         m.kind = "delete_object", m.object \in DOMAIN objs
  PROVE  RowsKept(NextObjects(objs, m, rev), objs, DOMAIN objs \ DescendantsIncluding(objs, m.object))
<1> DEFINE gone == DescendantsIncluding(objs, m.object)
           rest == Drop(objs, gone)
           K == DOMAIN objs \ gone
           home == objs[m.object].parent
           left == ChildrenOf(rest, SceneOf[m.object], home)
           next == Reindex(rest, left, rev)
<1>1. NextObjects(objs, m, rev) = next
  BY DEF NextObjects
<1> HIDE DEF gone
<1>2. IsObjects(rest) /\ DOMAIN rest = K /\ \A x \in K : rest[x] = objs[x] /\ x \in DOMAIN objs
  BY DropType DEF IsObjects
<1> HIDE DEF rest, K
<1>3. RowsKept(rest, objs, K)
  BY <1>2 DEF RowsKept
<1>4. Apart(rest, K)
  <2>1. Apart(objs, K)
    BY <1>2, OrderedApart DEF Apart
  <2> QED
    BY <1>2, <1>3, <2>1, ApartKept
<1>5. left \in SUBSET (DOMAIN rest) /\ left \subseteq K
  BY <1>2, ChildrenAreObjects
<1>6. \A a \in left, b \in K : SamePlace(rest, a, b) <=> b \in left
  BY <1>2 DEF SamePlace, ChildrenOf, SceneObjects
<1> HIDE DEF left
<1>7. RowsKept(next, rest, K)
  BY <1>2, <1>4, <1>5, <1>6, ReindexKeepsRows
<1> HIDE DEF next
<1>8. RowsKept(next, objs, K)
  BY <1>3, <1>7, RowsKeptTwice
<1> QED
  BY <1>1, <1>8 DEF K, gone

LEMMA RenameKeepsRows ==
  ASSUME NEW objs, IsObjects(objs), NEW m, IsRequest(m), NEW rev \in Nat,
         m.kind = "rename_object", m.object \in DOMAIN objs
  PROVE  RowsKept(NextObjects(objs, m, rev), objs, DOMAIN objs)
<1> DEFINE next == NextObjects(objs, m, rev)
<1>1. Follows(next, objs, m, rev)
  BY NextObjectsType
<1>2. \A k \in DOMAIN objs : next[k].index = objs[k].index
  BY RenameKeepsOrder
<1> HIDE DEF next
<1>3. DOMAIN next = DOMAIN objs /\ \A k \in DOMAIN objs : next[k].parent = objs[k].parent
  BY <1>1 DEF Follows, DeletedObjects, Placed
<1> QED
  BY <1>2, <1>3 DEF RowsKept, next

LEMMA ReparentKeepsRows ==
  ASSUME NEW objs, IsObjects(objs), NEW m, IsRequest(m), NEW rev \in Nat, CanonicalOrder(objs),
         m.kind = "reparent_object", m.object \in DOMAIN objs
  PROVE  RowsKept(NextObjects(objs, m, rev), objs, DOMAIN objs \ {m.object})
<1> DEFINE record == [objs[m.object] EXCEPT !.parent = m.parent, !.pose = rev, !.revision = rev]
           home == objs[m.object].parent
           moved == [objs EXCEPT ![m.object] = record]
           left == ChildrenOf(moved, SceneOf[m.object], home) \ {m.object}
           closed == Reindex(moved, left, rev)
           next == InsertAt(closed, m.object, m.index, rev)
           K == DOMAIN objs \ {m.object}
<1>1. NextObjects(objs, m, rev) = next
  BY DEF NextObjects
<1>2. record \in HierarchyRecord /\ m.index \in Nat
  BY DEF IsObjects, IsMap, HierarchyRecord, IsRequest
<1> HIDE DEF record
<1>3. IsObjects(moved) /\ DOMAIN moved = DOMAIN objs /\ \A x \in K : moved[x] = objs[x]
  BY <1>2, EditType
<1> HIDE DEF moved
<1>4. RowsKept(moved, objs, K)
  BY <1>3 DEF RowsKept
<1>5. Apart(moved, K)
  <2>1. Apart(objs, K)
    BY OrderedApart DEF Apart
  <2> QED
    BY <1>3, <1>4, <2>1, ApartKept
<1>6. /\ left \in SUBSET (DOMAIN moved) /\ left \in SUBSET Objects /\ left \subseteq K
      /\ \A a \in left, b \in K : SamePlace(moved, a, b) <=> b \in left
  BY <1>3 DEF SamePlace, ChildrenOf, SceneObjects, IsObjects, IsMap
<1> HIDE DEF left
<1>7. RowsKept(closed, moved, K)
  BY <1>3, <1>5, <1>6, ReindexKeepsRows
<1>8. Reindexed(closed, moved, left, rev)
  BY <1>3, <1>6, ReindexType
<1> HIDE DEF closed
<1>9. IsObjects(closed) /\ DOMAIN closed = DOMAIN objs
  BY <1>3, <1>8 DEF Reindexed
<1>10. Apart(closed, DOMAIN closed \ {m.object})
  BY <1>3, <1>5, <1>7, <1>9, ApartKept
<1>11. RowsKept(next, closed, K)
  <2>1. RowsKept(next, closed, DOMAIN closed \ {m.object})
    BY <1>2, <1>9, <1>10, InsertAtKeepsRows
  <2> QED
    BY <1>9, <2>1
<1> HIDE DEF next, K
<1>12. RowsKept(next, objs, K)
  BY <1>4, <1>7, <1>11, RowsKeptTwice
<1> QED
  BY <1>1, <1>12 DEF K

LEMMA ReorderKeepsRows ==
  ASSUME NEW objs, IsObjects(objs), NEW m, IsRequest(m), NEW rev \in Nat, CanonicalOrder(objs),
         m.kind = "reorder_sibling", m.object \in DOMAIN objs
  PROVE  RowsKept(NextObjects(objs, m, rev), objs, DOMAIN objs \ {m.object})
<1> DEFINE ordered == InsertAt(objs, m.object, m.index, rev)
           record == [ordered[m.object] EXCEPT !.revision = rev]
           next == [ordered EXCEPT ![m.object] = record]
           K == DOMAIN objs \ {m.object}
<1>1. NextObjects(objs, m, rev) = next
  BY DEF NextObjects
<1>2. m.index \in Nat
  BY DEF IsRequest
<1>3. Apart(objs, K)
  BY OrderedApart DEF Apart
<1>4. RowsKept(ordered, objs, K)
  BY <1>2, <1>3, InsertAtKeepsRows
<1>5. IsObjects(ordered) /\ DOMAIN ordered = DOMAIN objs
  BY <1>2, InsertAtType DEF Reindexed
<1> HIDE DEF ordered, record
<1>6. DOMAIN next = DOMAIN objs /\ \A x \in K : next[x] = ordered[x]
  BY <1>5 DEF IsObjects, IsMap
<1> HIDE DEF next
<1>7. RowsKept(next, objs, K)
  BY <1>4, <1>6 DEF RowsKept
<1> QED
  BY <1>1, <1>7
-----------------------------------------------------------------------------
(* Subtrees and cycles.                                                     *)

\* Two places of a chain that meet go on together.
LEMMA ChainsMeet ==
  ASSUME NEW objs, NEW k, NEW n \in Nat, NEW p \in 0..n, NEW q \in 0..n, p <= q,
         Chain(objs, k, n)[p] = Chain(objs, k, n)[q]
  PROVE  \A j \in 0..(n - q) : Chain(objs, k, n)[p + j] = Chain(objs, k, n)[q + j]
<1> DEFINE T == {j \in 0..(n - q) : Chain(objs, k, n)[p + j] = Chain(objs, k, n)[q + j]}
<1>1. 0 \in T
  OBVIOUS
<1>2. ASSUME NEW j \in 0..(n - q), j < n - q, j \in T
      PROVE  j + 1 \in T
  <2>1. /\ Chain(objs, k, n)[(p + j) + 1] = Up(objs, Chain(objs, k, n)[p + j])
        /\ Chain(objs, k, n)[(q + j) + 1] = Up(objs, Chain(objs, k, n)[q + j])
    <3>1. p + j \in 0..n /\ p + j < n /\ q + j \in 0..n /\ q + j < n
      BY <1>2
    <3> QED
      BY <3>1, ChainDef
  <2>2. (p + j) + 1 = p + (j + 1) /\ (q + j) + 1 = q + (j + 1) /\ j + 1 \in 0..(n - q)
    BY <1>2
  <2> QED
    BY <1>2, <2>1, <2>2
<1> HIDE DEF T
<1>3. 0..(n - q) \subseteq T
  <2>1. n - q \in Nat
    OBVIOUS
  <2> QED
    BY <1>1, <1>2, <2>1, UpTo
<1> QED
  BY <1>3 DEF T

\* What leads to an object leads there through objects.
LEMMA ChainOfObjects ==
  ASSUME NEW objs, IsObjects(objs), NEW k, NEW n \in Nat, NEW i \in 0..n,
         Chain(objs, k, n)[i] \in DOMAIN objs
  PROVE  \A j \in 0..i : Chain(objs, k, n)[j] \in DOMAIN objs
<1> DEFINE T == {j \in 0..i : Chain(objs, k, n)[i - j] \in DOMAIN objs}
<1>1. 0 \in T
  OBVIOUS
<1>2. ASSUME NEW j \in 0..i, j < i, j \in T
      PROVE  j + 1 \in T
  <2> DEFINE c == i - (j + 1)
  <2>1. c \in 0..n /\ c < n /\ c + 1 = i - j /\ j + 1 \in 0..i
    BY <1>2
  <2>2. Chain(objs, k, n)[c + 1] = Up(objs, Chain(objs, k, n)[c])
    BY <2>1, ChainDef
  <2>3. Up(objs, Chain(objs, k, n)[c]) \in DOMAIN objs
    BY <1>2, <2>1, <2>2
  <2>4. Chain(objs, k, n)[c] \in DOMAIN objs
    BY <2>3, HierarchyAssumption DEF Up, IsObjects, IsMap
  <2> QED
    BY <2>1, <2>4
<1> HIDE DEF T
<1>3. 0..i \subseteq T
  <2>1. i \in Nat
    OBVIOUS
  <2> QED
    BY <1>1, <1>2, <2>1, UpTo
<1>4. ASSUME NEW j \in 0..i
      PROVE  Chain(objs, k, n)[j] \in DOMAIN objs
  <2>1. i - j \in 0..i /\ i - (i - j) = j
    OBVIOUS
  <2>2. i - j \in T
    BY <1>3, <2>1
  <2> QED
    BY <2>1, <2>2 DEF T
<1> QED
  BY <1>4

\* A child of what hangs below root hangs below root: the shortest way up passes
\* no object twice, so that there is room for one more.
LEMMA DescendantsHaveChildren ==
  ASSUME NEW objs, IsObjects(objs), NEW root \in DOMAIN objs, NEW b \in DOMAIN objs,
         objs[b].parent \in DescendantsIncluding(objs, root)
  PROVE  b \in DescendantsIncluding(objs, root)
<1> DEFINE n == Cardinality(DOMAIN objs)
           a == objs[b].parent
           ways == {i \in 0..n : Chain(objs, a, n)[i] = root}
<1>1. IsFiniteSet(DOMAIN objs) /\ n \in Nat
  BY HierarchyAssumption, FS_Subset, FS_CardinalityType DEF IsObjects, IsMap
<1>2. ways # {} /\ ways \in SUBSET Nat
  BY DEF DescendantsIncluding, Ancestors
<1>3. PICK i \in ways : \A j \in ways : i <= j
  BY <1>2, LeastNat
<1>4. i \in 0..n /\ Chain(objs, a, n)[i] = root
  OBVIOUS
<1>n. n = Cardinality(DOMAIN objs) /\ Up(objs, b) = a
  BY DEF Up
<1>w. \A j \in 0..n : Chain(objs, a, n)[j] = root => i <= j
  BY <1>3
<1> HIDE DEF n, a, ways
<1>5. i < n
  <2> SUFFICES ASSUME ~(i < n) PROVE FALSE
    OBVIOUS
  <2> DEFINE f == [j \in 0..i |-> Chain(objs, a, n)[j]]
  <2>1. f \in [0..i -> DOMAIN objs]
    BY <1>1, <1>4, ChainOfObjects
  <2>2. i \in Int /\ IsFiniteSet(0..i) /\ Cardinality(0..i) = i + 1
    <3>1. i \in Int /\ 0 \in Int /\ ~(0 > i)
      BY <1>1, <1>4
    <3>2. /\ IsFiniteSet(0..i)
          /\ Cardinality(0..i) = IF 0 > i THEN 0 ELSE i - 0 + 1
      BY ONLY <3>1, FS_Interval, Zenon
    <3> QED
      BY <3>1, <3>2
  <2>3. Cardinality(DOMAIN objs) < Cardinality(0..i)
    BY <1>1, <1>4, <1>n, <2>2
  <2> HIDE DEF f
  <2>4. PICK x, y \in 0..i : x # y /\ f[x] = f[y]
    BY <1>1, <2>1, <2>2, <2>3, FS_PigeonHole
  <2>5. ASSUME NEW p \in 0..i, NEW q \in 0..i, p < q, f[p] = f[q]
        PROVE  FALSE
    <3>1. p \in 0..n /\ q \in 0..n /\ p <= q /\ i - q \in 0..(n - q)
      BY <1>1, <1>4, <2>5
    <3>2. Chain(objs, a, n)[p] = Chain(objs, a, n)[q]
      BY <2>5 DEF f
    <3>3. \A j \in 0..(n - q) : Chain(objs, a, n)[p + j] = Chain(objs, a, n)[q + j]
      <4>1. n \in Nat
        BY <1>1
      <4>2. p \in 0..n /\ q \in 0..n /\ p <= q
        BY <3>1
      <4> QED
        BY ONLY <4>1, <4>2, <3>2, ChainsMeet
    <3>5. Chain(objs, a, n)[p + (i - q)] = Chain(objs, a, n)[q + (i - q)]
      BY <3>1, <3>3, Zenon
    <3>4. q + (i - q) = i /\ p + (i - q) \in 0..n /\ p + (i - q) < i
      BY <1>1, <1>4, <2>5
    <3> QED
      BY <1>1, <1>4, <1>w, <3>5, <3>4
  <2>6. x < y \/ y < x
    BY <1>1, <1>4, <2>4
  <2> QED
    BY <2>4, <2>5, <2>6
<1>6. Chain(objs, b, n)[i + 1] = root /\ i + 1 \in 0..n
  <2>1. Chain(objs, b, n)[i + 1] = Chain(objs, Up(objs, b), n)[i]
    BY <1>1, <1>4, <1>5, ChainFromParent
  <2> QED
    BY <1>1, <1>4, <1>5, <1>n, <2>1
<1> QED
  BY <1>6, <1>n DEF DescendantsIncluding, Ancestors

\* descendantsIncluding computes the subtree.
LEMMA SubtreeIsDescendants ==
  ASSUME NEW objs, IsObjects(objs), NEW root \in DOMAIN objs
  PROVE  Forest!Subtree(ParentOf(objs), root) = DescendantsIncluding(objs, root)
<1> DEFINE n == Cardinality(DOMAIN objs)
           D == DescendantsIncluding(objs, root)
<1>1. n \in Nat
  BY HierarchyAssumption, FS_Subset, FS_CardinalityType DEF IsObjects, IsMap
<1>2. DOMAIN ParentOf(objs) = DOMAIN objs /\ \A b \in DOMAIN objs : ParentOf(objs)[b] = objs[b].parent
  BY DEF ParentOf
<1>3. D \in SUBSET DOMAIN objs /\ root \in D /\ \A b \in DOMAIN objs : objs[b].parent \in D => b \in D
  <2>1. root \in D
    <3>1. Chain(objs, root, n)[0] = root /\ 0 \in 0..n
      BY <1>1, ChainDef
    <3> QED
      BY <3>1 DEF DescendantsIncluding, Ancestors
  <2>2. D \in SUBSET DOMAIN objs
    BY DEF DescendantsIncluding
  <2> QED
    BY <2>1, <2>2, DescendantsHaveChildren
<1>4. ASSUME NEW x \in D, NEW K \in SUBSET DOMAIN objs, root \in K,
             \A b \in DOMAIN objs : objs[b].parent \in K => b \in K
      PROVE  x \in K
  <2>1. PICK i \in 0..n : Chain(objs, x, n)[i] = root
    BY DEF DescendantsIncluding, Ancestors
  <2> HIDE DEF n
  <2> DEFINE T == {j \in 0..i : Chain(objs, x, n)[i - j] \in K}
  <2>2. 0 \in T
    BY <1>4, <2>1
  <2>3. ASSUME NEW j \in 0..i, j < i, j \in T
        PROVE  j + 1 \in T
    <3> DEFINE c == i - (j + 1)
    <3>1. c \in 0..n /\ c < n /\ c + 1 = i - j /\ j + 1 \in 0..i
      BY <1>1, <2>3
    <3>2. Chain(objs, x, n)[c + 1] = Up(objs, Chain(objs, x, n)[c])
      BY <1>1, <3>1, ChainDef
    <3>3. Up(objs, Chain(objs, x, n)[c]) \in K
      BY <2>3, <3>1, <3>2
    <3>4. Chain(objs, x, n)[c] \in K
      BY <1>4, <3>3, HierarchyAssumption DEF Up, IsObjects, IsMap
    <3> QED
      BY <3>1, <3>4
  <2> HIDE DEF T
  <2>4. i \in Nat
    BY <1>1
  <2>5. i \in T
    BY <2>2, <2>3, <2>4, UpTo
  <2>6. Chain(objs, x, n)[0] \in K
    BY <2>4, <2>5 DEF T
  <2> QED
    BY <1>1, <2>6, ChainDef
<1> HIDE DEF D
<1>5. Forest!Subtree(ParentOf(objs), root)
        = {x \in DOMAIN objs : \A K \in SUBSET DOMAIN objs :
             root \in K /\ (\A b \in DOMAIN objs : objs[b].parent \in K => b \in K) => x \in K}
  BY <1>2 DEF Forest!Subtree
<1> QED
  BY <1>3, <1>4, <1>5 DEF D

\* A graph the authority accepts has no cycle: a set of objects that all hang in
\* the set would hold their chains for ever.
LEMMA ValidIsAcyclic ==
  ASSUME NEW objs, IsObjects(objs), GraphValid(objs)
  PROVE  Forest!Acyclic(ParentOf(objs))
<1> DEFINE n == MaxHierarchyDepth + 1
<1>1. DOMAIN ParentOf(objs) = DOMAIN objs /\ \A b \in DOMAIN objs : ParentOf(objs)[b] = objs[b].parent
  BY DEF ParentOf
<1>2. n \in Nat /\ Root \notin DOMAIN objs
  BY HierarchyAssumption DEF IsObjects, IsMap
<1>3. ASSUME NEW K \in SUBSET DOMAIN objs, NEW k \in K, \A a \in K : objs[a].parent \in K
      PROVE  FALSE
  <2>1. \A x \in K : Up(objs, x) = Up(objs, x) /\ Up(objs, x) \in K
    BY <1>3 DEF Up
  <2>2. Chain(objs, k, n)[n] = Root
    BY DEF GraphValid
  <2> HIDE DEF n
  <2>3. \A i \in 0..n : Chain(objs, k, n)[i] = Chain(objs, k, n)[i] /\ Chain(objs, k, n)[i] \in K
    BY <1>2, <1>3, <2>1, ChainsAgree, Zenon
  <2>4. n \in 0..n
    BY <1>2
  <2> QED
    BY <1>2, <2>2, <2>3, <2>4
<1>4. \A a \in DOMAIN objs : objs[a].parent # Root =>
        objs[a].parent \in DOMAIN objs /\ SceneOf[objs[a].parent] = SceneOf[a]
  BY DEF GraphValid, SceneObjects
<1>5. \A K \in SUBSET DOMAIN objs : K # {} => \E a \in K : objs[a].parent \notin K
  BY <1>3
<1> QED
  BY <1>1, <1>4, <1>5 DEF Forest!Acyclic

\* Siblings in canonical order stand in rows.
LEMMA OrderedInRows ==
  ASSUME NEW objs, IsObjects(objs), CanonicalOrder(objs)
  PROVE  Forest!InRows(ParentOf(objs), RowOf(objs))
<1>1. DOMAIN ParentOf(objs) = DOMAIN objs /\ \A b \in DOMAIN objs : ParentOf(objs)[b] = objs[b].parent
  BY DEF ParentOf
<1>2. \A a, b \in DOMAIN objs : <<a, b>> \in RowOf(objs) <=>
        SamePlace(objs, a, b) /\ objs[a].index < objs[b].index
  BY DEF RowOf
<1>3. \A a \in DOMAIN objs : objs[a].index \in Nat
  BY DEF IsObjects, IsMap, HierarchyRecord
<1>4. \A a, b \in DOMAIN objs : Forest!Siblings(ParentOf(objs), a, b) <=> SamePlace(objs, a, b)
  BY <1>1 DEF Forest!Siblings, SamePlace
<1>5. RowOf(objs) \subseteq {r \in (DOMAIN objs) \X (DOMAIN objs) :
                               Forest!Siblings(ParentOf(objs), r[1], r[2])}
  BY <1>4 DEF RowOf
<1>6. ASSUME NEW a \in DOMAIN objs, NEW b \in DOMAIN objs, SamePlace(objs, a, b), a # b
      PROVE  <<a, b>> \in RowOf(objs) <=> <<b, a>> \notin RowOf(objs)
  <2>1. objs[a].index # objs[b].index
    BY <1>6, OrderedApart DEF Apart
  <2>2. SamePlace(objs, b, a)
    BY <1>6 DEF SamePlace
  <2> QED
    BY <1>2, <1>3, <1>6, <2>1, <2>2
<1>7. \A a \in DOMAIN objs : <<a, a>> \notin RowOf(objs)
  BY <1>2, <1>3
<1>8. ASSUME NEW a \in DOMAIN objs, NEW b \in DOMAIN objs, NEW c \in DOMAIN objs,
             <<a, b>> \in RowOf(objs), <<b, c>> \in RowOf(objs)
      PROVE  <<a, c>> \in RowOf(objs)
  <2>1. SamePlace(objs, a, c)
    BY <1>2, <1>8 DEF SamePlace
  <2> QED
    BY <1>2, <1>3, <1>8, <2>1
<1> QED
  BY <1>1, <1>4, <1>5, <1>6, <1>7, <1>8 DEF Forest!InRows

-----------------------------------------------------------------------------
(* Steps of the authority as steps of the forest. *)

\* Records that hang and stand where they did make the same forest.
LEMMA SameForest ==
  ASSUME NEW old, NEW new, DOMAIN new = DOMAIN old, RowsKept(new, old, DOMAIN old)
  PROVE  ParentOf(new) = ParentOf(old) /\ RowOf(new) = RowOf(old)
<1>1. ParentOf(new) = ParentOf(old)
  BY DEF RowsKept, ParentOf
<1>2. \A a, b \in DOMAIN old : SamePlace(new, a, b) <=> SamePlace(old, a, b)
  BY DEF RowsKept, SamePlace
<1>3. \A a, b \in DOMAIN old :
        SamePlace(new, a, b) /\ new[a].index < new[b].index
          <=> SamePlace(old, a, b) /\ old[a].index < old[b].index
  BY <1>2 DEF RowsKept
<1> QED
  BY <1>1, <1>3 DEF RowOf

\* Rows whose common part is kept are the same without the rest.
LEMMA SameRowsWithout ==
  ASSUME NEW old, NEW new, NEW G, NEW H, DOMAIN new \ H = DOMAIN old \ G,
         RowsKept(new, old, DOMAIN old \ G)
  PROVE  Forest!Without(RowOf(new), H) = Forest!Without(RowOf(old), G)
<1> DEFINE K == DOMAIN old \ G
<1>1. \A a, b \in K : SamePlace(new, a, b) <=> SamePlace(old, a, b)
  BY DEF RowsKept, SamePlace
<1>2. \A a, b \in K :
        SamePlace(new, a, b) /\ new[a].index < new[b].index
          <=> SamePlace(old, a, b) /\ old[a].index < old[b].index
  BY <1>1 DEF RowsKept
<1>3. Forest!Without(RowOf(new), H) = {r \in K \X K : SamePlace(new, r[1], r[2]) /\ new[r[1]].index < new[r[2]].index}
  BY DEF Forest!Without, RowOf
<1>4. Forest!Without(RowOf(old), G) = {r \in K \X K : SamePlace(old, r[1], r[2]) /\ old[r[1]].index < old[r[2]].index}
  BY DEF Forest!Without, RowOf
<1> HIDE DEF K
<1> QED
  BY <1>2, <1>3, <1>4

LEMMA WithoutNothing ==
  ASSUME NEW objs
  PROVE  Forest!Without(RowOf(objs), {}) = RowOf(objs)
  BY DEF Forest!Without

\* A step that changes neither parents nor indexes is none of the forest.
LEMMA StutterMaps ==
  ASSUME DOMAIN objects' = DOMAIN objects,
         \A k \in DOMAIN objects : objects'[k].parent = objects[k].parent /\ objects'[k].index = objects[k].index
  PROVE  ParentOf(objects)' = ParentOf(objects) /\ RowOf(objects)' = RowOf(objects)
<1>1. PICK new : new = objects'
  OBVIOUS
<1>2. ParentOf(objects)' = ParentOf(new) /\ RowOf(objects)' = RowOf(new)
  BY <1>1 DEF ParentOf, RowOf, SamePlace
<1>3. RowsKept(new, objects, DOMAIN objects)
  BY <1>1 DEF RowsKept
<1>4. DOMAIN new = DOMAIN objects
  BY <1>1
<1> QED
  BY <1>2, <1>3, <1>4, SameForest

\* What the forest sees of a structural edit.
LEMMA EditMaps ==
  ASSUME TypeOK, HierarchyIsForest, NEW c \in Conns, NEW m \in HierarchyRequests, NEW id \in OpIds,
         HierarchyOperation(c, m, id)
  PROVE  /\ scenes' = scenes
         /\ \/ Forest!Create
            \/ Forest!Move
            \/ Forest!Delete
            \/ ParentOf(objects)' = ParentOf(objects) /\ RowOf(objects)' = RowOf(objects)
<1>1. PICK new : new = objects'
  OBVIOUS
<1>2. PICK rev : rev = revision + 1
  OBVIOUS
<1>3. rev \in Nat /\ IsRequest(m) /\ Follows(new, objects, m, rev) /\ new = NextObjects(objects, m, rev)
  <2>1. rev \in Nat
    BY <1>2 DEF TypeOK
  <2>2. IsRequest(m) /\ Follows(objects', objects, m, revision + 1)
    BY OperationEffect
  <2>3. objects' = NextObjects(objects, m, revision + 1)
    BY DEF HierarchyOperation
  <2> QED
    BY <1>1, <1>2, <2>1, <2>2, <2>3
<1>4. /\ m.kind # "create_object" => m.object \in DOMAIN objects
      /\ m.kind = "create_object" => m.object \notin DOMAIN objects
      /\ SceneOf[m.object] \in scenes
      /\ scenes' = scenes
  BY AcceptedTarget DEF HierarchyOperation
<1>5. IsObjects(objects) /\ CanonicalOrder(objects)
  BY DEF TypeOK, IsObjects, HierarchyIsForest
<1>6. ParentOf(objects)' = ParentOf(new) /\ RowOf(objects)' = RowOf(new)
  BY <1>1 DEF ParentOf, RowOf, SamePlace
<1>7. /\ DOMAIN ParentOf(new) = DOMAIN new /\ \A k \in DOMAIN new : ParentOf(new)[k] = new[k].parent
      /\ DOMAIN ParentOf(objects) = DOMAIN objects
      /\ \A k \in DOMAIN objects : ParentOf(objects)[k] = objects[k].parent
  BY DEF ParentOf
<1>8. m.object \in Objects /\ m.kind \in Kinds
  BY <1>3 DEF IsRequest
<1>9. CASE m.kind = "create_object"
  <2>1. DOMAIN new = DOMAIN objects \cup {m.object}
    BY <1>3, <1>9 DEF Follows
  <2>2. RowsKept(new, objects, DOMAIN objects \ {})
    BY <1>3, <1>4, <1>5, <1>9, CreateKeepsRows
  <2>3. DOMAIN new \ {m.object} = DOMAIN objects \ {}
    BY <1>4, <1>9, <2>1
  <2>4. Forest!Without(RowOf(new), {m.object}) = RowOf(objects)
    BY <2>2, <2>3, SameRowsWithout, WithoutNothing
  <2>5. \A k \in DOMAIN objects : ParentOf(new)[k] = ParentOf(objects)[k]
    BY <1>7, <2>1, <2>2 DEF RowsKept
  <2>6. Forest!Create
    BY <1>4, <1>6, <1>7, <1>8, <1>9, <2>1, <2>4, <2>5 DEF Forest!Create
  <2> QED
    BY <1>4, <2>6
<1>10. CASE m.kind = "delete_object"
  <2> DEFINE gone == DescendantsIncluding(objects, m.object)
  <2>0. m.object \in DOMAIN objects
    BY <1>4, <1>10
  <2>1. DOMAIN new = DOMAIN objects \ gone
    BY <1>3, <1>10 DEF Follows, DeletedObjects
  <2>2. RowsKept(new, objects, DOMAIN objects \ gone)
    BY <1>3, <1>5, <1>10, <2>0, DeleteKeepsRows
  <2>3. Forest!Subtree(ParentOf(objects), m.object) = gone
    BY <1>5, <2>0, SubtreeIsDescendants
  <2> HIDE DEF gone
  <2>4. RowOf(new) = Forest!Without(RowOf(objects), gone)
    <3>1. DOMAIN new \ {} = DOMAIN objects \ gone
      BY <2>1
    <3> QED
      BY <2>2, <3>1, SameRowsWithout, WithoutNothing
  <2>5. \A k \in DOMAIN new : ParentOf(new)[k] = ParentOf(objects)[k]
    BY <1>7, <2>1, <2>2 DEF RowsKept
  <2>6. Forest!Delete
    BY <1>6, <1>7, <2>0, <2>1, <2>3, <2>4, <2>5 DEF Forest!Delete
  <2> QED
    BY <1>4, <2>6
<1>11. CASE m.kind = "rename_object"
  <2>0. m.object \in DOMAIN objects
    BY <1>4, <1>11
  <2>1. DOMAIN new = DOMAIN objects
    BY <1>3, <1>11 DEF Follows, DeletedObjects
  <2>2. RowsKept(new, objects, DOMAIN objects)
    BY <1>3, <1>5, <1>11, <2>0, RenameKeepsRows
  <2>3. ParentOf(new) = ParentOf(objects) /\ RowOf(new) = RowOf(objects)
    BY <2>1, <2>2, SameForest
  <2> QED
    BY <1>4, <1>6, <2>3
<1>12. CASE m.kind \in {"reparent_object", "reorder_sibling"}
  <2>0. m.object \in DOMAIN objects
    BY <1>4, <1>12
  <2>1. DOMAIN new = DOMAIN objects
    BY <1>3, <1>12 DEF Follows, DeletedObjects
  <2>2. RowsKept(new, objects, DOMAIN objects \ {m.object})
    BY <1>3, <1>5, <1>12, <2>0, ReparentKeepsRows, ReorderKeepsRows
  <2>3. Forest!Without(RowOf(new), {m.object}) = Forest!Without(RowOf(objects), {m.object})
    BY <2>1, <2>2, SameRowsWithout
  <2>4. \A k \in DOMAIN objects \ {m.object} : ParentOf(new)[k] = ParentOf(objects)[k]
    BY <1>7, <2>1, <2>2 DEF RowsKept
  <2>5. Forest!Move
    BY <1>6, <1>7, <2>0, <2>1, <2>3, <2>4 DEF Forest!Move
  <2> QED
    BY <1>4, <2>5
<1> QED
  BY <1>8, <1>9, <1>10, <1>11, <1>12 DEF Kinds

\* A baseline adds the forest of its Scene beside the others.
LEMMA SeedMaps ==
  ASSUME TypeOK, HierarchyIsForest, NEW c \in Conns, NEW s \in Seeds, NEW base \in 0..MaxRevision,
         HierarchySeed(c, s, base)
  PROVE  Forest!Seed
<1>1. PICK new : new = objects'
  OBVIOUS
<1>2. /\ DOMAIN new = DOMAIN objects \cup DOMAIN s.nodes
      /\ \A k \in DOMAIN s.nodes : SceneOf[k] = s.scene
      /\ \A k \in DOMAIN objects : new[k] = objects[k] /\ SceneOf[k] # s.scene
      /\ s.scene \in Scenes /\ s.scene \notin scenes /\ scenes' = scenes \cup {s.scene}
  BY <1>1, SeedEffect
<1>3. ParentOf(objects)' = ParentOf(new) /\ RowOf(objects)' = RowOf(new)
  BY <1>1 DEF ParentOf, RowOf, SamePlace
<1>4. /\ DOMAIN ParentOf(new) = DOMAIN new /\ \A k \in DOMAIN new : ParentOf(new)[k] = new[k].parent
      /\ DOMAIN ParentOf(objects) = DOMAIN objects
      /\ \A k \in DOMAIN objects : ParentOf(objects)[k] = objects[k].parent
  BY DEF ParentOf
<1>5. RowsKept(new, objects, DOMAIN objects \ {})
  BY <1>2 DEF RowsKept
<1>6. DOMAIN new \ (DOMAIN new \ DOMAIN objects) = DOMAIN objects \ {}
  BY <1>2
<1>7. Forest!Without(RowOf(new), DOMAIN new \ DOMAIN objects) = RowOf(objects)
  BY <1>5, <1>6, SameRowsWithout, WithoutNothing
<1> QED
  BY <1>2, <1>3, <1>4, <1>7 DEF Forest!Seed

LEMMA EmptyMaps ==
  ASSUME Empties
  PROVE  Forest!Forget
<1>1. PICK new : new = objects'
  OBVIOUS
<1>2. DOMAIN new = {} /\ scenes' = {}
  BY <1>1, EmptySession
<1>3. ParentOf(objects)' = ParentOf(new) /\ RowOf(objects)' = RowOf(new)
  BY <1>1 DEF ParentOf, RowOf, SamePlace
<1>4. DOMAIN ParentOf(new) = {} /\ RowOf(new) = {}
  BY <1>2 DEF ParentOf, RowOf
<1> QED
  BY <1>2, <1>3, <1>4 DEF Forest!Forget

\* The records of the next state are a forest whose siblings stand in rows.
LEMMA NextIsForest ==
  ASSUME TypeOK', HierarchyIsForest'
  PROVE  Forest!Acyclic(ParentOf(objects)') /\ Forest!InRows(ParentOf(objects)', RowOf(objects)')
<1>1. PICK new : new = objects'
  OBVIOUS
<1>2. IsObjects(new)
  BY <1>1 DEF TypeOK, IsMap, IsObjects
<1>3. GraphValid(new) /\ CanonicalOrder(new)
  BY <1>1 DEF HierarchyIsForest, GraphValid, CanonicalOrder
<1>4. ParentOf(objects)' = ParentOf(new) /\ RowOf(objects)' = RowOf(new)
  BY <1>1 DEF ParentOf, RowOf, SamePlace
<1> QED
  BY <1>2, <1>3, <1>4, ValidIsAcyclic, OrderedInRows

LEMMA StepMaps ==
  TypeOK /\ HierarchyIsForest /\ [Next]_vars /\ TypeOK' /\ HierarchyIsForest' => [Forest!Next]_(Forest!vars)
<1> SUFFICES ASSUME TypeOK, HierarchyIsForest, [Next]_vars, TypeOK', HierarchyIsForest'
             PROVE  [Forest!Next]_(Forest!vars)
  OBVIOUS
<1>0. Forest!Acyclic(ParentOf(objects)') /\ Forest!InRows(ParentOf(objects)', RowOf(objects)')
  BY NextIsForest
<1>1. CASE Quiet
  <2>1. scenes' = scenes /\ objects' = objects
    BY <1>1 DEF Quiet, hierarchy
  <2>2. ParentOf(objects)' = ParentOf(objects) /\ RowOf(objects)' = RowOf(objects)
    BY <2>1, StutterMaps
  <2> QED
    BY <2>1, <2>2 DEF Forest!vars
<1>2. CASE Empties
  BY <1>0, <1>2, EmptyMaps DEF Forest!Next
<1>3. CASE Moves
  <2>1. PICK c \in Conns, k \in Objects, id \in OpIds, base \in 0..MaxRevision : TransformUpdate(c, k, id, base)
    BY <1>3 DEF Moves
  <2>2. k \in DOMAIN objects => /\ [objects[k] EXCEPT !.pose = revision + 1].parent = objects[k].parent
                               /\ [objects[k] EXCEPT !.pose = revision + 1].index = objects[k].index
    BY DEF TypeOK, IsMap, HierarchyRecord
  <2>3. /\ scenes' = scenes /\ DOMAIN objects' = DOMAIN objects
        /\ \A x \in DOMAIN objects :
             objects'[x].parent = objects[x].parent /\ objects'[x].index = objects[x].index
    BY <2>1, <2>2, MoveEffect
  <2>4. ParentOf(objects)' = ParentOf(objects) /\ RowOf(objects)' = RowOf(objects)
    BY <2>3, StutterMaps
  <2> QED
    BY <2>3, <2>4 DEF Forest!vars
<1>4. CASE SeedsScene
  BY <1>0, <1>4, SeedMaps DEF SeedsScene, Forest!Next
<1>5. CASE Edits
  <2>1. PICK c \in Conns, m \in HierarchyRequests, id \in OpIds : HierarchyOperation(c, m, id)
    BY <1>5 DEF Edits
  <2>2. /\ scenes' = scenes
        /\ \/ Forest!Create
           \/ Forest!Move
           \/ Forest!Delete
           \/ ParentOf(objects)' = ParentOf(objects) /\ RowOf(objects)' = RowOf(objects)
    BY <2>1, EditMaps
  <2> QED
    BY <1>0, <2>2 DEF Forest!vars, Forest!Next
<1> QED
  BY <1>1, <1>2, <1>3, <1>4, <1>5, StepKinds

\* The index arithmetic of hierarchy-model.mjs implements rows of siblings: an
\* edit moves, adds or takes out what it names, a delete its whole subtree, and
\* no other object passes another or changes its parent.
THEOREM RefinesOrderedForest == Spec => ImplementsOrderedForest
<1>1. Init => Forest!Init
  BY DEF Init, EmptyMap, Forest!Init, ParentOf, RowOf
<1> QED
  BY <1>1, StepMaps, SessionTypeOK, SessionStaysForest, PTL DEF Spec, ImplementsOrderedForest, Forest!Spec

=============================================================================
