--------------------------- MODULE HierarchyModel ---------------------------
(***************************************************************************)
(* The pure half of Hierarchy Sync: server/src/hierarchy-model.mjs.  It    *)
(* holds no state.  Its operators take the retained Hierarchy (a map from  *)
(* object keys to records, a map from tombstoned keys to revisions) and an *)
(* operation, and say whether prepareHierarchyOperation accepts it and     *)
(* what the next Hierarchy is.                                             *)
(*                                                                         *)
(* Objects stands for the keys [sceneId, objectId] of the code; SceneOf is *)
(* their first half.  Name and pose are abstracted to the revision of the  *)
(* operation that wrote them: two writes are told apart, values are not.   *)
(***************************************************************************)
EXTENDS Integers, FiniteSets

CONSTANTS
  Scenes,                  \* scene ids
  Objects,                 \* object keys
  SceneOf,                 \* [Objects -> Scenes]
  IdOrder,                 \* [Objects -> Nat], the localeCompare order of ids
  LogicalIds,              \* keys whose id has the form tf:<32 hex>
  Root,                    \* the empty parentObjectId
  MaxHierarchyObjects,     \* config.maxHierarchyObjects
  MaxHierarchyTombstones,  \* config.maxHierarchyTombstones
  MaxHierarchyDepth,       \* config.maxHierarchyDepth
  MaxHierarchyRecords      \* config.maxHierarchySnapshotBytes, in records

ASSUME HierarchyAssumption ==
  /\ IsFiniteSet(Objects)
  /\ SceneOf \in [Objects -> Scenes]
  /\ IdOrder \in [Objects -> Nat]
  /\ \A a, b \in Objects : IdOrder[a] = IdOrder[b] => a = b
  /\ LogicalIds \subseteq Objects
  /\ Root \notin Objects
  /\ MaxHierarchyObjects \in Nat
  /\ MaxHierarchyTombstones \in Nat
  /\ MaxHierarchyDepth \in Nat
  /\ MaxHierarchyRecords \in Nat

\* A JavaScript Map, as a function on its keys: keys in K and values in V.
IsMap(map, K, V) == DOMAIN map \subseteq K /\ map \in [DOMAIN map -> V]
EmptyMap == [k \in {} |-> 0]
Drop(map, S) == [k \in DOMAIN map \ S |-> map[k]]
Put(map, k, v) == [x \in DOMAIN map \cup {k} |-> IF x = k THEN v ELSE map[x]]

Parents == Objects \cup {Root}

HierarchyRecord ==
  [parent: Parents, index: Nat, name: Nat, pose: Nat, created: Nat, revision: Nat]

Kinds == {"create_object", "delete_object", "rename_object",
          "reparent_object", "reorder_sibling"}

SceneObjects(objs, scene) == {k \in DOMAIN objs : SceneOf[k] = scene}

ChildrenOf(objs, scene, parent) ==
  {k \in SceneObjects(objs, scene) : objs[k].parent = parent}

-----------------------------------------------------------------------------
(* Canonical sibling order. *)

\* Siblings sorted by id alone, for the mutant of Reindex.
Before_ById(objs, a, b) == IdOrder[a] < IdOrder[b]

\* The comparator of childrenOf and canonicalizeSceneSiblingOrder.
Before(objs, a, b) ==
  \/ objs[a].index < objs[b].index
  \/ objs[a].index = objs[b].index /\ IdOrder[a] < IdOrder[b]

\* The place of k among the siblings S when they are sorted.
Position(objs, S, k) == Cardinality({s \in S : Before(objs, s, k)})

\* assignSiblingOrder: give the members of S the places in place, and stamp
\* those that move.
Assign(objs, S, place, rev) ==
  [k \in DOMAIN objs |->
     IF k \in S /\ objs[k].index # place[k]
     THEN [objs[k] EXCEPT !.index = place[k], !.revision = rev]
     ELSE objs[k]]

\* (mutant) The old siblings of a moved or deleted object keep their indexes.
Reindex_KeepsGaps(objs, S, rev) == objs

\* (mutant) Closing the gaps sorts by id.
Reindex_ById(objs, S, rev) ==
  Assign(objs, S, [k \in S |-> Cardinality({s \in S : Before_ById(objs, s, k)})], rev)

\* Close the gaps among the siblings S.
Reindex(objs, S, rev) == Assign(objs, S, [k \in S |-> Position(objs, S, k)], rev)

\* insertAtCanonicalIndex: k goes to the requested place, or to the end.
InsertAt(objs, k, requested, rev) ==
  LET siblings == ChildrenOf(objs, SceneOf[k], objs[k].parent) \ {k}
      at == IF requested < Cardinality(siblings) THEN requested ELSE Cardinality(siblings)
      place == [s \in siblings \cup {k} |->
                  IF s = k THEN at
                  ELSE IF Position(objs, siblings, s) < at
                       THEN Position(objs, siblings, s)
                       ELSE Position(objs, siblings, s) + 1]
  IN  Assign(objs, siblings \cup {k}, place, rev)

-----------------------------------------------------------------------------
(* The parent graph. *)

\* One step from an object to its parent; Root and unknown ids end the walk.
Up(objs, k) == IF k \in DOMAIN objs THEN objs[k].parent ELSE Root

\* The objects and Root met on the walk of the given length from k.
Chain(objs, k, length) ==
  LET chain[i \in 0..length] == IF i = 0 THEN k ELSE Up(objs, chain[i - 1])
  IN  chain

\* k itself, its parent, and so on; a cycle is walked round once.
Ancestors(objs, k) ==
  {Chain(objs, k, Cardinality(DOMAIN objs))[i] : i \in 0..Cardinality(DOMAIN objs)}

\* validateNoCyclesAndDepth: parents exist and every chain ends in time.  A
\* cycle never reaches Root, so the bound on the depth excludes it as well.
GraphValid(objs) ==
  \A k \in DOMAIN objs :
    /\ objs[k].parent # Root =>
         objs[k].parent \in SceneObjects(objs, SceneOf[k])
    /\ Chain(objs, k, MaxHierarchyDepth + 1)[MaxHierarchyDepth + 1] = Root

\* wouldCreateCycle: the new parent is k or lies below it.
WouldCreateCycle(objs, k, parent) == k \in Ancestors(objs, parent)

\* descendantsIncluding: root and everything below it.
DescendantsIncluding(objs, root) == {k \in DOMAIN objs : root \in Ancestors(objs, k)}

-----------------------------------------------------------------------------
(* Operations.  m is [kind, object, parent, index, base]. *)

\* The operation's effect on the records, before the limits are checked.
NextObjects(objs, m, rev) ==
  CASE m.kind = "create_object" ->
         LET record == [parent |-> m.parent, index |-> 0, name |-> rev, pose |-> rev,
                        created |-> rev, revision |-> rev]
         IN  InsertAt(Put(objs, m.object, record), m.object, m.index, rev)
    [] m.kind = "delete_object" ->
         LET rest == Drop(objs, DescendantsIncluding(objs, m.object))
         IN  Reindex(rest, ChildrenOf(rest, SceneOf[m.object], objs[m.object].parent), rev)
    [] m.kind = "rename_object" ->
         [objs EXCEPT ![m.object].name = rev, ![m.object].revision = rev]
    [] m.kind = "reparent_object" ->
         LET moved == [objs EXCEPT ![m.object].parent = m.parent,
                                   ![m.object].pose = rev,
                                   ![m.object].revision = rev]
             left == ChildrenOf(moved, SceneOf[m.object], objs[m.object].parent) \ {m.object}
         IN  InsertAt(Reindex(moved, left, rev), m.object, m.index, rev)
    [] m.kind = "reorder_sibling" ->
         [InsertAt(objs, m.object, m.index, rev) EXCEPT ![m.object].revision = rev]

DeletedObjects(objs, m) ==
  IF m.kind = "delete_object" THEN DescendantsIncluding(objs, m.object) ELSE {}

\* The tombstones before old ones are evicted.
NextTombstones(objs, tombs, m, rev) ==
  [k \in DOMAIN tombs \cup DeletedObjects(objs, m) |->
     IF k \in DeletedObjects(objs, m) THEN rev ELSE tombs[k]]

\* The sets of oldest tombstones that leave when the cap is passed.  Those of
\* one delete share its revision: which of them go first is left open.
Evictions(tombs) ==
  {S \in SUBSET DOMAIN tombs :
     /\ Cardinality(S) = IF Cardinality(DOMAIN tombs) > MaxHierarchyTombstones
                         THEN Cardinality(DOMAIN tombs) - MaxHierarchyTombstones
                         ELSE 0
     /\ \A k \in S, j \in DOMAIN tombs \ S : tombs[k] <= tombs[j]}

\* (mutant) Only live objects are looked up.
IdIsFree_IgnoresTombstones(objs, tombs, k) == k \notin DOMAIN objs

\* The object was neither created nor deleted, as far as the session remembers.
IdIsFree(objs, tombs, k) == k \notin DOMAIN objs \cup DOMAIN tombs

\* prepareHierarchyOperation returns no conflict.  The target lock is checked
\* for every kind but create_object.
OperationAccepted(objs, tombs, seeded, revision, m, targetLockedByOther) ==
  /\ m.base = revision
  /\ SceneOf[m.object] \in seeded
  /\ IF m.kind = "create_object"
     THEN /\ IdIsFree(objs, tombs, m.object)
          /\ Cardinality(DOMAIN objs) < MaxHierarchyObjects
     ELSE m.object \in DOMAIN objs /\ ~targetLockedByOther
  /\ m.kind \in {"create_object", "reparent_object"} /\ m.parent # Root =>
       m.parent \in SceneObjects(objs, SceneOf[m.object])
  /\ m.kind = "reparent_object" => ~WouldCreateCycle(objs, m.object, m.parent)
  /\ GraphValid(NextObjects(objs, m, revision + 1))

\* validateHierarchyOperation, the part the properties see.
OperationWellFormed(m) == m.kind = "create_object" => m.object \in LogicalIds

\* (mutant) Only the requested parent is looked up, not the old one.
GuardedParents_NewOnly(objs, m) ==
  IF m.kind \in {"create_object", "reparent_object"} THEN {m.parent} \ {Root} ELSE {}

\* The parents whose child list the operation touches and whose lock matters.
GuardedParents(objs, m) ==
  ((IF m.kind \in {"create_object", "reparent_object"} THEN {m.parent} ELSE {})
   \cup
   (IF m.object \in DOMAIN objs /\ m.kind \in {"delete_object", "reparent_object", "reorder_sibling"}
    THEN {objs[m.object].parent} ELSE {})) \ {Root}

-----------------------------------------------------------------------------
(* Baseline seeds.  nodes maps saved object keys to [parent, index, pose].  *)

\* validateHierarchySeed: saved ids of one Scene, parents inside the seed.
SeedWellFormed(scene, nodes) ==
  /\ \A k \in DOMAIN nodes :
       /\ k \in Objects \ LogicalIds
       /\ SceneOf[k] = scene
       /\ nodes[k].parent \in (DOMAIN nodes \cup {Root}) \ {k}
  /\ Cardinality(DOMAIN nodes) <= MaxHierarchyObjects

\* normalizedSeedObjects, with the sibling order made canonical.
SeedObjects(scene, nodes, base) ==
  LET raw == [k \in DOMAIN nodes |->
                [parent |-> nodes[k].parent, index |-> nodes[k].index, name |-> 0,
                 pose |-> nodes[k].pose, created |-> 0, revision |-> base]]
  IN  [k \in DOMAIN raw |->
         [raw[k] EXCEPT !.index = Position(raw, ChildrenOf(raw, scene, raw[k].parent), k)]]

\* (mutant) A second baseline is merged over the first.
SceneIsNew_Always(objs, tombs, seeded, scene) == TRUE

\* Nothing of the Scene is authoritative yet.
SceneIsNew(objs, tombs, seeded, scene) ==
  /\ scene \notin seeded
  /\ SceneObjects(objs, scene) = {}
  /\ SceneObjects(tombs, scene) = {}

\* prepareHierarchySeed returns the Scene's next objects.
SeedInstalls(objs, tombs, seeded, revision, scene, nodes, base) ==
  /\ SeedWellFormed(scene, nodes)
  /\ base = revision
  /\ GraphValid(SeedObjects(scene, nodes, base))
  /\ SceneIsNew(objs, tombs, seeded, scene)
  /\ Cardinality(DOMAIN objs \cup DOMAIN nodes) <= MaxHierarchyObjects
  /\ Cardinality(DOMAIN objs \cup DOMAIN nodes) + Cardinality(DOMAIN tombs) <= MaxHierarchyRecords

Merge(objs, more) ==
  [k \in DOMAIN objs \cup DOMAIN more |-> IF k \in DOMAIN more THEN more[k] ELSE objs[k]]

-----------------------------------------------------------------------------
(* What a retained Hierarchy must look like. *)

\* The children of every parent carry the indexes 0, 1, ..., n - 1.
CanonicalOrder(objs) ==
  \A k \in DOMAIN objs :
    LET siblings == ChildrenOf(objs, SceneOf[k], objs[k].parent)
    IN  /\ objs[k].index < Cardinality(siblings)
        /\ \A s \in siblings : objs[s].index = objs[k].index => s = k

=============================================================================
