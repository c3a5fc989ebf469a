---------------------------- MODULE SessionForest ----------------------------
(***************************************************************************)
(* The authority's sibling indexes implement rows of children:             *)
(* SessionAuthority refines OrderedForest.  A lock, a rename, a Transform, *)
(* a join or a leave is a stutter; each structural edit is one edit of a   *)
(* row.                                                                    *)
(***************************************************************************)
EXTENDS SessionAuthority

ParentOf(objs) == [k \in DOMAIN objs |-> objs[k].parent]

SamePlace(objs, a, b) == SceneOf[a] = SceneOf[b] /\ objs[a].parent = objs[b].parent

\* The children of a place in index order.
RowOf(objs) ==
  {r \in (DOMAIN objs) \X (DOMAIN objs) :
     SamePlace(objs, r[1], r[2]) /\ objs[r[1]].index < objs[r[2]].index}

Forest ==
  INSTANCE OrderedForest
  WITH seeded <- scenes, parent <- ParentOf(objects), row <- RowOf(objects)

\* Creating, deleting, reparenting and reordering keep every other child in
\* its relative place: no index arithmetic of hierarchy-model.mjs moves a
\* bystander past another.
ImplementsOrderedForest == Forest!Spec

=============================================================================
