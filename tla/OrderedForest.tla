---------------------------- MODULE OrderedForest ----------------------------
(***************************************************************************)
(* What the shared Hierarchy promises, without indexes, revisions or       *)
(* tombstones: each Scene is a forest whose siblings stand in a row, and   *)
(* an edit puts one object into a row, takes one out, or moves one: every  *)
(* other object stays where it was among its siblings.                     *)
(***************************************************************************)
CONSTANTS Scenes, Objects, SceneOf, Root

VARIABLES
  seeded,   \* the Scenes that have a Hierarchy
  parent,   \* where each object that is present hangs: an object, or Root
  row       \* pairs of siblings, the earlier one first

vars == <<seeded, parent, row>>

Siblings(up, a, b) == SceneOf[a] = SceneOf[b] /\ up[a] = up[b]

\* Parents are present, in the Scene of their children; there is no cycle, as
\* every set of objects has a member that hangs outside of it.
Acyclic(up) ==
  /\ \A a \in DOMAIN up : up[a] # Root => up[a] \in DOMAIN up /\ SceneOf[up[a]] = SceneOf[a]
  /\ \A K \in SUBSET DOMAIN up : K # {} => \E a \in K : up[a] \notin K

\* The children of each place stand in a row, one after the other.
InRows(up, order) ==
  /\ order \subseteq {r \in (DOMAIN up) \X (DOMAIN up) : Siblings(up, r[1], r[2])}
  /\ \A a, b \in DOMAIN up :
       Siblings(up, a, b) /\ a # b => (<<a, b>> \in order <=> <<b, a>> \notin order)
  /\ \A a \in DOMAIN up : <<a, a>> \notin order
  /\ \A a, b, c \in DOMAIN up : <<a, b>> \in order /\ <<b, c>> \in order => <<a, c>> \in order

Without(order, K) == {r \in order : r[1] \notin K /\ r[2] \notin K}

\* k and what hangs below it: what no set can leave out that has k and, with an
\* object, its children.
Subtree(up, k) ==
  {a \in DOMAIN up :
     \A K \in SUBSET DOMAIN up :
       k \in K /\ (\A b \in DOMAIN up : up[b] \in K => b \in K) => a \in K}

Init == seeded = {} /\ parent = [a \in {} |-> Root] /\ row = {}

Create ==
  \E k \in Objects \ DOMAIN parent :
    /\ SceneOf[k] \in seeded
    /\ DOMAIN parent' = DOMAIN parent \cup {k}
    /\ \A a \in DOMAIN parent : parent'[a] = parent[a]
    /\ Without(row', {k}) = row

\* Reparent and reorder.
Move ==
  \E k \in DOMAIN parent :
    /\ DOMAIN parent' = DOMAIN parent
    /\ \A a \in DOMAIN parent \ {k} : parent'[a] = parent[a]
    /\ Without(row', {k}) = Without(row, {k})

\* A delete takes the whole subtree along.
Delete ==
  \E k \in DOMAIN parent :
    /\ DOMAIN parent' = DOMAIN parent \ Subtree(parent, k)
    /\ \A a \in DOMAIN parent' : parent'[a] = parent[a]
    /\ row' = Without(row, Subtree(parent, k))

\* A Scene gets its first Hierarchy.
Seed ==
  \E scene \in Scenes \ seeded :
    /\ seeded' = seeded \cup {scene}
    /\ DOMAIN parent \subseteq DOMAIN parent'
    /\ \A a \in DOMAIN parent : parent'[a] = parent[a] /\ SceneOf[a] # scene
    /\ \A a \in DOMAIN parent' \ DOMAIN parent : SceneOf[a] = scene
    /\ Without(row', DOMAIN parent' \ DOMAIN parent) = row

Forget == seeded' = {} /\ DOMAIN parent' = {} /\ row' = {}

Next ==
  /\ Acyclic(parent') /\ InRows(parent', row')
  /\ \/ UNCHANGED seeded /\ (Create \/ Move \/ Delete)
     \/ Seed
     \/ Forget

Spec == Init /\ [][Next]_vars

=============================================================================
