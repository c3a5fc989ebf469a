-------------------------- MODULE MCSessionHierarchy --------------------------
(***************************************************************************)
(* A session in which two editors seed a Scene and edit its Hierarchy      *)
(* while they lock and move its objects.  g is a saved object (its id is   *)
(* not of the tf: form), l1 and l2 are created during the session; one     *)
(* baseline holds g, the other is an empty Scene.                          *)
(***************************************************************************)
EXTENDS SessionAuthority, TLC

CONSTANTS scene, g, l1, l2, alice, bob, a, b, p, q

MCSceneOf == [o \in {g, l1, l2} |-> scene]
MCIdOrder == (g :> 2) @@ (l1 :> 1) @@ (l2 :> 3)
MCUserOf == (a :> alice) @@ (b :> bob)
MCSeeds ==
  {[scene |-> scene, nodes |-> (g :> [parent |-> Root, index |-> 0, pose |-> 0])],
   [scene |-> scene, nodes |-> EmptyMap]}
\* Swapping the editors, or the operation ids, changes nothing.
MCSymmetry ==
  Permutations({p, q})
    \cup {(a :> b) @@ (b :> a) @@ (alice :> bob) @@ (bob :> alice)}
=============================================================================
