--------------------------- MODULE MCSessionForest ---------------------------
(***************************************************************************)
(* One editor and no locks: every sequence of structural edits of a Scene  *)
(* of four objects, two of them in the baseline, against the ordered       *)
(* forest it implements.  The seeded siblings have equal indexes, so that  *)
(* their order comes from their ids.                                       *)
(***************************************************************************)
EXTENDS SessionForest, TLC

CONSTANTS scene, g1, g2, l1, l2, alice, a, p, q

MCSceneOf == [o \in {g1, g2, l1, l2} |-> scene]
MCIdOrder == (g1 :> 3) @@ (g2 :> 2) @@ (l1 :> 1) @@ (l2 :> 4)
MCUserOf == a :> alice
MCSeeds ==
  {[scene |-> scene,
    nodes |-> [o \in {g1, g2} |-> [parent |-> Root, index |-> 5, pose |-> 0]]],
   [scene |-> scene,
    nodes |-> (g1 :> [parent |-> Root, index |-> 0, pose |-> 0])
              @@ (g2 :> [parent |-> g1, index |-> 3, pose |-> 0])],
   [scene |-> scene,
    nodes |-> (g1 :> [parent |-> g2, index |-> 0, pose |-> 0])
              @@ (g2 :> [parent |-> g1, index |-> 0, pose |-> 0])]}
MCSymmetry == Permutations({p, q})
=============================================================================
