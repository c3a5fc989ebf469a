--------------------------- MODULE MCTransformSync ---------------------------
(***************************************************************************)
(* Two editors move one object; two edits and one broken connection.       *)
(***************************************************************************)
EXTENDS TransformSync, TLC

CONSTANTS a, b

MCSymmetry == Permutations({a, b})
=============================================================================
