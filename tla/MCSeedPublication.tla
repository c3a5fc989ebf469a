------------------------- MODULE MCSeedPublication -------------------------
(* The Owner's machine and one mate; two contents, so that two publications  *)
(* of one revision can differ.                                               *)
EXTENDS SeedPublication, TLC

CONSTANTS owner, mate, a, b

MCMachines == {owner, mate}
MCTexts == {a, b}
MCInventory == (owner :> {"all"}) @@ (mate :> {"some", "all"})
=============================================================================
