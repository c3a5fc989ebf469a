------------------------ MODULE MCProjectActivation ------------------------
(***************************************************************************)
(* Two processes and three baselines, two of them of the same revision.    *)
(***************************************************************************)
EXTENDS ProjectActivation, TLC

CONSTANTS first, second, rival

MCRevisionOf == (first :> 1) @@ (second :> 2) @@ (rival :> 2)
=============================================================================
