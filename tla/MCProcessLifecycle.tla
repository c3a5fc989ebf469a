------------------------ MODULE MCProcessLifecycle ------------------------
(***************************************************************************)
(* Two starts of any kinds, which may share a key, and two stops, one of   *)
(* which may use force.                                                    *)
(***************************************************************************)
EXTENDS ProcessLifecycle, TLC

Calls == Permutations(Starts)
=============================================================================
