---------------------------- MODULE MCSessionLocks ----------------------------
(***************************************************************************)
(* A session without a seeded Scene, for locks, leases and Transforms: two *)
(* users, one of them with two connections, so that a reconnect supersedes *)
(* a connection that still holds locks.                                    *)
(***************************************************************************)
EXTENDS SessionAuthority, TLC

CONSTANTS scene, o1, o2, alice, bob, a1, a2, b1

MCSceneOf == [o \in {o1, o2} |-> scene]
MCIdOrder == (o1 :> 1) @@ (o2 :> 2)
MCUserOf == (a1 :> alice) @@ (a2 :> alice) @@ (b1 :> bob)
=============================================================================
