-------------------------- MODULE MCSwarmDownload --------------------------
(* Two workers and three chunks; a dependable peer holds two of them and a    *)
(* flaky one holds all; the chunk only the flaky one has may be cached.       *)
EXTENDS SwarmDownload, TLC

CONSTANTS w1, w2, dependable, flaky

MCWorkers == {w1, w2}
MCPeers == {dependable, flaky}
MCHolds == (dependable :> {2, 3}) @@ (flaky :> {1, 2, 3})
MCReliable == {dependable}
MCCached == {1}
=============================================================================
