---------------------------- MODULE MCTombstones ----------------------------
(***************************************************************************)
(* The retained tombstones are capped, and the oldest leave first.  One    *)
(* editor creates and deletes two objects with room for one tombstone.     *)
(* deleted is a history variable: every object deleted in this session.    *)
(***************************************************************************)
EXTENDS SessionAuthority, TLC

CONSTANTS scene, l1, l2, alice, a

VARIABLE deleted

MCSceneOf == [o \in {l1, l2} |-> scene]
MCIdOrder == (l1 :> 1) @@ (l2 :> 2)
MCUserOf == a :> alice
MCSeeds == {[scene |-> scene, nodes |-> EmptyMap]}

MCInit == Init /\ deleted = {}
MCNext ==
  /\ Next
  /\ deleted' = IF members' = NoMembers THEN {} ELSE deleted \cup DOMAIN tombstones'
MCSpec == MCInit /\ [][MCNext]_<<vars, deleted>>

\* "Tombstones prevent a deleted logical ID from being recreated later in the
\* same Session" (docs/phases/phase-4.md): no deleted object exists again.
DeletedIdsStayDeleted == deleted \cap DOMAIN objects = {}
=============================================================================
