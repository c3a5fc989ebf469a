-------------------------- MODULE MCEditorConnection --------------------------
(* Two Editors of one user, for TLC. As they are alike, the run starts      *)
(* where one of them has pressed Connect: one step after Init.              *)
EXTENDS EditorConnection

First == CHOOSE e \in Editors : TRUE

MCInit ==
  /\ editor = [e \in Editors |->
       IF e = First
       THEN [FreshDomain EXCEPT !.state = "connecting", !.desired = TRUE, !.current = 1]
       ELSE FreshDomain]
  /\ conn = [c \in Connections |->
       IF c = 1 THEN [NoConnection EXCEPT !.owner = First, !.client = "dialing"]
       ELSE NoConnection]
  /\ closers = {}
  /\ member = 0
  /\ connects = 1
  /\ gestures = 0
  /\ faults = 0

MCSpec == MCInit /\ [][Next]_vars /\ Fairness
=============================================================================
