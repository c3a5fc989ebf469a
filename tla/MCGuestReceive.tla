---------------------------- MODULE MCGuestReceive ----------------------------
(* Two receives of a project whose second baseline has another publisher.   *)
EXTENDS GuestReceive

CONSTANTS p1, p2
Published == <<p1, p2>>

\* A cancel that was accepted ends the receive, and a resume that was accepted
\* ends the pause, wherever the run was waiting.
InterruptionsAreServed ==
  /\ op.cancelled ~> op.pc = "none"
  /\ op.pause = "resumed" ~> op.pause # "resumed"

=============================================================================
