------------------------------ MODULE MCHostFlow ------------------------------
(* A Host whose project has two contents: two starts, an edit and a fault   *)
(* at any moment.                                                           *)
EXTENDS HostFlow

\* Host Ready does not outlive what it stands for (RevokeStaleReady): when the
\* Coordinator stops naming the Host's Seed, the Seed returns or Ready goes.
StaleReadyIsRevoked ==
  (ui = "ready" /\ ~Registered(shown)) ~> (ui # "ready" \/ Registered(shown))

=============================================================================
