SPECIFICATION Spec
CONSTANTS
  p1 = p1
  p2 = p2
  Nobody = Nobody
  Publisher <- Published
  MaxRuns = 2
  MaxPauses = 1
  MaxFaults = 1
INVARIANTS
  OnlySuccessHandsOff
  TrustWasAnswered
PROPERTY
  InterruptionsAreServed
CHECK_DEADLOCK FALSE
