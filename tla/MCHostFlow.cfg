SPECIFICATION Spec
CONSTANTS
  Texts = {a, b}
  NoText = NoText
  MaxRevision = 2
  MaxStarts = 2
  MaxEdits = 1
  MaxFaults = 2
INVARIANTS
  PublishedWasReviewed
  ReadyIsCurrent
PROPERTY
  StaleReadyIsRevoked
CHECK_DEADLOCK FALSE
