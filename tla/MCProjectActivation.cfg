CONSTANTS
  first = first
  second = second
  rival = rival
  NoBaseline = NoBaseline
  Processes = {1, 2}
  Baselines = {first, second, rival}
  RevisionOf <- MCRevisionOf
SPECIFICATION FairSpec
INVARIANTS TypeOK OneActivator CurrentIsSound ActiveWasCurrent
PROPERTIES PublishedMovesForward CurrentNeverReturns LocksAreReleased
