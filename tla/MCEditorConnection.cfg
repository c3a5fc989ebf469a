SPECIFICATION MCSpec
CONSTANTS
  Editors = {e1, e2}
  MaxConnections = 4
  MaxQueue = 2
  MaxRuns = 1
  MaxConnects = 2
  MaxGestures = 1
  MaxFaults = 1
INVARIANTS
  OneTransport
PROPERTIES
  Settles
CHECK_DEADLOCK FALSE
