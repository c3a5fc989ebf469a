CONSTANTS
  a = a
  b = b
  NoEditor = NoEditor
  Editors = {a, b}
  MaxPending = 1
  MaxEdits = 2
  MaxGestures = 3
  MaxFaults = 1
  MaxWire = 2
SYMMETRY MCSymmetry
SPECIFICATION Spec
CHECK_DEADLOCK FALSE
INVARIANTS
  MirrorFollows
  HolderIsAlone
  NothingOutdatedShows
