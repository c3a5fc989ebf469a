CONSTANTS
  scene = scene
  g = g
  l1 = l1
  l2 = l2
  alice = alice
  bob = bob
  a = a
  b = b
  p = p
  q = q
  NoConn = NoConn
  NoObject = NoObject
  Root = Root
  Scenes = {scene}
  Objects = {g, l1, l2}
  LogicalIds = {l1, l2}
  SceneOf <- MCSceneOf
  IdOrder <- MCIdOrder
  Users = {alice, bob}
  Conns = {a, b}
  UserOf <- MCUserOf
  TransformConns = {a, b}
  HierarchyConns = {a, b}
  OpIds = {p, q}
  Seeds <- MCSeeds
  Selectable = {}
  Lease = 1
  MaxLocksPerSession = 2
  MaxLocksPerConnection = 2
  MaxRetainedTransforms = 2
  MaxSnapshotRecords = 3
  MaxRecentOperations = 1
  MaxRevision = 3
  MaxHierarchyObjects = 3
  MaxHierarchyTombstones = 1
  MaxHierarchyDepth = 2
  MaxHierarchyRecords = 3
SYMMETRY MCSymmetry
SPECIFICATION Spec
INVARIANTS
  TombstonesStayDead
  PosesAgree
PROPERTIES
  LockedContentIsStable
  RevisionOrdersChanges
