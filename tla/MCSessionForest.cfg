CONSTANTS
  scene = scene
  g1 = g1
  g2 = g2
  l1 = l1
  l2 = l2
  alice = alice
  a = a
  p = p
  q = q
  NoConn = NoConn
  NoObject = NoObject
  Root = Root
  Scenes = {scene}
  Objects = {g1, g2, l1, l2}
  LogicalIds = {l1, l2}
  SceneOf <- MCSceneOf
  IdOrder <- MCIdOrder
  Users = {alice}
  Conns = {a}
  UserOf <- MCUserOf
  TransformConns = {a}
  HierarchyConns = {a}
  OpIds = {p, q}
  Seeds <- MCSeeds
  Selectable = {}
  Lease = 1
  MaxLocksPerSession = 0
  MaxLocksPerConnection = 0
  MaxRetainedTransforms = 0
  MaxSnapshotRecords = 0
  MaxRecentOperations = 1
  MaxRevision = 3
  MaxHierarchyObjects = 4
  MaxHierarchyTombstones = 4
  MaxHierarchyDepth = 2
  MaxHierarchyRecords = 8
SYMMETRY MCSymmetry
SPECIFICATION Spec
INVARIANT HierarchyIsForest
PROPERTY ImplementsOrderedForest
