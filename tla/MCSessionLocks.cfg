CONSTANTS
  scene = scene
  o1 = o1
  o2 = o2
  alice = alice
  bob = bob
  a1 = a1
  a2 = a2
  b1 = b1
  NoConn = NoConn
  NoObject = NoObject
  Root = Root
  Scenes = {scene}
  Objects = {o1, o2}
  LogicalIds = {}
  SceneOf <- MCSceneOf
  IdOrder <- MCIdOrder
  Users = {alice, bob}
  Conns = {a1, a2, b1}
  UserOf <- MCUserOf
  TransformConns = {a1, a2, b1}
  HierarchyConns = {}
  OpIds = {1, 2, 3}
  Seeds = {}
  Selectable = {o1}
  Lease = 2
  MaxLocksPerSession = 2
  MaxLocksPerConnection = 1
  MaxRetainedTransforms = 2
  MaxSnapshotRecords = 3
  MaxRecentOperations = 2
  MaxRevision = 3
  MaxHierarchyObjects = 2
  MaxHierarchyTombstones = 2
  MaxHierarchyDepth = 3
  MaxHierarchyRecords = 4
SPECIFICATION Spec
INVARIANTS
  LockOwnersAreMembers
  RevisionLog
PROPERTIES
  ForeignLeasesSurvive
  EditsNeedLeases
  IdleLocksAreFreed
