CONSTANTS
  scene = scene
  l1 = l1
  l2 = l2
  alice = alice
  a = a
  NoConn = NoConn
  NoObject = NoObject
  Root = Root
  Scenes = {scene}
  Objects = {l1, l2}
  LogicalIds = {l1, l2}
  SceneOf <- MCSceneOf
  IdOrder <- MCIdOrder
  Users = {alice}
  Conns = {a}
  UserOf <- MCUserOf
  TransformConns = {a}
  HierarchyConns = {a}
  OpIds = {1, 2}
  Seeds <- MCSeeds
  Selectable = {}
  Lease = 1
  MaxLocksPerSession = 0
  MaxLocksPerConnection = 0
  MaxRetainedTransforms = 0
  MaxSnapshotRecords = 0
  MaxRecentOperations = 1
  MaxRevision = 5
  MaxHierarchyObjects = 2
  MaxHierarchyTombstones = 1
  MaxHierarchyDepth = 2
  MaxHierarchyRecords = 4
SPECIFICATION MCSpec
INVARIANT DeletedIdsStayDeleted
