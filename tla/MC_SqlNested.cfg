SPECIFICATION FairSpec
CONSTANTS
  t1 = t1
  t2 = t2
  kid = kid
  m1 = m1
  m2 = m2
  shared = shared
  NoInstance = NoInstance
  Task <- Pair
  Child = {}
  Parent <- NoParent
  Nested = {t1}
  Instance = {m1, m2, shared}
  Private <- TwoModels
  Shared = {}
  PoolSize = 3
  Budget <- Deep
INVARIANTS
  BlockKeepsConnection
  InstancesSound
PROPERTIES
  ConnectionsReturn
