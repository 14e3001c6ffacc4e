SPECIFICATION Spec
CONSTANTS
  t1 = t1
  t2 = t2
  kid = kid
  m1 = m1
  m2 = m2
  shared = shared
  NoInstance = NoInstance
  Task <- Pair
  Child = {}
  Parent <- NoParent
  Nested = {}
  Instance = {m1, m2, shared}
  Private <- Apart
  Shared = {shared}
  PoolSize = 1
  Budget <- Short
INVARIANTS
  PrecreatedModelsBorrow
