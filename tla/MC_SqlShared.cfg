SPECIFICATION Spec
CONSTANTS
  t1 = t1
  t2 = t2
  kid = kid
  m1 = m1
  m2 = m2
  shared = shared
  NoInstance = NoInstance
  Task <- Tasks
  Child <- Children
  Parent <- ParentOf
  Nested = {}
  Instance = {m1, m2, shared}
  Private <- OwnModels
  Shared = {shared}
  PoolSize = 2
  Budget <- SharedUse
INVARIANTS
  ScopedStaysHome
  SequentialUse
  OwnerKeepsConnection
