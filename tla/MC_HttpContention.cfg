SPECIFICATION FairSpec
CONSTANTS
  r1 = r1
  r2 = r2
  Connection = {c1}
  NoRequest = NoRequest
  NoConnection = NoConnection
  Request = {r1, r2}
  Budget <- Contention
INVARIANTS
  OwnWorkOnly
  SafetyInv
PROPERTIES
  ImplementsAtomicRequest
  EveryRequestAnswered
  ConnectionsReturn
