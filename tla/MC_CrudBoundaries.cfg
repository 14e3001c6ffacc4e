SPECIFICATION Spec
CONSTANTS
  r1 = r1
  r2 = r2
  c1 = c1
  c2 = c2
  NoWriter = NoWriter
  Request = {r1, r2}
  Command = {c1, c2}
  Boundaries = {{}, {"view"}, {"middleware"}, {"view", "middleware"}}
  Guards = {TRUE, FALSE}
  Views <- MCViews
  PoolSize = 3
SYMMETRY Alike
INVARIANTS
  HookWithWrite
  FailureLeavesNothing
  SuccessIsStored
  AppliedOnce
  GuardedNotLost
  CommandsReturn
