SPECIFICATION Spec
CONSTANTS
  r1 = r1
  r2 = r2
  Connection = {c1}
  NoRequest = NoRequest
  NoConnection = NoConnection
  Request = {r1}
  Budget <- LongHandler
INVARIANTS
  TypeInv
  AllOrNothing
  SuccessIsDurable
  TornIsNeverDurable
  PublishedIsDurable
PROPERTIES
  NoWriteAfterHandler
  ResponseSettlesOutcome
