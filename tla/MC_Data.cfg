SPECIFICATION MCSpec
CONSTANTS
  PageRow = {1, 2, 3}
  PageKey = {1, 2}
  LimitDefault = 2
  LimitMax = 2
  Limits <- MCLimits
  Offsets <- MCOffsets
  Orders <- MCOrders
  Writes = 1
  Absent = Absent
  NotANumber = NotANumber
  Character <- MCCharacter
  Path <- MCPath
  QueryItems <- MCItems
  Header <- MCHeader
  HeaderValue <- MCHeaderValue
  Identity <- MCIdentity
  i1 = i1
  i2 = i2
  v1 = v1
  v2 = v2
  RecordId = {i1, i2}
  RecordValue = {v1, v2}
  MaxCalls = 6
  None = None
  Name <- MCName
  Invalid <- MCInvalid
  Calls <- MCCalls
  Field = {field, header_field}
  HeaderField = {header_field}
  Foreign = foreign
  Origin = {o1, o2}
  Attributes = {}
SYMMETRY Alike
INVARIANTS
  RowsAreAnswered
  ListIsWalked
  KeysAreFaithful
  RecordIsItsRow
  ValuesInPlace
  BodyLoads
  BrowsersAreServed
CHECK_DEADLOCK FALSE
