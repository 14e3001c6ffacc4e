SPECIFICATION FairSpec
CONSTANTS
  Numbers <- MCNumbers
  Flags <- MCFlags
  Origins <- MCOrigins
  Lists <- MCLists
  Urls <- MCUrls
  Envs <- MCEnvs
  AppConfigs <- MCAppConfigs
  MaxRequests = 2
  Requests = {r1, r2}
  GivenIds = {g1}
  u1 = u1
  u2 = u2
  User = {u1, u2}
  Credentials <- MCCredentials
  Payloads <- MCPayloads
  Absent = Absent
  Command = {"c1", "c2"}
  Views <- MCViews
  PoolSize = 3
  NoWriter = Absent
INVARIANTS
  ConfigIsSound
  ResourcesAreOwned
  RequestsAreApart
PROPERTIES
  CleanupEnds
  EveryRequestEnds
  EveryRequestAnswered
CHECK_DEADLOCK FALSE
