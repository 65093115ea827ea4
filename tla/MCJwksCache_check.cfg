SPECIFICATION FairSpec
CONSTANTS
  k1 = k1
  ec = ec
  Tokens <- MCTokens
  Requests = {r1, r2}
  EdKeys = {k1}
  OtherKeys = {ec}
  None = None
  TTL = 1
  MaxDelay = 1
  MaxTime = 3
INVARIANTS
  TypeOK
PROPERTIES
  AcceptedKeyIsRecent
  FetchedKeyIsFound
  WaitsOnlyForSesame
CHECK_DEADLOCK FALSE
