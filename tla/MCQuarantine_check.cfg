SPECIFICATION FairSpec
CONSTANTS
  Requests = {r1, r2, r3, r4}
  Messages = {m1}
  None = None
  MaxFaults = 1
INVARIANTS
  TypeOK
  ReleasedOnce
  AuditMatchesRows
  LockedRowsCurrent
PROPERTIES
  EveryRequestEnds
CHECK_DEADLOCK FALSE
