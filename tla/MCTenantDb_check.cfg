SPECIFICATION FairSpec
CONSTANTS
  Tasks = {h1, h2, h3}
  Tenants = {t1, t2}
  Conns = {c1}
  None = None
  MaxFaults = 1
INVARIANTS
  TypeOK
  TenantIsolation
PROPERTIES
  ConnectionsReturn
CHECK_DEADLOCK FALSE
