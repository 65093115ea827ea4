SPECIFICATION FairSpec
CONSTANTS
  t1 = t1
  d1 = d1
  joe = joe
  Requests = {r1, r2}
  Runners = {j1}
  Tenants = {t1}
  Domains = {d1}
  LocalParts = {joe, ann}
  DomainTenant <- MCDomainTenant
  UserIds = {1, 2}
  NoUser = NoUser
  Rejected <- MCRejectJoe
  MayHang = TRUE
  Batch = 2
  MaxFaults = 1
PROPERTIES
  PendingIsReconciled
  EndsUnlessHung
