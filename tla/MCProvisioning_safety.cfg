SPECIFICATION Spec
CONSTANTS
  t1 = t1
  d1 = d1
  joe = joe
  Requests = {r1, r2}
  Runners = {j1, j2}
  Tenants = {t1, t2}
  Domains = {d1}
  LocalParts = {joe, ann}
  DomainTenant <- MCDomainTenant
  UserIds = {u1, u2, u3}
  NoUser = NoUser
  Rejected = {}
  MayHang = TRUE
  Batch = 2
  MaxFaults = 1
SYMMETRY MCSymmetry
INVARIANTS
  TypeOK
  OneIdentity
  AuditTrail
  TenantOwnsDomain
  ReplyTruthful
  HeldUserIsRight
PROPERTIES
  ImplementsLifecycle
