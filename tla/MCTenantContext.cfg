SPECIFICATION FairSpec
CONSTANTS
  Orgs = {o1, o2}
  Callers = {c1, c2}
  Conns = {x1, x2}
  None = None
INVARIANTS
  TypeOK
  TenantIsolation
  PlatformSeesNoTenant
PROPERTY CallsReturn
