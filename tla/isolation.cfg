SPECIFICATION Spec
CONSTANTS
  t1 = t1
  t2 = t2
  Requests = {r1, r2}
  Tenants = {t1, t2}
  Connections = {c1, c2}
  NoTenant = NoTenant
  NoRequest = NoRequest
  MaxSessions = 2
  Users <- MCUsers
  Claims <- MCClaims
  Keys = {k1}
  FirstKey = k1
  NoKey = NoKey
  JwksTtl = 2
  FetchTimeout = 1
  Window = 1
  Limit = 2
  MaxTime = 0
  MaxFaults = 0
SYMMETRY EqualRequests
INVARIANTS
  TokenTenantOnly
CHECK_DEADLOCK FALSE
