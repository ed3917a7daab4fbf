SPECIFICATION GatewaySpec
CONSTANTS
  t1 = t1
  t2 = t2
  Requests = {r1, r2, r3}
  Tenants = {t1}
  Connections = {c1}
  NoTenant = NoTenant
  NoRequest = NoRequest
  MaxSessions = 0
  Users = {"ann"}
  Claims <- AnnClaims
  Keys = {k1, k2}
  FirstKey = k1
  NoKey = NoKey
  JwksTtl = 2
  FetchTimeout = 1
  Window = 2
  Limit = 1
  MaxTime = 2
  MaxFaults = 1
SYMMETRY EqualRequests
INVARIANTS
  KeysAreFresh
  LimitHolds
CHECK_DEADLOCK FALSE
