\* Two tenants that use the same key, one job each, requests aimed at either job.
SPECIFICATION MCFairSpec
CONSTANTS
  Tenant = {t1, t2}
  Workload = {w1, w2}
  IdempotencyKey = {k1}
  JobId = {j1, j2}
  OwnerOf <- SomeOwner
  AttemptLimit = 1
  Delay = {0}
  Session = {s1, s2}
  None = None
  MaxEvents = 3
  Ops = {"create", "transition"}
INVARIANTS
  OneJobPerKey
PROPERTIES
  TenantIsolation
  RequestsEnd
