\* A create request repeated after a retry.
SPECIFICATION MCSpec
CONSTANTS
  Tenant = {t1}
  Workload = {w1}
  IdempotencyKey = {k1}
  JobId = {j1}
  OwnerOf <- SomeOwner
  AttemptLimit = 2
  Delay = {0}
  Session = {s1}
  None = None
  MaxEvents = 6
  Ops = {"create", "transition", "retry"}
INVARIANTS
  ReplayReturnsOriginalRun
