\* Two concurrent requests on one job through every status and two attempts.
SPECIFICATION MCSpec
CONSTANTS
  Tenant = {t1}
  Workload = {w1}
  IdempotencyKey = {k1}
  JobId = {j1}
  OwnerOf <- SomeOwner
  AttemptLimit = 2
  Delay = {0, 60}
  Session = {s1, s2}
  None = None
  MaxEvents = 8
  Ops = {"create", "transition", "retry"}
SYMMETRY Interchangeable
INVARIANTS
  TypeOK
  JobRunAgree
  AttemptHistory
  AuditReplay
  ReplayAnswers
  SoundCommits
PROPERTIES
  HistoryImmutable
  LedgerSpec
