------------------------------ MODULE JobLedger ------------------------------
(***************************************************************************)
(* What the execution control plane promises, free of sessions, locks and  *)
(* interleavings: the three tables execution_jobs, execution_runs and      *)
(* audit_events, changed by three indivisible operations.  The service     *)
(* (ExecutionService) implements this ledger.                              *)
(***************************************************************************)
EXTENDS ExecutionStatus, Integers, Sequences

CONSTANTS
  Tenant,          \* tenant identifiers
  Workload,        \* a workspace together with a job kind
  OwnerOf,         \* the tenant that owns the workload's workspace
  IdempotencyKey,  \* idempotency keys, scoped by tenant
  JobId,           \* the supply of fresh job identifiers (uuid4)
  AttemptLimit,    \* the largest max_attempts the API accepts (10)
  Delay            \* values of retry_delay_seconds

ASSUME LedgerAssumption ==
  /\ OwnerOf \in [Workload -> Tenant]
  /\ AttemptLimit \in Nat \ {0}

VARIABLES
  jobs,   \* rows of execution_jobs by identifier; the domain is the table
  runs,   \* rows of execution_runs of each job, in order of insertion
  audit   \* rows of audit_events about each job, in order of commit

ledgerVars == <<jobs, runs, audit>>

-------------------------------------------------------------------------------
(* Rows *)

JobRow == [tenant : Tenant, key : IdempotencyKey, work : Workload, status : Status]

RunRow == [status : Status, attempt : 1..AttemptLimit,
           max : 1..AttemptLimit, delay : Delay]

\* An audit event carries the details its event type records, nothing more.
AuditRow ==
       [type : {"created"}]
  \cup [type : {"transitioned"}, prior : Status, target : Status, run : Nat]
  \cup [type : {"retry_reserved"}, priorAttempt : Nat, newAttempt : Nat]

NewJob(t, k, w)   == [tenant |-> t, key |-> k, work |-> w, status |-> QUEUED]
NewRun(n, m, d)   == [status |-> QUEUED, attempt |-> n, max |-> m, delay |-> d]

CreatedEvent               == [type |-> "created"]
TransitionedEvent(a, b, r) == [type |-> "transitioned", prior |-> a, target |-> b, run |-> r]
RetryEvent(p, n)           == [type |-> "retry_reserved", priorAttempt |-> p, newAttempt |-> n]

-------------------------------------------------------------------------------
(* Reads *)

\* The run with the highest attempt number: ORDER BY attempt_number DESC LIMIT 1.
LatestRun(j) ==
  CHOOSE r \in DOMAIN runs[j] :
    \A q \in DOMAIN runs[j] : runs[j][q].attempt <= runs[j][r].attempt

\* The jobs a tenant's idempotency key selects; the unique constraint
\* uq_execution_jobs_tenant_idempotency keeps them to at most one.
JobsWithKey(t, k) == {j \in DOMAIN jobs : jobs[j].tenant = t /\ jobs[j].key = k}

-------------------------------------------------------------------------------
(* Writes, as the tables look once the transaction has committed *)

InsertJob(j, t, k, w, m, d) ==
  /\ jobs'  = [i \in DOMAIN jobs \cup {j} |-> IF i = j THEN NewJob(t, k, w) ELSE jobs[i]]
  /\ runs'  = [runs EXCEPT ![j] = <<NewRun(1, m, d)>>]
  /\ audit' = [audit EXCEPT ![j] = <<CreatedEvent>>]

SetStatus(j, r, a, b) ==
  /\ jobs'  = [jobs EXCEPT ![j].status = b]
  /\ runs'  = [runs EXCEPT ![j][r].status = b]
  /\ audit' = [audit EXCEPT ![j] = Append(@, TransitionedEvent(a, b, r))]

\* Mutant: the retry leaves the job failed.
InsertRetryKeepsStatus(j, n, m, d) ==
  /\ jobs'  = jobs
  /\ runs'  = [runs EXCEPT ![j] = Append(@, NewRun(n + 1, m, d))]
  /\ audit' = [audit EXCEPT ![j] = Append(@, RetryEvent(n, n + 1))]

\* Mutant: the new run takes the default delay of its column.
InsertRetryDefaultDelay(j, n, m, d) ==
  /\ jobs'  = [jobs EXCEPT ![j].status = QUEUED]
  /\ runs'  = [runs EXCEPT ![j] = Append(@, NewRun(n + 1, m, 0))]
  /\ audit' = [audit EXCEPT ![j] = Append(@, RetryEvent(n, n + 1))]

\* Mutant: the retry is not audited.
InsertRetryUnaudited(j, n, m, d) ==
  /\ jobs'  = [jobs EXCEPT ![j].status = QUEUED]
  /\ runs'  = [runs EXCEPT ![j] = Append(@, NewRun(n + 1, m, d))]
  /\ audit' = audit

InsertRetry(j, n, m, d) ==
  /\ jobs'  = [jobs EXCEPT ![j].status = QUEUED]
  /\ runs'  = [runs EXCEPT ![j] = Append(@, NewRun(n + 1, m, d))]
  /\ audit' = [audit EXCEPT ![j] = Append(@, RetryEvent(n, n + 1))]

-------------------------------------------------------------------------------
(* The three indivisible operations *)

Create(j, t, k, w, m, d) ==
  /\ j \in JobId \ DOMAIN jobs
  /\ JobsWithKey(t, k) = {}
  /\ OwnerOf[w] = t
  /\ InsertJob(j, t, k, w, m, d)

Transition(j, a, b) ==
  /\ j \in DOMAIN jobs
  /\ ValidTransition(a, b)
  /\ jobs[j].status = a
  /\ runs[j][LatestRun(j)].status = a
  /\ SetStatus(j, LatestRun(j), a, b)

Retry(j) ==
  /\ j \in DOMAIN jobs
  /\ jobs[j].status = FAILED
  /\ LET last == runs[j][LatestRun(j)]
     IN  /\ last.status = FAILED
         /\ last.attempt < last.max
         /\ InsertRetry(j, last.attempt, last.max, last.delay)

LedgerInit ==
  /\ jobs  = [j \in {} |-> j]
  /\ runs  = [j \in JobId |-> << >>]
  /\ audit = [j \in JobId |-> << >>]

LedgerNext ==
  \/ \E j \in JobId, t \in Tenant, k \in IdempotencyKey, w \in Workload,
        m \in 1..AttemptLimit, d \in Delay : Create(j, t, k, w, m, d)
  \/ \E j \in JobId, a, b \in Status : Transition(j, a, b)
  \/ \E j \in JobId : Retry(j)

LedgerSpec == LedgerInit /\ [][LedgerNext]_ledgerVars

-------------------------------------------------------------------------------
(* Properties *)

LedgerTypeOK ==
  /\ DOMAIN jobs \subseteq JobId
  /\ jobs \in [DOMAIN jobs -> JobRow]
  /\ runs \in [JobId -> Seq(RunRow)]
  /\ audit \in [JobId -> Seq(AuditRow)]

\* A job always has a run, and its status is the status of its latest run:
\* the two rows that transition_job and reserve_retry update by separate
\* statements never disagree in committed data.
JobRunAgree ==
  \A j \in DOMAIN jobs :
    /\ runs[j] # << >>
    /\ jobs[j].status = runs[j][LatestRun(j)].status

\* Attempts are numbered 1, 2, 3, ... without gap or duplicate, never beyond the
\* budget, every attempt keeps the budget and delay the job was created with,
\* and every attempt but the last has failed.
AttemptHistory ==
  \A j \in DOMAIN jobs : \A r \in DOMAIN runs[j] :
    /\ runs[j][r].attempt = r
    /\ r <= runs[j][r].max
    /\ runs[j][r].max = runs[j][1].max
    /\ runs[j][r].delay = runs[j][1].delay
    /\ r < Len(runs[j]) => runs[j][r].status = FAILED

\* The status a job has after, and must have had before, an audited change.
StatusAfter(e)  == IF e.type = "transitioned" THEN e.target ELSE QUEUED
StatusBefore(e) == IF e.type = "transitioned" THEN e.prior ELSE FAILED

\* Replaying a job's audit events from its creation reproduces its life: the
\* first event is the creation, each later one starts from the status its
\* predecessor left, and the last one leaves the status the job has now.
AuditReplay ==
  \A j \in DOMAIN jobs :
    /\ audit[j] # << >>
    /\ \A i \in DOMAIN audit[j] :
         /\ i = 1 <=> audit[j][i].type = "created"
         /\ i > 1 => StatusBefore(audit[j][i]) = StatusAfter(audit[j][i - 1])
    /\ StatusAfter(audit[j][Len(audit[j])]) = jobs[j].status

\* One job per tenant and idempotency key.
OneJobPerKey ==
  \A i, j \in DOMAIN jobs :
    jobs[i].tenant = jobs[j].tenant /\ jobs[i].key = jobs[j].key => i = j
===============================================================================
