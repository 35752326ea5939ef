-------------------------- MODULE ExecutionService --------------------------
(***************************************************************************)
(* ExecutionService (src/growth_os/execution_service.py) over PostgreSQL   *)
(* at READ COMMITTED.  Every request runs in a database session of its     *)
(* own; each statement of a request is one step that sees the committed    *)
(* tables, so any other request may commit between two statements.         *)
(*                                                                         *)
(* Uncommitted writes are not state of their own: they are determined by   *)
(* where a session stands (pc), what it was asked (req) and what it has    *)
(* read (seen), and so are the row locks and in-flight unique keys that    *)
(* make other sessions wait.  Commit applies the writes to the tables.     *)
(***************************************************************************)
EXTENDS JobLedger, FiniteSets

CONSTANTS
  Session,   \* database sessions; each serves one request at a time
  None       \* the absence of a value

ASSUME ServiceAssumption == None \notin JobId /\ None \notin Status

VARIABLES
  pc,    \* the next statement of each session's request, or its answer
  req,   \* the request each session serves
  seen   \* what the request has read so far

sessionVars == <<pc, req, seen>>
vars == <<jobs, runs, audit, pc, req, seen>>

-------------------------------------------------------------------------------
(* Requests and what they remember *)

CreateRequest     == [op : {"create"}, tenant : Tenant, key : IdempotencyKey,
                      work : Workload, max : 1..AttemptLimit, delay : Delay]
TransitionRequest == [op : {"transition"}, tenant : Tenant, job : JobId,
                      expected : Status, target : Status]
RetryRequest      == [op : {"retry"}, tenant : Tenant, job : JobId,
                      attempt : 1..AttemptLimit]
NoRequest         == [op |-> "none"]

Snapshot   == [job : JobId \cup {None}, status : Status \cup {None},
               run : Nat, row : RunRow \cup {None}]
NoSnapshot == [job |-> None, status |-> None, run |-> 0, row |-> None]

Answers == {"created", "existing", "conflict", "applied"}
Labels  == Answers \cup
           {"idle", "lookup", "insert_job", "winner", "replay", "commit_create",
            "read_job", "read_run", "cas_job", "cas_run", "insert_run",
            "commit_transition", "commit_retry"}

Goto(s, label) == pc' = [pc EXCEPT ![s] = label]

\* The session is free again: the request was answered, refused after a rollback
\* (not_found, invalid_state_transition), or abandoned.
End(s) ==
  /\ pc'   = [pc EXCEPT ![s] = "idle"]
  /\ req'  = [req EXCEPT ![s] = NoRequest]
  /\ seen' = [seen EXCEPT ![s] = NoSnapshot]

-------------------------------------------------------------------------------
(* What other sessions hold: row locks and uncommitted unique keys *)

\* The UPDATE of execution_jobs has been executed and is not yet committed.
LocksJob(o, j) ==
  /\ pc[o] \in {"cas_run", "insert_run", "commit_transition", "commit_retry"}
  /\ seen[o].job = j

LocksRun(o, j, r) ==
  /\ pc[o] = "commit_transition"
  /\ seen[o].job = j
  /\ seen[o].run = r

\* Mutant: no unique constraint on tenant and key.
InsertsKeyUnconstrained(o, t, k) == FALSE

InsertsKey(o, t, k) ==
  /\ pc[o] = "commit_create"
  /\ req[o].tenant = t
  /\ req[o].key = k

InsertsAttempt(o, j, n) ==
  /\ pc[o] = "commit_retry"
  /\ seen[o].job = j
  /\ seen[o].row.attempt + 1 = n

Others(s) == Session \ {s}

-------------------------------------------------------------------------------
(* A request arrives *)

Arrive(s, r, first) ==
  /\ pc[s] = "idle"
  /\ req' = [req EXCEPT ![s] = r]
  /\ Goto(s, first)
  /\ UNCHANGED <<jobs, runs, audit, seen>>

ArriveCreate(s) == \E r \in CreateRequest : Arrive(s, r, "lookup")

\* Mutant: the edge is not validated.
ArriveTransitionUnchecked(s) == \E r \in TransitionRequest : Arrive(s, r, "read_job")

\* An edge outside the graph is refused before anything is read.
ArriveTransition(s) ==
  \E r \in TransitionRequest :
    /\ ValidTransition(r.expected, r.target)
    /\ Arrive(s, r, "read_job")

ArriveRetry(s) == \E r \in RetryRequest : Arrive(s, r, "read_job")

-------------------------------------------------------------------------------
(* create_job *)

LookupKey(s) ==
  /\ pc[s] = "lookup"
  /\ LET found == JobsWithKey(req[s].tenant, req[s].key)
     IN  \/ /\ found # {}
            /\ \E j \in found : seen' = [seen EXCEPT ![s].job = j]
            /\ Goto(s, "replay")
            /\ UNCHANGED req
         \/ /\ found = {}
            /\ OwnerOf[req[s].work] = req[s].tenant
            /\ Goto(s, "insert_job")
            /\ UNCHANGED <<req, seen>>
         \/ /\ found = {}
            /\ OwnerOf[req[s].work] # req[s].tenant
            /\ End(s)
  /\ UNCHANGED ledgerVars

\* The flush inside commit: it waits for an uncommitted row with the same key,
\* and fails with IntegrityError once such a row is committed.
InsertJobRow(s) ==
  /\ pc[s] = "insert_job"
  /\ \A o \in Others(s) : ~InsertsKey(o, req[s].tenant, req[s].key)
  /\ IF JobsWithKey(req[s].tenant, req[s].key) # {}
     THEN Goto(s, "winner") /\ UNCHANGED seen
     ELSE /\ \E j \in JobId \ DOMAIN jobs :
               /\ \A o \in Session : seen[o].job # j
               /\ seen' = [seen EXCEPT ![s].job = j]
          /\ Goto(s, "commit_create")
  /\ UNCHANGED <<jobs, runs, audit, req>>

CommitCreate(s) ==
  /\ pc[s] = "commit_create"
  /\ InsertJob(seen[s].job, req[s].tenant, req[s].key, req[s].work, req[s].max, req[s].delay)
  /\ Goto(s, "created")
  /\ UNCHANGED <<req, seen>>

\* After the rollback the loser of the race looks for the winner's row.
LookupWinner(s) ==
  /\ pc[s] = "winner"
  /\ LET found == JobsWithKey(req[s].tenant, req[s].key)
     IN  IF found = {}
         THEN Goto(s, "conflict") /\ UNCHANGED seen
         ELSE /\ \E j \in found : seen' = [seen EXCEPT ![s].job = j]
              /\ Goto(s, "replay")
  /\ UNCHANGED <<jobs, runs, audit, req>>

SameRequest(r, job, run) ==
  /\ job.work = r.work
  /\ run.max = r.max
  /\ run.delay = r.delay

\* _idempotent_job_result: the job row read earlier against the run that is
\* latest now.
Replay(s) ==
  /\ pc[s] = "replay"
  /\ LET j == seen[s].job
         r == LatestRun(j)
     IN  /\ seen' = [seen EXCEPT ![s].run = r]
         /\ IF SameRequest(req[s], jobs[j], runs[j][r])
            THEN Goto(s, "existing")
            ELSE Goto(s, "conflict")
  /\ UNCHANGED <<jobs, runs, audit, req>>

-------------------------------------------------------------------------------
(* The two reads transition_job and reserve_retry begin with *)

\* Mutant: the row is fetched by identifier alone.
OwnedByAnyone(t, j) == j \in DOMAIN jobs

\* get_owned: a row of another tenant is not found.
Owned(t, j) == j \in DOMAIN jobs /\ jobs[j].tenant = t

ReadJob(s) ==
  /\ pc[s] = "read_job"
  /\ LET j == req[s].job
     IN  IF Owned(req[s].tenant, j)
         THEN /\ seen' = [seen EXCEPT ![s].job = j, ![s].status = jobs[j].status]
              /\ Goto(s, "read_run")
              /\ UNCHANGED req
         ELSE End(s)
  /\ UNCHANGED ledgerVars

TransitionExpected(r, status, run) ==
  /\ status = r.expected
  /\ run.status = r.expected

\* Mutant: one attempt beyond the budget.
RetryExpectedInclusive(r, status, run) ==
  /\ status = FAILED
  /\ run.status = FAILED
  /\ run.attempt = r.attempt
  /\ run.attempt <= run.max

RetryExpected(r, status, run) ==
  /\ status = FAILED
  /\ run.status = FAILED
  /\ run.attempt = r.attempt
  /\ run.attempt < run.max

\* _required_run and the check that follows; the job status compared is the one
\* read a statement earlier.
ReadRun(s) ==
  /\ pc[s] = "read_run"
  /\ LET r   == LatestRun(seen[s].job)
         row == runs[seen[s].job][r]
     IN  IF \/ req[s].op = "transition" /\ TransitionExpected(req[s], seen[s].status, row)
            \/ req[s].op = "retry" /\ RetryExpected(req[s], seen[s].status, row)
         THEN /\ seen' = [seen EXCEPT ![s].run = r, ![s].row = row]
              /\ Goto(s, "cas_job")
              /\ UNCHANGED req
         ELSE End(s)
  /\ UNCHANGED ledgerVars

-------------------------------------------------------------------------------
(* The compare-and-set updates *)

ExpectedStatus(r) == IF r.op = "retry" THEN FAILED ELSE r.expected

CasJobMatches(s) == jobs[seen[s].job].status = ExpectedStatus(req[s])

\* Mutant: UPDATE execution_runs without the expected status.
CasRunMatchesAlways(s) == TRUE

CasRunMatches(s) == runs[seen[s].job][seen[s].run].status = req[s].expected

\* Mutant: a job whose status differs is waited for instead of refused.
CasJobWaits(s) ==
  /\ pc[s] = "cas_job"
  /\ CasJobMatches(s)
  /\ \A o \in Others(s) : ~LocksJob(o, seen[s].job)
  /\ Goto(s, IF req[s].op = "retry" THEN "insert_run" ELSE "cas_run")
  /\ UNCHANGED <<jobs, runs, audit, req, seen>>

\* UPDATE execution_jobs ... WHERE status = expected: no row, and a rollback, when
\* the committed status differs; otherwise it waits for the row and locks it.
CasJob(s) ==
  /\ pc[s] = "cas_job"
  /\ \/ /\ ~CasJobMatches(s)
        /\ End(s)
     \/ /\ CasJobMatches(s)
        /\ \A o \in Others(s) : ~LocksJob(o, seen[s].job)
        /\ Goto(s, IF req[s].op = "retry" THEN "insert_run" ELSE "cas_run")
        /\ UNCHANGED <<req, seen>>
  /\ UNCHANGED ledgerVars

CasRun(s) ==
  /\ pc[s] = "cas_run"
  /\ \/ /\ ~CasRunMatches(s)
        /\ End(s)
     \/ /\ CasRunMatches(s)
        /\ \A o \in Others(s) : ~LocksRun(o, seen[s].job, seen[s].run)
        /\ Goto(s, "commit_transition")
        /\ UNCHANGED <<req, seen>>
  /\ UNCHANGED ledgerVars

\* Mutant: no unique constraint on job and attempt.
AttemptTakenUnconstrained(j, n) == FALSE

\* uq_runs_job_attempt: the attempt is already in the table.
AttemptTaken(j, n) == \E r \in DOMAIN runs[j] : runs[j][r].attempt = n

\* attempt_positive and attempt_within_max (db/models.py) cannot fire here: RetryExpected
\* has already refused a run whose attempt has reached its maximum.
InsertRun(s) ==
  /\ pc[s] = "insert_run"
  /\ LET j == seen[s].job
         n == seen[s].row.attempt + 1
     IN  \/ /\ AttemptTaken(j, n)
            /\ End(s)
         \/ /\ ~AttemptTaken(j, n)
            /\ \A o \in Others(s) : ~InsertsAttempt(o, j, n)
            /\ Goto(s, "commit_retry")
            /\ UNCHANGED <<req, seen>>
  /\ UNCHANGED ledgerVars

CommitTransition(s) ==
  /\ pc[s] = "commit_transition"
  /\ SetStatus(seen[s].job, seen[s].run, req[s].expected, req[s].target)
  /\ Goto(s, "applied")
  /\ UNCHANGED <<req, seen>>

CommitRetry(s) ==
  /\ pc[s] = "commit_retry"
  /\ InsertRetry(seen[s].job, seen[s].row.attempt, seen[s].row.max, seen[s].row.delay)
  /\ Goto(s, "applied")
  /\ UNCHANGED <<req, seen>>

-------------------------------------------------------------------------------
(* How a request ends *)

\* The answer leaves; the post-commit refreshes only fill the response.
Respond(s) ==
  /\ pc[s] \in Answers
  /\ End(s)
  /\ UNCHANGED ledgerVars

\* The client disconnects, the process dies or the database fails: the
\* transaction rolls back and its locks are gone.
Abort(s) ==
  /\ pc[s] \notin Answers \cup {"idle"}
  /\ End(s)
  /\ UNCHANGED ledgerVars

-------------------------------------------------------------------------------
(* Specification *)

Init ==
  /\ LedgerInit
  /\ pc   = [s \in Session |-> "idle"]
  /\ req  = [s \in Session |-> NoRequest]
  /\ seen = [s \in Session |-> NoSnapshot]

ArriveAny(s) == ArriveCreate(s) \/ ArriveTransition(s) \/ ArriveRetry(s)

Step(s) ==
  \/ LookupKey(s) \/ InsertJobRow(s) \/ CommitCreate(s) \/ LookupWinner(s) \/ Replay(s)
  \/ ReadJob(s) \/ ReadRun(s) \/ CasJob(s) \/ CasRun(s) \/ InsertRun(s)
  \/ CommitTransition(s) \/ CommitRetry(s)
  \/ Respond(s)

Next == \E s \in Session : ArriveAny(s) \/ Step(s) \/ Abort(s)

Spec == Init /\ [][Next]_vars

\* A session that can go on does: PostgreSQL serves lock waiters in order, so a
\* wait that keeps ending is not repeated for ever.
Fairness == \A s \in Session : SF_vars(Step(s))
-------------------------------------------------------------------------------
(* Properties *)

TypeOK ==
  /\ LedgerTypeOK
  /\ pc \in [Session -> Labels]
  /\ req \in [Session -> CreateRequest \cup TransitionRequest \cup RetryRequest
                           \cup {NoRequest}]
  /\ seen \in [Session -> Snapshot]

\* A create request is answered with the existing job exactly when it repeats the
\* request that job was created by, however many retries have inserted newer
\* runs since; any other use of the key is answered with a conflict.
ReplayAnswers ==
  \A s \in Session :
    pc[s] \in {"existing", "conflict"} =>
      \E j \in JobsWithKey(req[s].tenant, req[s].key) :
        pc[s] = "existing" <=> SameRequest(req[s], jobs[j], runs[j][1])

\* Two requests never hold uncommitted writes to the same job, and what a request
\* is about to commit still rests on committed data as it read it.
SoundCommits ==
  \A s \in Session :
    /\ pc[s] = "commit_transition" =>
         /\ jobs[seen[s].job].status = req[s].expected
         /\ seen[s].run = LatestRun(seen[s].job)
    /\ pc[s] = "commit_retry" =>
         /\ jobs[seen[s].job].status = FAILED
         /\ seen[s].row = runs[seen[s].job][LatestRun(seen[s].job)]
    /\ \A o \in Others(s), j \in JobId : ~(LocksJob(s, j) /\ LocksJob(o, j))

\* Whatever a request of one tenant does, the jobs, runs and audit events of
\* another tenant stay as they are.
TenantIsolation ==
  [][\A j \in DOMAIN jobs :
       <<jobs'[j], runs'[j], audit'[j]>> # <<jobs[j], runs[j], audit[j]>> =>
         \E s \in Session : pc'[s] # pc[s] /\ req[s].tenant = jobs[j].tenant]_vars

\* Attempt history is never rewritten: a run keeps its place, changes status only
\* along the graph (so never once it is terminal), and audit events are only added.
HistoryImmutable ==
  [][\A j \in DOMAIN jobs :
       /\ j \in DOMAIN jobs'
       /\ \A r \in DOMAIN runs[j] :
            /\ r \in DOMAIN runs'[j]
            /\ \/ runs'[j][r] = runs[j][r]
               \/ /\ ValidTransition(runs[j][r].status, runs'[j][r].status)
                  /\ runs'[j][r] = [runs[j][r] EXCEPT !.status = runs'[j][r].status]
       /\ \A i \in DOMAIN audit[j] : i \in DOMAIN audit'[j] /\ audit'[j][i] = audit[j][i]]_vars

\* Every request comes to an end: no set of requests waits for each other's row
\* locks or unique keys for ever.
RequestsEnd == \A s \in Session : pc[s] # "idle" ~> pc[s] = "idle"

\* docs/EXECUTION-CONTRACT.md says of a repeated create that it "returns the
\* original job and run".
ReplayReturnsOriginalRun == \A s \in Session : pc[s] = "existing" => seen[s].run = 1
===============================================================================
