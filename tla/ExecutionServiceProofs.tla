----------------------- MODULE ExecutionServiceProofs -----------------------
(***************************************************************************)
(* ExecutionService implements JobLedger, for any number of sessions, jobs *)
(* and tenants: every commit is one indivisible ledger operation, although *)
(* the statements before it saw other requests commit in between.          *)
(***************************************************************************)
EXTENDS ExecutionService, JobLedgerProofs

CreateLabels == {"lookup", "insert_job", "commit_create", "winner", "replay",
                 "existing", "conflict"}
JobLabels    == {"read_job", "read_run", "cas_job", "cas_run", "insert_run",
                 "commit_transition", "commit_retry"}
KnownLabels  == {"cas_job", "cas_run", "insert_run", "commit_transition", "commit_retry"}

-------------------------------------------------------------------------------
(* The invariant *)

SessionTypeOK ==
  /\ pc \in [Session -> Labels]
  /\ req \in [Session -> CreateRequest \cup TransitionRequest \cup RetryRequest
                           \cup {NoRequest}]
  /\ seen \in [Session -> Snapshot]

\* What a session knows of the run it read: the columns no request ever changes.
RowKnown(s) ==
  LET j == seen[s].job
      r == seen[s].run
  IN  /\ j \in DOMAIN jobs
      /\ jobs[j].tenant = req[s].tenant
      /\ r \in DOMAIN runs[j]
      /\ seen[s].row \in RunRow
      /\ seen[s].row.attempt = runs[j][r].attempt
      /\ seen[s].row.max = runs[j][r].max
      /\ seen[s].row.delay = runs[j][r].delay

\* Facts about a session that no commit of another session can falsify.
Stable(s) ==
  /\ pc[s] \in CreateLabels => req[s] \in CreateRequest
  /\ pc[s] \in {"insert_job", "commit_create"} => OwnerOf[req[s].work] = req[s].tenant
  /\ pc[s] = "winner" => JobsWithKey(req[s].tenant, req[s].key) # {}
  /\ pc[s] = "replay" => seen[s].job \in JobsWithKey(req[s].tenant, req[s].key)
  /\ pc[s] \in {"existing", "conflict"} =>
       \E j \in JobsWithKey(req[s].tenant, req[s].key) :
         pc[s] = "existing" <=> SameRequest(req[s], jobs[j], runs[j][1])
  /\ pc[s] \in JobLabels => req[s] \in TransitionRequest \cup RetryRequest
  /\ pc[s] \in JobLabels /\ req[s] \in TransitionRequest =>
       ValidTransition(req[s].expected, req[s].target)
  /\ pc[s] = "read_run" =>
       seen[s].job \in DOMAIN jobs /\ jobs[seen[s].job].tenant = req[s].tenant
  /\ pc[s] \in KnownLabels => RowKnown(s)
  /\ pc[s] \in KnownLabels /\ req[s] \in RetryRequest =>
       seen[s].row.status = FAILED /\ seen[s].row.attempt < seen[s].row.max
  /\ pc[s] \in {"cas_run", "commit_transition"} => req[s] \in TransitionRequest
  /\ pc[s] \in {"insert_run", "commit_retry"} => req[s] \in RetryRequest

\* Facts a session relies on when it commits, protected by its locks.
Held(s) ==
  /\ pc[s] \in {"cas_run", "commit_transition"} =>
       jobs[seen[s].job].status = req[s].expected
  /\ pc[s] \in {"insert_run", "commit_retry"} => jobs[seen[s].job].status = FAILED
  /\ pc[s] = "commit_transition" =>
       runs[seen[s].job][seen[s].run].status = req[s].expected
  /\ pc[s] = "commit_retry" => ~AttemptTaken(seen[s].job, seen[s].row.attempt + 1)
  /\ pc[s] = "commit_create" =>
       /\ seen[s].job \in JobId \ DOMAIN jobs
       /\ JobsWithKey(req[s].tenant, req[s].key) = {}

\* Two sessions never hold the same job row, job identifier or key.
Exclusive(s, o) ==
  /\ pc[s] \in KnownLabels \ {"cas_job"} /\ pc[o] \in KnownLabels \ {"cas_job"} =>
       seen[s].job # seen[o].job
  /\ pc[s] = "commit_create" /\ pc[o] = "commit_create" =>
       /\ seen[s].job # seen[o].job
       /\ req[s].tenant # req[o].tenant \/ req[s].key # req[o].key

ServiceInv ==
  /\ LedgerInv
  /\ SessionTypeOK
  /\ \A s \in Session : Stable(s) /\ Held(s)
  /\ \A s \in Session : \A o \in Others(s) : Exclusive(s, o)

-------------------------------------------------------------------------------
(* What a ledger operation leaves alone *)

\* Jobs and runs are never deleted and keep the columns written at insertion.
Grows ==
  \A i \in DOMAIN jobs :
    /\ i \in DOMAIN jobs'
    /\ jobs'[i].tenant = jobs[i].tenant
    /\ jobs'[i].key = jobs[i].key
    /\ jobs'[i].work = jobs[i].work
    /\ \A r \in DOMAIN runs[i] :
         /\ r \in DOMAIN runs'[i]
         /\ runs'[i][r].attempt = runs[i][r].attempt
         /\ runs'[i][r].max = runs[i][r].max
         /\ runs'[i][r].delay = runs[i][r].delay

\* Only the rows of job j change.
OnlyJob(j) ==
  \A i \in DOMAIN jobs \ {j} : jobs'[i] = jobs[i] /\ runs'[i] = runs[i] /\ audit'[i] = audit[i]

\* The step of HistoryImmutable for one job.
HistoryKept(j) ==
  /\ j \in DOMAIN jobs'
  /\ \A r \in DOMAIN runs[j] :
       /\ r \in DOMAIN runs'[j]
       /\ \/ runs'[j][r] = runs[j][r]
          \/ /\ ValidTransition(runs[j][r].status, runs'[j][r].status)
             /\ runs'[j][r] = [runs[j][r] EXCEPT !.status = runs'[j][r].status]
  /\ \A i \in DOMAIN audit[j] : i \in DOMAIN audit'[j] /\ audit'[j][i] = audit[j][i]

LEMMA CreateFrame ==
  ASSUME LedgerInv, NEW j \in JobId, NEW t \in Tenant, NEW k \in IdempotencyKey,
         NEW w \in Workload, NEW m \in 1..AttemptLimit, NEW d \in Delay,
         Create(j, t, k, w, m, d)
  PROVE  /\ DOMAIN jobs' = DOMAIN jobs \cup {j}
         /\ jobs'[j].tenant = t /\ jobs'[j].key = k
         /\ OnlyJob(j)
         /\ Grows
         /\ \A i \in DOMAIN jobs : HistoryKept(i)
<1>1. j \notin DOMAIN jobs /\ DOMAIN jobs' = DOMAIN jobs \cup {j} /\ jobs'[j] = NewJob(t, k, w)
  BY DEF Create, InsertJob
<1>2. \A i \in DOMAIN jobs : i # j /\ jobs'[i] = jobs[i] /\ runs'[i] = runs[i] /\ audit'[i] = audit[i]
  BY <1>1 DEF Create, InsertJob, LedgerInv, LedgerTypeOK
<1> QED
  BY <1>1, <1>2 DEF OnlyJob, Grows, HistoryKept, NewJob

LEMMA TransitionFrame ==
  ASSUME LedgerInv, NEW j \in JobId, NEW a \in Status, NEW b \in Status, Transition(j, a, b)
  PROVE  /\ DOMAIN jobs' = DOMAIN jobs
         /\ OnlyJob(j)
         /\ Grows
         /\ \A i \in DOMAIN jobs : HistoryKept(i)
<1> DEFINE n == Len(runs[j])
<1>1. /\ j \in DOMAIN jobs /\ LatestRun(j) = n /\ n \in 1..n /\ SetStatus(j, n, a, b)
      /\ jobs[j] \in JobRow /\ runs[j] \in Seq(RunRow) /\ audit[j] \in Seq(AuditRow)
  BY JobFacts DEF Transition
<1>2. LedgerTypeOK
  BY DEF LedgerInv
<1>3. DOMAIN jobs' = DOMAIN jobs /\ OnlyJob(j)
  BY <1>1, <1>2 DEF SetStatus, LedgerTypeOK, OnlyJob
<1>4. /\ jobs'[j] = [jobs[j] EXCEPT !.status = b]
      /\ runs'[j] = [runs[j] EXCEPT ![n].status = b]
      /\ audit'[j] = Append(audit[j], TransitionedEvent(a, b, n))
  BY <1>1, <1>2 DEF SetStatus, LedgerTypeOK
<1>5. runs[j][n] \in RunRow /\ runs[j][n].status = a /\ n \in DOMAIN runs[j]
  BY <1>1 DEF Transition
<1>6. /\ DOMAIN runs'[j] = DOMAIN runs[j]
      /\ runs'[j][n] = [runs[j][n] EXCEPT !.status = b]
      /\ \A r \in DOMAIN runs[j] : r # n => runs'[j][r] = runs[j][r]
  BY <1>1, <1>4, <1>5
<1>7. /\ runs'[j][n].status = b
      /\ runs'[j][n].attempt = runs[j][n].attempt
      /\ runs'[j][n].max = runs[j][n].max
      /\ runs'[j][n].delay = runs[j][n].delay
  BY <1>5, <1>6 DEF RunRow
<1>8. /\ jobs'[j].tenant = jobs[j].tenant
      /\ jobs'[j].key = jobs[j].key
      /\ jobs'[j].work = jobs[j].work
  BY <1>1, <1>4 DEF JobRow
<1>9. TransitionedEvent(a, b, n) \in AuditRow
  BY <1>1 DEF TransitionedEvent, AuditRow
<1>10. \A i \in DOMAIN audit[j] : i \in DOMAIN audit'[j] /\ audit'[j][i] = audit[j][i]
  BY <1>1, <1>4, <1>9, AppendFacts
<1> HIDE DEF n
<1>11. Grows
  BY <1>3, <1>6, <1>7, <1>8 DEF Grows, OnlyJob
<1>12. HistoryKept(j)
  BY <1>1, <1>3, <1>5, <1>6, <1>7, <1>10 DEF HistoryKept, Transition
<1>13. \A i \in DOMAIN jobs \ {j} : HistoryKept(i)
  BY <1>3 DEF HistoryKept, OnlyJob
<1> QED
  BY <1>3, <1>11, <1>12, <1>13

LEMMA RetryFrame ==
  ASSUME LedgerInv, NEW j \in JobId, Retry(j)
  PROVE  /\ DOMAIN jobs' = DOMAIN jobs
         /\ OnlyJob(j)
         /\ Grows
         /\ \A i \in DOMAIN jobs : HistoryKept(i)
<1> DEFINE last == runs[j][LatestRun(j)]
           row == NewRun(last.attempt + 1, last.max, last.delay)
           e == RetryEvent(last.attempt, last.attempt + 1)
<1>1. /\ j \in DOMAIN jobs
      /\ jobs[j] \in JobRow /\ runs[j] \in Seq(RunRow) /\ audit[j] \in Seq(AuditRow)
      /\ InsertRetry(j, last.attempt, last.max, last.delay)
      /\ last \in RunRow
      /\ last.attempt < last.max
  BY JobFacts DEF Retry
<1>2. LedgerTypeOK
  BY DEF LedgerInv
<1>3. DOMAIN jobs' = DOMAIN jobs /\ OnlyJob(j)
  BY <1>1, <1>2 DEF InsertRetry, LedgerTypeOK, OnlyJob
<1>4. /\ jobs'[j] = [jobs[j] EXCEPT !.status = QUEUED]
      /\ runs'[j] = Append(runs[j], row)
      /\ audit'[j] = Append(audit[j], e)
  BY <1>1, <1>2 DEF InsertRetry, LedgerTypeOK
<1>5. row \in RunRow /\ e \in AuditRow
  BY <1>1, LedgerAssumption DEF NewRun, RunRow, RetryEvent, AuditRow, Status
<1>6. \A r \in DOMAIN runs[j] : r \in DOMAIN runs'[j] /\ runs'[j][r] = runs[j][r]
  BY <1>1, <1>4, <1>5, AppendFacts
<1>7. \A i \in DOMAIN audit[j] : i \in DOMAIN audit'[j] /\ audit'[j][i] = audit[j][i]
  BY <1>1, <1>4, <1>5, AppendFacts
<1>8. /\ jobs'[j].tenant = jobs[j].tenant
      /\ jobs'[j].key = jobs[j].key
      /\ jobs'[j].work = jobs[j].work
  BY <1>1, <1>4 DEF JobRow
<1>9. Grows
  BY <1>3, <1>6, <1>8 DEF Grows, OnlyJob
<1>10. \A i \in DOMAIN jobs : HistoryKept(i)
  BY <1>1, <1>3, <1>6, <1>7 DEF HistoryKept, OnlyJob
<1> QED
  BY <1>3, <1>9, <1>10
-------------------------------------------------------------------------------
(* What a step of one session leaves of the others *)

\* Only session s moves.
OnlySession(s) ==
  \A o \in Others(s) : pc'[o] = pc[o] /\ req'[o] = req[o] /\ seen'[o] = seen[o]

\* A session that does not move keeps its stable facts while the tables grow.
LEMMA StableKept ==
  ASSUME NEW o \in Session, Stable(o), Grows,
         LedgerInv, LedgerInv',
         pc'[o] = pc[o], req'[o] = req[o], seen'[o] = seen[o]
  PROVE  Stable(o)'
<1>1. \A j \in DOMAIN jobs : /\ j \in DOMAIN jobs'
                            /\ jobs'[j].tenant = jobs[j].tenant
                            /\ jobs'[j].key = jobs[j].key
  BY DEF Grows
<1>2. RowKnown(o) => RowKnown(o)'
  BY DEF RowKnown, Grows
<1>3. ASSUME NEW j \in DOMAIN jobs
      PROVE  /\ jobs'[j].work = jobs[j].work
             /\ runs'[j][1].max = runs[j][1].max
             /\ runs'[j][1].delay = runs[j][1].delay
  <2>1. 1 \in DOMAIN runs[j]
    BY JobFacts
  <2> QED
    BY <2>1 DEF Grows
<1>4. (pc[o] \in {"existing", "conflict"} =>
         \E j \in JobsWithKey(req[o].tenant, req[o].key) :
           pc[o] = "existing" <=> SameRequest(req[o], jobs[j], runs[j][1]))'
  BY <1>1, <1>3 DEF Stable, JobsWithKey, SameRequest
<1>5. (pc[o] = "winner" => JobsWithKey(req[o].tenant, req[o].key) # {})'
  BY <1>1 DEF Stable, JobsWithKey
<1>6. (pc[o] = "replay" => seen[o].job \in JobsWithKey(req[o].tenant, req[o].key))'
  BY <1>1 DEF Stable, JobsWithKey
<1>7. pc[o] = "read_run" =>
        seen[o].job \in DOMAIN jobs' /\ jobs'[seen[o].job].tenant = req[o].tenant
  BY DEF Stable, Grows
<1>8. pc[o] \in KnownLabels => RowKnown(o)'
  BY <1>2 DEF Stable
<1> QED
  BY <1>4, <1>5, <1>6, <1>7, <1>8 DEF Stable

\* A session that does not move keeps what it holds while its job is left alone.
LEMMA HeldKept ==
  ASSUME NEW o \in Session, Stable(o), Held(o), NEW j, OnlyJob(j),
         pc'[o] = pc[o], req'[o] = req[o], seen'[o] = seen[o],
         pc[o] \in KnownLabels \ {"cas_job"} => seen[o].job # j,
         pc[o] = "commit_create" =>
           /\ seen[o].job \notin DOMAIN jobs'
           /\ \A i \in DOMAIN jobs' :
                jobs'[i].tenant # req[o].tenant \/ jobs'[i].key # req[o].key
  PROVE  Held(o)'
<1>1. ASSUME pc[o] \in KnownLabels \ {"cas_job"}
      PROVE  jobs'[seen[o].job] = jobs[seen[o].job] /\ runs'[seen[o].job] = runs[seen[o].job]
  BY <1>1 DEF Stable, RowKnown, OnlyJob
<1>2. (pc[o] = "commit_retry" => ~AttemptTaken(seen[o].job, seen[o].row.attempt + 1))'
  BY <1>1 DEF Held, AttemptTaken, KnownLabels
<1>3. (pc[o] = "commit_create" =>
         /\ seen[o].job \in JobId \ DOMAIN jobs
         /\ JobsWithKey(req[o].tenant, req[o].key) = {})'
  BY DEF Held, JobsWithKey
<1>4. (/\ pc[o] \in {"cas_run", "commit_transition"} =>
            jobs[seen[o].job].status = req[o].expected
       /\ pc[o] \in {"insert_run", "commit_retry"} => jobs[seen[o].job].status = FAILED
       /\ pc[o] = "commit_transition" =>
            runs[seen[o].job][seen[o].run].status = req[o].expected)'
  BY <1>1 DEF Held, KnownLabels
<1> QED
  BY <1>2, <1>3, <1>4 DEF Held

\* A step that leaves the tables alone and moves one session.
LEMMA LocalStep ==
  ASSUME ServiceInv, NEW s \in Session, UNCHANGED ledgerVars, OnlySession(s),
         SessionTypeOK', Stable(s)', Held(s)',
         \A o \in Others(s) : Exclusive(s, o)'
  PROVE  ServiceInv'
<1>1. LedgerInv'
  BY LedgerStepInv DEF ServiceInv
<1>2. Grows /\ OnlyJob(None)
  BY DEF Grows, OnlyJob, ledgerVars
<1>3. \A o \in Others(s) : o \in Session
  BY DEF Others
<1>4. \A o \in Others(s) : Stable(o)' /\ Held(o)'
  <2> TAKE o \in Others(s)
  <2>1. Stable(o)'
    BY <1>1, <1>2, <1>3, StableKept DEF OnlySession, ServiceInv
  <2>2. /\ jobs' = jobs /\ runs' = runs
        /\ pc'[o] = pc[o] /\ req'[o] = req[o] /\ seen'[o] = seen[o] /\ Held(o)
    BY <1>3 DEF ledgerVars, OnlySession, ServiceInv
  <2>3. Held(o)'
    BY <2>2 DEF Held, AttemptTaken, JobsWithKey
  <2> QED
    BY <2>1, <2>3
<1>5. \A p \in Others(s) : \A o \in Others(p) : Exclusive(p, o)'
  <2> TAKE p \in Others(s)
  <2> TAKE o \in Others(p)
  <2>1. CASE o = s
    <3>1. Exclusive(s, p)'
      OBVIOUS
    <3> QED
      BY <2>1, <3>1 DEF Exclusive
  <2>2. CASE o # s
    <3>1. o \in Others(s) /\ Exclusive(p, o)
      BY <1>3, <2>2 DEF Others, ServiceInv
    <3> QED
      BY <3>1 DEF Exclusive, OnlySession
  <2> QED
    BY <2>1, <2>2
<1>6. \A o \in Session : o = s \/ o \in Others(s)
  BY DEF Others
<1> QED
  BY <1>1, <1>4, <1>5, <1>6 DEF ServiceInv

\* Refusal, abort and answer free the session.
LEMMA EndStep ==
  ASSUME ServiceInv, NEW s \in Session, End(s), UNCHANGED ledgerVars
  PROVE  ServiceInv'
<1>1. SessionTypeOK
  BY DEF ServiceInv
<1>2. /\ OnlySession(s)
      /\ pc'[s] = "idle"
  BY <1>1 DEF End, OnlySession, Others, SessionTypeOK
<1>3. SessionTypeOK'
  BY <1>1 DEF End, SessionTypeOK, Labels, Snapshot, NoSnapshot
<1>4. Stable(s)' /\ Held(s)' /\ \A o \in Others(s) : Exclusive(s, o)'
  BY <1>2 DEF Stable, Held, Exclusive, CreateLabels, JobLabels, KnownLabels
<1> QED
  BY <1>2, <1>3, <1>4, LocalStep
-------------------------------------------------------------------------------
(* The steps that change no table *)

\* A session that comes to hold nothing relies on nothing and excludes nobody.
LEMMA HoldsNothingNext ==
  ASSUME NEW s \in Session, pc'[s] \notin (KnownLabels \ {"cas_job"}) \cup {"commit_create"}
  PROVE  Held(s)' /\ \A o \in Others(s) : Exclusive(s, o)'
  BY DEF Held, Exclusive, KnownLabels

LEMMA ArriveStep ==
  ASSUME ServiceInv, NEW s \in Session, ArriveAny(s)
  PROVE  ServiceInv'
<1>1. SessionTypeOK
  BY DEF ServiceInv
<1>2. ASSUME NEW r \in CreateRequest, Arrive(s, r, "lookup")
      PROVE  ServiceInv'
  <2>1. OnlySession(s) /\ pc'[s] = "lookup" /\ req'[s] = r /\ UNCHANGED ledgerVars
    BY <1>1, <1>2 DEF Arrive, Goto, OnlySession, Others, SessionTypeOK, ledgerVars
  <2>2. SessionTypeOK'
    BY <1>1, <1>2 DEF Arrive, Goto, SessionTypeOK, Labels
  <2>3. Stable(s)'
    BY <2>1 DEF Stable, CreateLabels, JobLabels, KnownLabels
  <2>4. Held(s)' /\ \A o \in Others(s) : Exclusive(s, o)'
    BY <2>1, HoldsNothingNext DEF KnownLabels
  <2> QED
    BY <2>1, <2>2, <2>3, <2>4, LocalStep
<1>3. ASSUME NEW r \in TransitionRequest \cup RetryRequest, Arrive(s, r, "read_job"),
             r \in TransitionRequest => ValidTransition(r.expected, r.target)
      PROVE  ServiceInv'
  <2>1. OnlySession(s) /\ pc'[s] = "read_job" /\ req'[s] = r /\ UNCHANGED ledgerVars
    BY <1>1, <1>3 DEF Arrive, Goto, OnlySession, Others, SessionTypeOK, ledgerVars
  <2>2. SessionTypeOK'
    BY <1>1, <1>3 DEF Arrive, Goto, SessionTypeOK, Labels
  <2>3. Stable(s)'
    BY <1>3, <2>1 DEF Stable, CreateLabels, JobLabels, KnownLabels
  <2>4. Held(s)' /\ \A o \in Others(s) : Exclusive(s, o)'
    BY <2>1, HoldsNothingNext DEF KnownLabels
  <2> QED
    BY <2>1, <2>2, <2>3, <2>4, LocalStep
<1>4. \A r \in RetryRequest : r \notin TransitionRequest
  BY DEF RetryRequest, TransitionRequest
<1> QED
  BY <1>2, <1>3, <1>4 DEF ArriveAny, ArriveCreate, ArriveTransition, ArriveRetry

LEMMA LookupKeyStep ==
  ASSUME ServiceInv, NEW s \in Session, LookupKey(s)
  PROVE  ServiceInv'
<1>1. SessionTypeOK /\ Stable(s) /\ pc[s] = "lookup" /\ UNCHANGED ledgerVars
  BY DEF ServiceInv, LookupKey
<1>2. req[s] \in CreateRequest
  BY <1>1 DEF Stable, CreateLabels
<1>3. ASSUME NEW j \in JobsWithKey(req[s].tenant, req[s].key),
             seen' = [seen EXCEPT ![s].job = j], Goto(s, "replay"), UNCHANGED req
      PROVE  ServiceInv'
  <2>1. OnlySession(s) /\ pc'[s] = "replay" /\ req'[s] = req[s] /\ seen'[s].job = j
    BY <1>1, <1>3 DEF Goto, OnlySession, Others, SessionTypeOK, Snapshot
  <2>2. j \in JobId
    BY <1>3 DEF JobsWithKey, ServiceInv, LedgerInv, LedgerTypeOK
  <2>3. SessionTypeOK'
    BY <1>1, <1>3, <2>2 DEF Goto, SessionTypeOK, Labels, Snapshot
  <2>4. Stable(s)'
    BY <1>1, <1>2, <1>3, <2>1
    DEF Stable, CreateLabels, JobLabels, KnownLabels, JobsWithKey, ledgerVars
  <2>5. Held(s)' /\ \A o \in Others(s) : Exclusive(s, o)'
    BY <2>1, HoldsNothingNext DEF KnownLabels
  <2> QED
    BY <1>1, <2>1, <2>3, <2>4, <2>5, LocalStep
<1>4. ASSUME OwnerOf[req[s].work] = req[s].tenant, Goto(s, "insert_job"), UNCHANGED <<req, seen>>
      PROVE  ServiceInv'
  <2>1. OnlySession(s) /\ pc'[s] = "insert_job" /\ req'[s] = req[s]
    BY <1>1, <1>4 DEF Goto, OnlySession, Others, SessionTypeOK
  <2>2. SessionTypeOK'
    BY <1>1, <1>4 DEF Goto, SessionTypeOK, Labels
  <2>3. Stable(s)'
    BY <1>2, <1>4, <2>1 DEF Stable, CreateLabels, JobLabels, KnownLabels
  <2>4. Held(s)' /\ \A o \in Others(s) : Exclusive(s, o)'
    BY <2>1, HoldsNothingNext DEF KnownLabels
  <2> QED
    BY <1>1, <2>1, <2>2, <2>3, <2>4, LocalStep
<1> QED
  BY <1>1, <1>3, <1>4, EndStep DEF LookupKey

LEMMA InsertJobRowStep ==
  ASSUME ServiceInv, NEW s \in Session, InsertJobRow(s)
  PROVE  ServiceInv'
<1>1. /\ SessionTypeOK /\ Stable(s) /\ pc[s] = "insert_job"
      /\ UNCHANGED ledgerVars /\ req' = req
      /\ \A o \in Others(s) : ~InsertsKey(o, req[s].tenant, req[s].key)
  BY DEF ServiceInv, InsertJobRow, ledgerVars
<1>2. req[s] \in CreateRequest /\ OwnerOf[req[s].work] = req[s].tenant
  BY <1>1 DEF Stable, CreateLabels
<1>3. CASE JobsWithKey(req[s].tenant, req[s].key) # {}
  <2>1. OnlySession(s) /\ pc'[s] = "winner" /\ seen' = seen
    BY <1>1, <1>3 DEF InsertJobRow, Goto, OnlySession, Others, SessionTypeOK
  <2>2. SessionTypeOK'
    BY <1>1, <1>3 DEF InsertJobRow, Goto, SessionTypeOK, Labels
  <2>3. Stable(s)'
    BY <1>1, <1>2, <1>3, <2>1
    DEF Stable, CreateLabels, JobLabels, KnownLabels, JobsWithKey, ledgerVars
  <2>4. Held(s)' /\ \A o \in Others(s) : Exclusive(s, o)'
    BY <2>1, HoldsNothingNext DEF KnownLabels
  <2> QED
    BY <1>1, <2>1, <2>2, <2>3, <2>4, LocalStep
<1>4. CASE JobsWithKey(req[s].tenant, req[s].key) = {}
  <2>1. PICK j \in JobId \ DOMAIN jobs :
          /\ \A o \in Session : seen[o].job # j
          /\ seen' = [seen EXCEPT ![s].job = j]
    BY <1>4 DEF InsertJobRow
  <2>2. OnlySession(s) /\ pc'[s] = "commit_create" /\ seen'[s].job = j
    BY <1>1, <1>4, <2>1 DEF InsertJobRow, Goto, OnlySession, Others, SessionTypeOK, Snapshot
  <2>3. SessionTypeOK'
    BY <1>1, <1>4, <2>1 DEF InsertJobRow, Goto, SessionTypeOK, Labels, Snapshot
  <2>4. Stable(s)'
    BY <1>1, <1>2, <2>2 DEF Stable, CreateLabels, JobLabels, KnownLabels
  <2>5. Held(s)'
    BY <1>1, <1>4, <2>1, <2>2 DEF Held, JobsWithKey, ledgerVars
  <2>6. \A o \in Others(s) : Exclusive(s, o)'
    BY <1>1, <2>1, <2>2 DEF Exclusive, InsertsKey, OnlySession, Others, KnownLabels
  <2> QED
    BY <1>1, <2>2, <2>3, <2>4, <2>5, <2>6, LocalStep
<1> QED
  BY <1>3, <1>4

LEMMA LookupWinnerStep ==
  ASSUME ServiceInv, NEW s \in Session, LookupWinner(s)
  PROVE  ServiceInv'
<1>1. /\ SessionTypeOK /\ Stable(s) /\ pc[s] = "winner"
      /\ UNCHANGED ledgerVars /\ req' = req
  BY DEF ServiceInv, LookupWinner, ledgerVars
<1>2. req[s] \in CreateRequest /\ JobsWithKey(req[s].tenant, req[s].key) # {}
  BY <1>1 DEF Stable, CreateLabels
<1>3. PICK j \in JobsWithKey(req[s].tenant, req[s].key) :
        seen' = [seen EXCEPT ![s].job = j] /\ Goto(s, "replay")
  BY <1>2 DEF LookupWinner
<1>4. OnlySession(s) /\ pc'[s] = "replay" /\ seen'[s].job = j
  BY <1>1, <1>3 DEF Goto, OnlySession, Others, SessionTypeOK, Snapshot
<1>5. j \in JobId
  BY <1>3 DEF JobsWithKey, ServiceInv, LedgerInv, LedgerTypeOK
<1>6. SessionTypeOK'
  BY <1>1, <1>3, <1>5 DEF Goto, SessionTypeOK, Labels, Snapshot
<1>7. Stable(s)'
  BY <1>1, <1>2, <1>3, <1>4
  DEF Stable, CreateLabels, JobLabels, KnownLabels, JobsWithKey, ledgerVars
<1>8. Held(s)' /\ \A o \in Others(s) : Exclusive(s, o)'
  BY <1>4, HoldsNothingNext DEF KnownLabels
<1> QED
  BY <1>1, <1>4, <1>6, <1>7, <1>8, LocalStep
LEMMA ReplayStep ==
  ASSUME ServiceInv, NEW s \in Session, Replay(s)
  PROVE  ServiceInv'
<1> DEFINE j == seen[s].job
           r == LatestRun(j)
<1>1. /\ SessionTypeOK /\ Stable(s) /\ LedgerInv /\ pc[s] = "replay"
      /\ UNCHANGED ledgerVars /\ req' = req
      /\ seen' = [seen EXCEPT ![s].run = r]
  BY DEF ServiceInv, Replay, ledgerVars
<1>2. req[s] \in CreateRequest /\ j \in JobsWithKey(req[s].tenant, req[s].key)
  BY <1>1 DEF Stable, CreateLabels
<1>3. j \in DOMAIN jobs
  BY <1>2 DEF JobsWithKey
<1>4. r \in DOMAIN runs[j] /\ r \in Nat
  BY <1>1, <1>3, JobFacts
<1>5. runs[j][r].max = runs[j][1].max /\ runs[j][r].delay = runs[j][1].delay
  BY <1>1, <1>3, <1>4 DEF LedgerInv, AttemptHistory
<1>6. SameRequest(req[s], jobs[j], runs[j][r]) <=> SameRequest(req[s], jobs[j], runs[j][1])
  BY <1>5 DEF SameRequest
<1>7. pc' = [pc EXCEPT ![s] = IF SameRequest(req[s], jobs[j], runs[j][r])
                               THEN "existing" ELSE "conflict"]
  BY DEF Replay, Goto
<1>8. /\ OnlySession(s)
      /\ pc'[s] = IF SameRequest(req[s], jobs[j], runs[j][1]) THEN "existing" ELSE "conflict"
  BY <1>1, <1>6, <1>7 DEF OnlySession, Others, SessionTypeOK
<1>9. SessionTypeOK'
  BY <1>1, <1>4, <1>7 DEF SessionTypeOK, Labels, Answers, Snapshot
<1> HIDE DEF j, r
<1>10. Stable(s)'
  <2>1. (\E i \in JobsWithKey(req[s].tenant, req[s].key) :
           pc[s] = "existing" <=> SameRequest(req[s], jobs[i], runs[i][1]))'
    BY <1>1, <1>2, <1>8 DEF JobsWithKey, SameRequest, ledgerVars
  <2> QED
    BY <1>1, <1>2, <1>8, <2>1 DEF Stable, CreateLabels, JobLabels, KnownLabels
<1>11. Held(s)' /\ \A o \in Others(s) : Exclusive(s, o)'
  BY <1>8, HoldsNothingNext DEF KnownLabels
<1> QED
  BY <1>1, <1>8, <1>9, <1>10, <1>11, LocalStep

LEMMA ReadJobStep ==
  ASSUME ServiceInv, NEW s \in Session, ReadJob(s)
  PROVE  ServiceInv'
<1> DEFINE j == req[s].job
<1>1. /\ SessionTypeOK /\ Stable(s) /\ LedgerInv /\ pc[s] = "read_job"
      /\ UNCHANGED ledgerVars
  BY DEF ServiceInv, ReadJob
<1>2. /\ req[s] \in TransitionRequest \cup RetryRequest
      /\ req[s] \in TransitionRequest => ValidTransition(req[s].expected, req[s].target)
  BY <1>1 DEF Stable, JobLabels
<1>3. CASE Owned(req[s].tenant, j)
  <2>1. /\ seen' = [seen EXCEPT ![s].job = j, ![s].status = jobs[j].status]
        /\ pc' = [pc EXCEPT ![s] = "read_run"] /\ req' = req
    BY <1>3 DEF ReadJob, Goto
  <2>2. j \in JobId /\ j \in DOMAIN jobs /\ jobs[j].tenant = req[s].tenant
    BY <1>1, <1>3 DEF Owned, LedgerInv, LedgerTypeOK
  <2>3. jobs[j].status \in Status
    BY <1>1, <2>2 DEF LedgerInv, LedgerTypeOK, JobRow
  <2>4. OnlySession(s) /\ pc'[s] = "read_run" /\ seen'[s].job = j
    BY <1>1, <2>1 DEF OnlySession, Others, SessionTypeOK, Snapshot
  <2>5. SessionTypeOK'
    BY <1>1, <2>1, <2>2, <2>3 DEF SessionTypeOK, Labels, Snapshot
  <2>6. Stable(s)'
    BY <1>1, <1>2, <2>1, <2>2, <2>4
    DEF Stable, CreateLabels, JobLabels, KnownLabels, ledgerVars
  <2>7. Held(s)' /\ \A o \in Others(s) : Exclusive(s, o)'
    BY <2>4, HoldsNothingNext DEF KnownLabels
  <2> QED
    BY <1>1, <2>4, <2>5, <2>6, <2>7, LocalStep
<1> QED
  BY <1>1, <1>3, EndStep DEF ReadJob

LEMMA ReadRunStep ==
  ASSUME ServiceInv, NEW s \in Session, ReadRun(s)
  PROVE  ServiceInv'
<1> DEFINE j == seen[s].job
           r == LatestRun(j)
           row == runs[j][r]
           Passed == \/ req[s].op = "transition" /\ TransitionExpected(req[s], seen[s].status, row)
                     \/ req[s].op = "retry" /\ RetryExpected(req[s], seen[s].status, row)
<1>1. /\ SessionTypeOK /\ Stable(s) /\ LedgerInv /\ pc[s] = "read_run"
      /\ UNCHANGED ledgerVars
  BY DEF ServiceInv, ReadRun
<1>2. /\ req[s] \in TransitionRequest \cup RetryRequest
      /\ req[s] \in TransitionRequest => ValidTransition(req[s].expected, req[s].target)
      /\ j \in DOMAIN jobs /\ jobs[j].tenant = req[s].tenant
  BY <1>1 DEF Stable, JobLabels
<1>3. CASE Passed
  <2>1. /\ seen' = [seen EXCEPT ![s].run = r, ![s].row = row]
        /\ pc' = [pc EXCEPT ![s] = "cas_job"] /\ req' = req
    BY <1>3 DEF ReadRun, Goto
  <2>2. r \in DOMAIN runs[j] /\ r \in Nat /\ row \in RunRow
    BY <1>1, <1>2, JobFacts
  <2>3. req[s] \in RetryRequest => row.status = FAILED /\ row.attempt < row.max
    BY <1>3 DEF RetryRequest, RetryExpected
  <2>4. /\ OnlySession(s) /\ pc'[s] = "cas_job"
        /\ seen'[s].job = j /\ seen'[s].run = r /\ seen'[s].row = row
    BY <1>1, <2>1 DEF OnlySession, Others, SessionTypeOK, Snapshot
  <2>5. SessionTypeOK'
    BY <1>1, <2>1, <2>2 DEF SessionTypeOK, Labels, Snapshot
  <2> HIDE DEF j, r, row
  <2>6. RowKnown(s)'
    BY <1>1, <1>2, <2>1, <2>2, <2>4 DEF RowKnown, ledgerVars, row
  <2>7. Stable(s)'
    BY <1>2, <2>1, <2>3, <2>4, <2>6 DEF Stable, CreateLabels, JobLabels, KnownLabels
  <2>8. Held(s)' /\ \A o \in Others(s) : Exclusive(s, o)'
    BY <2>4, HoldsNothingNext DEF KnownLabels
  <2> QED
    BY <1>1, <2>4, <2>5, <2>7, <2>8, LocalStep
<1> QED
  BY <1>1, <1>3, EndStep DEF ReadRun

\* A statement that only moves a session on, within the labels past the reads.
LEMMA AdvanceStep ==
  ASSUME ServiceInv, NEW s \in Session, NEW l \in KnownLabels,
         pc[s] \in KnownLabels, pc' = [pc EXCEPT ![s] = l],
         UNCHANGED <<req, seen>>, UNCHANGED ledgerVars,
         l \in {"cas_run", "commit_transition"} => req[s] \in TransitionRequest,
         l \in {"insert_run", "commit_retry"} => req[s] \in RetryRequest,
         Held(s)', \A o \in Others(s) : Exclusive(s, o)'
  PROVE  ServiceInv'
<1>1. SessionTypeOK /\ Stable(s)
  BY DEF ServiceInv
<1>2. /\ OnlySession(s) /\ pc'[s] = l
  BY <1>1 DEF OnlySession, Others, SessionTypeOK
<1>3. SessionTypeOK'
  BY <1>1 DEF SessionTypeOK, KnownLabels, Labels
<1>4. RowKnown(s)'
  BY <1>1 DEF Stable, RowKnown, ledgerVars
<1>5. Stable(s)'
  BY <1>1, <1>2, <1>4 DEF Stable, CreateLabels, JobLabels, KnownLabels
<1> QED
  BY <1>2, <1>3, <1>5, LocalStep

LEMMA CasJobStep ==
  ASSUME ServiceInv, NEW s \in Session, CasJob(s)
  PROVE  ServiceInv'
<1>1. SessionTypeOK /\ Stable(s) /\ pc[s] = "cas_job" /\ UNCHANGED ledgerVars
  BY DEF ServiceInv, CasJob
<1>2. req[s] \in TransitionRequest \cup RetryRequest
  BY <1>1 DEF Stable, JobLabels
<1>3. ASSUME CasJobMatches(s), \A o \in Others(s) : ~LocksJob(o, seen[s].job),
             Goto(s, IF req[s].op = "retry" THEN "insert_run" ELSE "cas_run"),
             UNCHANGED <<req, seen>>
      PROVE  ServiceInv'
  <2> DEFINE l == IF req[s].op = "retry" THEN "insert_run" ELSE "cas_run"
  <2>1. /\ pc' = [pc EXCEPT ![s] = l] /\ pc'[s] = l /\ l \in KnownLabels
        /\ l = "insert_run" => req[s] \in RetryRequest /\ jobs[seen[s].job].status = FAILED
        /\ l = "cas_run" => /\ req[s] \in TransitionRequest
                            /\ jobs[seen[s].job].status = req[s].expected
    BY <1>1, <1>2, <1>3
    DEF Goto, SessionTypeOK, KnownLabels, RetryRequest, TransitionRequest,
        CasJobMatches, ExpectedStatus
  <2>2. l \in {"insert_run", "cas_run"}
    OBVIOUS
  <2> HIDE DEF l
  <2>3. Held(s)'
    BY <1>1, <1>3, <2>1, <2>2 DEF Held, ledgerVars
  <2>4. \A o \in Others(s) : pc'[o] = pc[o] /\ ~LocksJob(o, seen[s].job)
    BY <1>1, <1>3, <2>1 DEF Others, SessionTypeOK
  <2>5. \A o \in Others(s) : Exclusive(s, o)'
    BY <1>3, <2>1, <2>2, <2>4 DEF Exclusive, LocksJob, KnownLabels
  <2>6. pc[s] \in KnownLabels
    BY <1>1 DEF KnownLabels
  <2> QED
    BY <1>1, <1>3, <2>1, <2>2, <2>3, <2>5, <2>6, AdvanceStep
<1> QED
  BY <1>1, <1>3, EndStep DEF CasJob

LEMMA CasRunStep ==
  ASSUME ServiceInv, NEW s \in Session, CasRun(s)
  PROVE  ServiceInv'
<1>1. SessionTypeOK /\ Stable(s) /\ Held(s) /\ pc[s] = "cas_run" /\ UNCHANGED ledgerVars
  BY DEF ServiceInv, CasRun
<1>2. ASSUME CasRunMatches(s), Goto(s, "commit_transition"), UNCHANGED <<req, seen>>
      PROVE  ServiceInv'
  <2>1. /\ pc' = [pc EXCEPT ![s] = "commit_transition"] /\ pc'[s] = "commit_transition"
        /\ req[s] \in TransitionRequest
    BY <1>1, <1>2 DEF Goto, SessionTypeOK, Stable
  <2>2. Held(s)'
    BY <1>1, <1>2, <2>1 DEF Held, CasRunMatches, ledgerVars
  <2>3. \A o \in Others(s) : pc'[o] = pc[o] /\ Exclusive(s, o)
    BY <1>1, <2>1 DEF Others, SessionTypeOK, ServiceInv
  <2>4. \A o \in Others(s) : Exclusive(s, o)'
    BY <1>1, <1>2, <2>1, <2>3 DEF Exclusive, KnownLabels
  <2>5. pc[s] \in KnownLabels /\ "commit_transition" \in KnownLabels
    BY <1>1 DEF KnownLabels
  <2> QED
    BY <1>1, <1>2, <2>1, <2>2, <2>4, <2>5, AdvanceStep
<1> QED
  BY <1>1, <1>2, EndStep DEF CasRun

LEMMA InsertRunStep ==
  ASSUME ServiceInv, NEW s \in Session, InsertRun(s)
  PROVE  ServiceInv'
<1>1. SessionTypeOK /\ Stable(s) /\ Held(s) /\ pc[s] = "insert_run" /\ UNCHANGED ledgerVars
  BY DEF ServiceInv, InsertRun
<1>2. ASSUME ~AttemptTaken(seen[s].job, seen[s].row.attempt + 1), Goto(s, "commit_retry"),
             UNCHANGED <<req, seen>>
      PROVE  ServiceInv'
  <2>1. /\ pc' = [pc EXCEPT ![s] = "commit_retry"] /\ pc'[s] = "commit_retry"
        /\ req[s] \in RetryRequest
    BY <1>1, <1>2 DEF Goto, SessionTypeOK, Stable
  <2>2. Held(s)'
    BY <1>1, <1>2, <2>1 DEF Held, AttemptTaken, ledgerVars
  <2>3. \A o \in Others(s) : pc'[o] = pc[o] /\ Exclusive(s, o)
    BY <1>1, <2>1 DEF Others, SessionTypeOK, ServiceInv
  <2>4. \A o \in Others(s) : Exclusive(s, o)'
    BY <1>1, <1>2, <2>1, <2>3 DEF Exclusive, KnownLabels
  <2>5. pc[s] \in KnownLabels /\ "commit_retry" \in KnownLabels
    BY <1>1 DEF KnownLabels
  <2> QED
    BY <1>1, <1>2, <2>1, <2>2, <2>4, <2>5, AdvanceStep
<1> QED
  BY <1>1, <1>2, EndStep DEF InsertRun
-------------------------------------------------------------------------------
(* The commits: each one is an operation of the ledger *)

\* A transition commits on the latest run: the run it holds is not failed (no edge
\* leaves failed), and every run but the latest is.
LEMMA TransitionCommitsLatest ==
  ASSUME ServiceInv, NEW s \in Session, pc[s] = "commit_transition"
  PROVE  /\ seen[s].job \in DOMAIN jobs
         /\ jobs[seen[s].job].status = req[s].expected
         /\ runs[seen[s].job][seen[s].run].status = req[s].expected
         /\ seen[s].run = LatestRun(seen[s].job)
         /\ req[s].expected \in Status /\ req[s].target \in Status
         /\ ValidTransition(req[s].expected, req[s].target)
<1> DEFINE j == seen[s].job
<1>1. LedgerInv /\ Stable(s) /\ Held(s)
  BY DEF ServiceInv
<1>2. RowKnown(s) /\ req[s] \in TransitionRequest
  BY <1>1 DEF Stable, KnownLabels
<1>3. req[s].expected \in Status /\ req[s].target \in Status
  BY <1>2 DEF TransitionRequest
<1>4. ValidTransition(req[s].expected, req[s].target)
  BY <1>1, <1>2 DEF Stable, JobLabels
<1>5. req[s].expected # FAILED
  BY <1>3, <1>4
  DEF ValidTransition, ALLOWED_TRANSITIONS, Status, TERMINAL_STATUSES, QUEUED, RUNNING,
      AWAITING_APPROVAL, APPROVED, REJECTED, SUCCEEDED, FAILED, CANCELLED
<1>6. runs[j][seen[s].run].status = req[s].expected /\ jobs[j].status = req[s].expected
  BY <1>1 DEF Held
<1>7. j \in DOMAIN jobs /\ seen[s].run \in DOMAIN runs[j]
  BY <1>2 DEF RowKnown
<1>8. seen[s].run < Len(runs[j]) => runs[j][seen[s].run].status = FAILED
  BY <1>1, <1>7 DEF LedgerInv, AttemptHistory
<1>9. runs[j] \in Seq(RunRow) /\ LatestRun(j) = Len(runs[j])
  BY <1>1, <1>7, JobFacts
<1>10. seen[s].run = LatestRun(j)
  BY <1>5, <1>6, <1>7, <1>8, <1>9
<1> QED
  BY <1>3, <1>4, <1>6, <1>7, <1>10

\* A retry commits after the latest run: the attempt after the one it read is not
\* in the table, so no later attempt is.
LEMMA RetryCommitsLatest ==
  ASSUME ServiceInv, NEW s \in Session, pc[s] = "commit_retry"
  PROVE  /\ seen[s].job \in DOMAIN jobs
         /\ jobs[seen[s].job].status = FAILED
         /\ seen[s].row = runs[seen[s].job][LatestRun(seen[s].job)]
         /\ seen[s].row.status = FAILED
         /\ seen[s].row.attempt < seen[s].row.max
<1> DEFINE j == seen[s].job
           r == seen[s].run
<1>1. LedgerInv /\ Stable(s) /\ Held(s)
  BY DEF ServiceInv
<1>2. RowKnown(s) /\ req[s] \in RetryRequest
  BY <1>1 DEF Stable, KnownLabels
<1>3. seen[s].row.status = FAILED /\ seen[s].row.attempt < seen[s].row.max
  BY <1>1, <1>2 DEF Stable, KnownLabels
<1>4. jobs[j].status = FAILED /\ ~AttemptTaken(j, seen[s].row.attempt + 1)
  BY <1>1 DEF Held
<1>5. /\ j \in DOMAIN jobs /\ r \in DOMAIN runs[j] /\ seen[s].row \in RunRow
      /\ seen[s].row.attempt = runs[j][r].attempt
      /\ seen[s].row.max = runs[j][r].max
      /\ seen[s].row.delay = runs[j][r].delay
  BY <1>2 DEF RowKnown
<1>6. /\ runs[j] \in Seq(RunRow) /\ LatestRun(j) = Len(runs[j])
      /\ jobs[j].status = runs[j][Len(runs[j])].status
  BY <1>1, <1>5, JobFacts
<1>7. \A q \in DOMAIN runs[j] : runs[j][q].attempt = q
  BY <1>1, <1>5 DEF LedgerInv, AttemptHistory
<1>8. r = Len(runs[j])
  <2>1. r + 1 \notin DOMAIN runs[j]
    BY <1>4, <1>5, <1>7 DEF AttemptTaken
  <2> QED
    BY <1>5, <1>6, <2>1
<1>9. runs[j][r] \in RunRow /\ runs[j][r].status = FAILED
  BY <1>4, <1>5, <1>6, <1>8
<1>10. seen[s].row = runs[j][r]
  BY <1>3, <1>5, <1>9 DEF RunRow
<1> QED
  BY <1>3, <1>4, <1>5, <1>6, <1>8, <1>10

\* Each commit is the ledger operation of the same name.
LEMMA CommitTransitionRefines ==
  ASSUME ServiceInv, NEW s \in Session, CommitTransition(s)
  PROVE  /\ seen[s].job \in JobId /\ req[s].expected \in Status /\ req[s].target \in Status
         /\ Transition(seen[s].job, req[s].expected, req[s].target)
<1>1. pc[s] = "commit_transition"
      /\ SetStatus(seen[s].job, seen[s].run, req[s].expected, req[s].target)
  BY DEF CommitTransition
<1>2. seen[s].job \in DOMAIN jobs => seen[s].job \in JobId
  BY DEF ServiceInv, LedgerInv, LedgerTypeOK
<1> QED
  BY <1>1, <1>2, TransitionCommitsLatest DEF Transition

LEMMA CommitRetryRefines ==
  ASSUME ServiceInv, NEW s \in Session, CommitRetry(s)
  PROVE  seen[s].job \in JobId /\ Retry(seen[s].job)
<1>1. pc[s] = "commit_retry"
      /\ InsertRetry(seen[s].job, seen[s].row.attempt, seen[s].row.max, seen[s].row.delay)
  BY DEF CommitRetry
<1>2. seen[s].job \in DOMAIN jobs => seen[s].job \in JobId
  BY DEF ServiceInv, LedgerInv, LedgerTypeOK
<1> QED
  BY <1>1, <1>2, RetryCommitsLatest DEF Retry

LEMMA CommitCreateRefines ==
  ASSUME ServiceInv, NEW s \in Session, CommitCreate(s)
  PROVE  /\ req[s] \in CreateRequest /\ seen[s].job \in JobId
         /\ Create(seen[s].job, req[s].tenant, req[s].key, req[s].work, req[s].max, req[s].delay)
<1>1. pc[s] = "commit_create" /\ Stable(s) /\ Held(s)
  BY DEF CommitCreate, ServiceInv
<1>2. req[s] \in CreateRequest /\ OwnerOf[req[s].work] = req[s].tenant
  BY <1>1 DEF Stable, CreateLabels
<1>3. /\ seen[s].job \in JobId \ DOMAIN jobs
      /\ JobsWithKey(req[s].tenant, req[s].key) = {}
  BY <1>1 DEF Held
<1> QED
  BY <1>2, <1>3 DEF CommitCreate, Create

\* After a commit on job j every other session still stands on its facts.
LEMMA CommitStep ==
  ASSUME ServiceInv, NEW s \in Session, NEW j, LedgerInv', Grows, OnlyJob(j),
         OnlySession(s), SessionTypeOK', pc'[s] \in {"created", "applied"},
         \A o \in Others(s) :
           /\ pc[o] \in KnownLabels \ {"cas_job"} => seen[o].job # j
           /\ pc[o] = "commit_create" =>
                /\ seen[o].job \notin DOMAIN jobs'
                /\ \A i \in DOMAIN jobs' :
                     jobs'[i].tenant # req[o].tenant \/ jobs'[i].key # req[o].key
  PROVE  ServiceInv'
<1>1. Stable(s)' /\ Held(s)' /\ \A o \in Others(s) : Exclusive(s, o)' /\ Exclusive(o, s)'
  BY DEF Stable, Held, Exclusive, CreateLabels, JobLabels, KnownLabels
<1>2. \A o \in Others(s) : o \in Session
  BY DEF Others
<1>3. \A o \in Others(s) : Stable(o)' /\ Held(o)'
  <2> TAKE o \in Others(s)
  <2>1. LedgerInv /\ Stable(o) /\ Held(o)
    BY <1>2 DEF ServiceInv
  <2>2. pc'[o] = pc[o] /\ req'[o] = req[o] /\ seen'[o] = seen[o]
    BY DEF OnlySession
  <2> QED
    BY <1>2, <2>1, <2>2, StableKept, HeldKept
<1>4. \A p \in Others(s) : \A o \in Others(p) : Exclusive(p, o)'
  <2> TAKE p \in Others(s)
  <2> TAKE o \in Others(p)
  <2>1. CASE o = s
    BY <1>1, <2>1
  <2>2. CASE o # s
    <3>1. o \in Others(s) /\ Exclusive(p, o)
      BY <1>2, <2>2 DEF Others, ServiceInv
    <3> QED
      BY <3>1 DEF Exclusive, OnlySession
  <2> QED
    BY <2>1, <2>2
<1>5. \A o \in Session : o = s \/ o \in Others(s)
  BY DEF Others
<1> QED
  BY <1>1, <1>3, <1>4, <1>5 DEF ServiceInv

\* The session of a commit moves to its answer and nothing else moves.
LEMMA AnswerMoves ==
  ASSUME SessionTypeOK, NEW s \in Session, NEW l \in {"created", "applied"},
         Goto(s, l), UNCHANGED <<req, seen>>
  PROVE  SessionTypeOK' /\ OnlySession(s) /\ pc'[s] \in {"created", "applied"}
  BY DEF Goto, SessionTypeOK, OnlySession, Others, Labels, Answers

LEMMA CommitTransitionStep ==
  ASSUME ServiceInv, NEW s \in Session, CommitTransition(s)
  PROVE  ServiceInv'
<1> DEFINE j == seen[s].job
<1>1. LedgerInv /\ SessionTypeOK /\ pc[s] = "commit_transition"
  BY DEF ServiceInv, CommitTransition
<1>2. /\ j \in JobId /\ req[s].expected \in Status /\ req[s].target \in Status
      /\ Transition(j, req[s].expected, req[s].target)
  BY CommitTransitionRefines
<1>3. LedgerInv'
  BY <1>1, <1>2, TransitionInv
<1>4. DOMAIN jobs' = DOMAIN jobs /\ OnlyJob(j) /\ Grows
  BY <1>1, <1>2, TransitionFrame
<1>5. SessionTypeOK' /\ OnlySession(s) /\ pc'[s] \in {"created", "applied"}
  BY <1>1, AnswerMoves DEF CommitTransition
<1>6. \A o \in Others(s) : pc[o] \in KnownLabels \ {"cas_job"} => seen[o].job # j
  BY <1>1 DEF ServiceInv, Exclusive, KnownLabels
<1>7. ASSUME NEW o \in Others(s), pc[o] = "commit_create"
      PROVE  /\ seen[o].job \notin DOMAIN jobs'
             /\ \A i \in DOMAIN jobs' :
                  jobs'[i].tenant # req[o].tenant \/ jobs'[i].key # req[o].key
  BY <1>4, <1>7 DEF ServiceInv, Held, Others, JobsWithKey, Grows
<1> QED
  BY <1>3, <1>4, <1>5, <1>6, <1>7, CommitStep

LEMMA CommitRetryStep ==
  ASSUME ServiceInv, NEW s \in Session, CommitRetry(s)
  PROVE  ServiceInv'
<1> DEFINE j == seen[s].job
<1>1. LedgerInv /\ SessionTypeOK /\ pc[s] = "commit_retry"
  BY DEF ServiceInv, CommitRetry
<1>2. j \in JobId /\ Retry(j)
  BY CommitRetryRefines
<1>3. LedgerInv'
  BY <1>1, <1>2, RetryInv
<1>4. DOMAIN jobs' = DOMAIN jobs /\ OnlyJob(j) /\ Grows
  BY <1>1, <1>2, RetryFrame
<1>5. SessionTypeOK' /\ OnlySession(s) /\ pc'[s] \in {"created", "applied"}
  BY <1>1, AnswerMoves DEF CommitRetry
<1>6. \A o \in Others(s) : pc[o] \in KnownLabels \ {"cas_job"} => seen[o].job # j
  BY <1>1 DEF ServiceInv, Exclusive, KnownLabels
<1>7. ASSUME NEW o \in Others(s), pc[o] = "commit_create"
      PROVE  /\ seen[o].job \notin DOMAIN jobs'
             /\ \A i \in DOMAIN jobs' :
                  jobs'[i].tenant # req[o].tenant \/ jobs'[i].key # req[o].key
  BY <1>4, <1>7 DEF ServiceInv, Held, Others, JobsWithKey, Grows
<1> QED
  BY <1>3, <1>4, <1>5, <1>6, <1>7, CommitStep

LEMMA CommitCreateStep ==
  ASSUME ServiceInv, NEW s \in Session, CommitCreate(s)
  PROVE  ServiceInv'
<1> DEFINE j == seen[s].job
           r == req[s]
<1>1. LedgerInv /\ SessionTypeOK /\ pc[s] = "commit_create"
  BY DEF ServiceInv, CommitCreate
<1>2. r \in CreateRequest /\ j \in JobId /\ Create(j, r.tenant, r.key, r.work, r.max, r.delay)
  BY CommitCreateRefines
<1>3. /\ r.tenant \in Tenant /\ r.key \in IdempotencyKey /\ r.work \in Workload
      /\ r.max \in 1..AttemptLimit /\ r.delay \in Delay
  BY <1>2 DEF CreateRequest
<1>4. LedgerInv'
  BY <1>1, <1>2, <1>3, CreateInv
<1>5. /\ DOMAIN jobs' = DOMAIN jobs \cup {j} /\ OnlyJob(j) /\ Grows
      /\ jobs'[j].tenant = r.tenant /\ jobs'[j].key = r.key
      /\ j \notin DOMAIN jobs
  BY <1>1, <1>2, <1>3, CreateFrame DEF Create
<1>6. SessionTypeOK' /\ OnlySession(s) /\ pc'[s] \in {"created", "applied"}
  BY <1>1, AnswerMoves DEF CommitCreate
<1>7. \A o \in Others(s) : pc[o] \in KnownLabels \ {"cas_job"} => seen[o].job # j
  BY <1>5 DEF ServiceInv, Stable, RowKnown, Others
<1>8. ASSUME NEW o \in Others(s), pc[o] = "commit_create"
      PROVE  /\ seen[o].job \notin DOMAIN jobs'
             /\ \A i \in DOMAIN jobs' :
                  jobs'[i].tenant # req[o].tenant \/ jobs'[i].key # req[o].key
  <2>1. /\ seen[o].job # j
        /\ r.tenant # req[o].tenant \/ r.key # req[o].key
    BY <1>1, <1>8 DEF ServiceInv, Exclusive
  <2>2. /\ seen[o].job \notin DOMAIN jobs
        /\ \A i \in DOMAIN jobs : jobs[i].tenant # req[o].tenant \/ jobs[i].key # req[o].key
    BY <1>8 DEF ServiceInv, Held, Others, JobsWithKey
  <2> QED
    BY <1>5, <2>1, <2>2 DEF Grows
<1> QED
  BY <1>4, <1>5, <1>6, <1>7, <1>8, CommitStep
-------------------------------------------------------------------------------
(* The invariant is inductive *)

LEMMA ServiceInvInit == Init => ServiceInv
<1> SUFFICES ASSUME Init PROVE ServiceInv
  OBVIOUS
<1>1. LedgerInv
  BY LedgerInitInv DEF Init
<1>2. SessionTypeOK
  BY DEF Init, SessionTypeOK, Labels, Snapshot, NoSnapshot
<1>3. \A s \in Session : pc[s] = "idle"
  BY DEF Init
<1>4. \A s \in Session : Stable(s) /\ Held(s)
  BY <1>3 DEF Stable, Held, CreateLabels, JobLabels, KnownLabels
<1>5. \A s \in Session : \A o \in Others(s) : Exclusive(s, o)
  BY <1>3 DEF Exclusive, KnownLabels
<1> QED
  BY <1>1, <1>2, <1>4, <1>5 DEF ServiceInv

LEMMA ServiceInvStutter == ServiceInv /\ UNCHANGED vars => ServiceInv'
<1> SUFFICES ASSUME ServiceInv, UNCHANGED vars PROVE ServiceInv'
  OBVIOUS
<1>1. UNCHANGED ledgerVars /\ pc' = pc /\ req' = req /\ seen' = seen
      /\ jobs' = jobs /\ runs' = runs
  BY DEF vars, ledgerVars
<1>2. LedgerInv' /\ SessionTypeOK'
  BY <1>1, LedgerStepInv DEF ServiceInv, SessionTypeOK
<1>3. \A s \in Session : Stable(s)'
  BY <1>1 DEF ServiceInv, Stable, RowKnown, JobsWithKey, SameRequest
<1>4. \A s \in Session : Held(s)'
  BY <1>1 DEF ServiceInv, Held, AttemptTaken, JobsWithKey
<1>5. \A s \in Session : \A o \in Others(s) : Exclusive(s, o)'
  BY <1>1 DEF ServiceInv, Exclusive
<1> QED
  BY <1>2, <1>3, <1>4, <1>5 DEF ServiceInv

LEMMA ServiceInvStep == ServiceInv /\ [Next]_vars => ServiceInv'
<1> SUFFICES ASSUME ServiceInv, [Next]_vars PROVE ServiceInv'
  OBVIOUS
<1>1. ASSUME NEW s \in Session, Step(s) PROVE ServiceInv'
  <2>1. CASE LookupKey(s)         BY <2>1, LookupKeyStep
  <2>2. CASE InsertJobRow(s)      BY <2>2, InsertJobRowStep
  <2>3. CASE CommitCreate(s)      BY <2>3, CommitCreateStep
  <2>4. CASE LookupWinner(s)      BY <2>4, LookupWinnerStep
  <2>5. CASE Replay(s)            BY <2>5, ReplayStep
  <2>6. CASE ReadJob(s)           BY <2>6, ReadJobStep
  <2>7. CASE ReadRun(s)           BY <2>7, ReadRunStep
  <2>8. CASE CasJob(s)            BY <2>8, CasJobStep
  <2>9. CASE CasRun(s)            BY <2>9, CasRunStep
  <2>10. CASE InsertRun(s)        BY <2>10, InsertRunStep
  <2>11. CASE CommitTransition(s) BY <2>11, CommitTransitionStep
  <2>12. CASE CommitRetry(s)      BY <2>12, CommitRetryStep
  <2>13. CASE Respond(s)          BY <2>13, EndStep DEF Respond
  <2> QED
    BY <1>1, <2>1, <2>2, <2>3, <2>4, <2>5, <2>6, <2>7, <2>8, <2>9, <2>10, <2>11,
       <2>12, <2>13 DEF Step
<1>2. ASSUME NEW s \in Session, Abort(s) PROVE ServiceInv'
  BY <1>2, EndStep DEF Abort
<1>3. ASSUME NEW s \in Session, ArriveAny(s) PROVE ServiceInv'
  BY <1>3, ArriveStep
<1> QED
  BY <1>1, <1>2, <1>3, ServiceInvStutter DEF Next

\* The invariant holds in every reachable state.
THEOREM ServiceSafety == Spec => []ServiceInv
BY ServiceInvInit, ServiceInvStep, PTL DEF Spec
-------------------------------------------------------------------------------
(* What follows for the properties the runs check *)

\* Every variable keeps the values its table column or session field admits.
THEOREM TypeCorrect == Spec => []TypeOK
<1>1. ServiceInv => TypeOK
  BY DEF ServiceInv, LedgerInv, SessionTypeOK, TypeOK
<1> QED
  BY <1>1, ServiceSafety, PTL

\* The promises the ledger makes about committed rows, and the service with it whatever
\* its requests interleave.
LEMMA LedgerPromises == Spec => []LedgerInv
<1>1. ServiceInv => LedgerInv
  BY DEF ServiceInv
<1> QED
  BY <1>1, ServiceSafety, PTL

\* A job and its latest run always carry one status (transition_job, reserve_retry).
THEOREM JobsAndRunsAgree == Spec => []JobRunAgree
  BY LedgerPromises, PTL DEF LedgerInv

\* The attempts of a job are consecutive and within its budget, and all but the last
\* have failed (reserve_retry).
THEOREM AttemptsAreGapless == Spec => []AttemptHistory
  BY LedgerPromises, PTL DEF LedgerInv

\* The audit trail of a job replays to its rows.
THEOREM AuditReplays == Spec => []AuditReplay
  BY LedgerPromises, PTL DEF LedgerInv

\* A tenant's idempotency key names one job (create_job).
THEOREM KeysAreUnique == Spec => []OneJobPerKey
  BY LedgerPromises, PTL DEF LedgerInv

\* A create request is answered with the existing job exactly when it repeats the
\* request that job was created by, whoever won the race to insert it.
THEOREM ReplaysAreHonest == Spec => []ReplayAnswers
<1>1. ServiceInv => ReplayAnswers
  BY DEF ServiceInv, Stable, ReplayAnswers
<1> QED
  BY <1>1, ServiceSafety, PTL

\* What transition_job and reserve_retry are about to commit still rests on
\* committed data, and no two of them hold uncommitted writes to one job.
THEOREM CommitsAreSound == Spec => []SoundCommits
<1>1. ASSUME ServiceInv, NEW s \in Session,
             NEW o \in Others(s), NEW j \in JobId, LocksJob(s, j), LocksJob(o, j)
      PROVE  FALSE
  BY <1>1 DEF ServiceInv, Exclusive, LocksJob, KnownLabels
<1>2. ServiceInv => SoundCommits
  BY <1>1, TransitionCommitsLatest, RetryCommitsLatest DEF SoundCommits
<1> QED
  BY <1>2, ServiceSafety, PTL
-------------------------------------------------------------------------------
(* What follows for the steps *)

\* A step changes the tables only by committing.
LEMMA OnlyCommitsWrite ==
  ASSUME [Next]_vars
  PROVE  \/ UNCHANGED ledgerVars
         \/ \E s \in Session : CommitCreate(s) \/ CommitTransition(s) \/ CommitRetry(s)
<1>1. ASSUME NEW s \in Session, Step(s)
      PROVE  UNCHANGED ledgerVars \/ CommitCreate(s) \/ CommitTransition(s) \/ CommitRetry(s)
  BY <1>1 DEF Step, LookupKey, InsertJobRow, LookupWinner, Replay, ReadJob, ReadRun,
              CasJob, CasRun, InsertRun, Respond, ledgerVars
<1>2. ASSUME NEW s \in Session, ArriveAny(s) PROVE UNCHANGED ledgerVars
  BY <1>2 DEF ArriveAny, ArriveCreate, ArriveTransition, ArriveRetry, Arrive, ledgerVars
<1>3. ASSUME NEW s \in Session, Abort(s) PROVE UNCHANGED ledgerVars
  BY <1>3 DEF Abort
<1>4. CASE UNCHANGED vars
  BY <1>4 DEF vars, ledgerVars
<1> QED
  BY <1>1, <1>2, <1>3, <1>4 DEF Next

LEMMA StepRefines == ServiceInv /\ [Next]_vars => [LedgerNext]_ledgerVars
<1> SUFFICES ASSUME ServiceInv, [Next]_vars PROVE [LedgerNext]_ledgerVars
  OBVIOUS
<1>1. ASSUME NEW s \in Session, CommitCreate(s) PROVE LedgerNext
  <2>1. /\ req[s] \in CreateRequest /\ seen[s].job \in JobId
        /\ Create(seen[s].job, req[s].tenant, req[s].key, req[s].work, req[s].max, req[s].delay)
    BY <1>1, CommitCreateRefines
  <2>2. /\ req[s].tenant \in Tenant /\ req[s].key \in IdempotencyKey
        /\ req[s].work \in Workload
        /\ req[s].max \in 1..AttemptLimit /\ req[s].delay \in Delay
    BY <2>1 DEF CreateRequest
  <2> QED
    BY <2>1, <2>2 DEF LedgerNext
<1>2. ASSUME NEW s \in Session, CommitTransition(s) PROVE LedgerNext
  BY <1>2, CommitTransitionRefines DEF LedgerNext
<1>3. ASSUME NEW s \in Session, CommitRetry(s) PROVE LedgerNext
  BY <1>3, CommitRetryRefines DEF LedgerNext
<1> QED
  BY <1>1, <1>2, <1>3, OnlyCommitsWrite

\* The service implements the ledger: however the statements of any number of
\* requests interleave, abort or wait, the committed tables change only by the
\* indivisible operations Create, Transition and Retry.
THEOREM ServiceImplementsLedger == Spec => LedgerSpec
<1>1. Init => LedgerInit
  BY DEF Init
<1> QED
  BY <1>1, StepRefines, ServiceSafety, PTL DEF Spec, LedgerSpec

\* What a commit does to a job that was in the table before it.
LEMMA CommitFrames ==
  ASSUME ServiceInv, NEW s \in Session,
         CommitCreate(s) \/ CommitTransition(s) \/ CommitRetry(s)
  PROVE  \A j \in DOMAIN jobs :
           /\ HistoryKept(j)
           /\ <<jobs'[j], runs'[j], audit'[j]>> # <<jobs[j], runs[j], audit[j]>> =>
                pc'[s] # pc[s] /\ req[s].tenant = jobs[j].tenant
<1>1. LedgerInv /\ SessionTypeOK /\ Stable(s)
  BY DEF ServiceInv
<1>2. CASE CommitCreate(s)
  <2> DEFINE r == req[s]
             i == seen[s].job
  <2>1. r \in CreateRequest /\ i \in JobId /\ Create(i, r.tenant, r.key, r.work, r.max, r.delay)
    BY <1>2, CommitCreateRefines
  <2>2. /\ r.tenant \in Tenant /\ r.key \in IdempotencyKey /\ r.work \in Workload
        /\ r.max \in 1..AttemptLimit /\ r.delay \in Delay
    BY <2>1 DEF CreateRequest
  <2> HIDE DEF r, i
  <2>3. OnlyJob(i)
    BY <1>1, <2>1, <2>2, CreateFrame
  <2>4. \A j \in DOMAIN jobs : HistoryKept(j)
    BY <1>1, <2>1, <2>2, CreateFrame
  <2> QED
    BY <2>1, <2>3, <2>4 DEF OnlyJob, Create
<1>3. CASE CommitTransition(s)
  <2>1. OnlyJob(seen[s].job) /\ \A j \in DOMAIN jobs : HistoryKept(j)
    BY <1>1, <1>3, CommitTransitionRefines, TransitionFrame
  <2>2. pc'[s] # pc[s] /\ req[s].tenant = jobs[seen[s].job].tenant
    BY <1>1, <1>3 DEF CommitTransition, Goto, SessionTypeOK, Stable, RowKnown, KnownLabels
  <2> QED
    BY <2>1, <2>2 DEF OnlyJob
<1>4. CASE CommitRetry(s)
  <2>1. OnlyJob(seen[s].job) /\ \A j \in DOMAIN jobs : HistoryKept(j)
    BY <1>1, <1>4, CommitRetryRefines, RetryFrame
  <2>2. pc'[s] # pc[s] /\ req[s].tenant = jobs[seen[s].job].tenant
    BY <1>1, <1>4 DEF CommitRetry, Goto, SessionTypeOK, Stable, RowKnown, KnownLabels
  <2> QED
    BY <2>1, <2>2 DEF OnlyJob
<1> QED
  BY <1>2, <1>3, <1>4

\* No commit rewrites a run or an audit event, whichever requests overlap.
THEOREM HistoryIsImmutable == Spec => HistoryImmutable
<1>1. ServiceInv /\ [Next]_vars => (\A j \in DOMAIN jobs : HistoryKept(j)) \/ UNCHANGED ledgerVars
  BY OnlyCommitsWrite, CommitFrames
<1>2. UNCHANGED ledgerVars => \A j \in DOMAIN jobs : HistoryKept(j)
  BY DEF ledgerVars, HistoryKept
<1>3. ServiceInv /\ [Next]_vars => \A j \in DOMAIN jobs : HistoryKept(j)
  BY <1>1, <1>2
<1> QED
  BY <1>3, ServiceSafety, PTL DEF Spec, HistoryImmutable, HistoryKept

\* The rows of a tenant change only by that tenant's own requests, although the
\* tenant is compared only when the job is first read and every later statement
\* names the row by its primary key.
THEOREM TenantsAreIsolated == Spec => TenantIsolation
<1> DEFINE Isolated ==
      \A j \in DOMAIN jobs :
        <<jobs'[j], runs'[j], audit'[j]>> # <<jobs[j], runs[j], audit[j]>> =>
          \E s \in Session : pc'[s] # pc[s] /\ req[s].tenant = jobs[j].tenant
<1>1. UNCHANGED ledgerVars => Isolated
  BY DEF ledgerVars
<1>2. ServiceInv /\ [Next]_vars => Isolated
  BY <1>1, OnlyCommitsWrite, CommitFrames
<1> QED
  BY <1>2, ServiceSafety, PTL DEF Spec, TenantIsolation
===============================================================================
