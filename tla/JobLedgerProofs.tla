--------------------------- MODULE JobLedgerProofs ---------------------------
(***************************************************************************)
(* The invariants of the job ledger hold for every set of tenants, keys,   *)
(* jobs and delays and every attempt limit.                                *)
(***************************************************************************)
EXTENDS JobLedger, TLAPS

\* The invariant that is inductive: agreement of job and run needs the attempt
\* history (which run is the latest), and the audit replay needs agreement.
LedgerInv ==
  /\ LedgerTypeOK
  /\ JobRunAgree
  /\ AttemptHistory
  /\ AuditReplay
  /\ OneJobPerKey

\* When attempts are numbered by position the latest run is the last one.
LEMMA LatestIsLast ==
  ASSUME NEW j \in JobId, LedgerTypeOK, runs[j] # << >>,
         \A r \in DOMAIN runs[j] : runs[j][r].attempt = r
  PROVE  /\ LatestRun(j) = Len(runs[j])
         /\ Len(runs[j]) \in DOMAIN runs[j]
         /\ DOMAIN runs[j] = 1..Len(runs[j])
<1>1. runs[j] \in Seq(RunRow)
  BY DEF LedgerTypeOK
<1>2. DOMAIN runs[j] = 1..Len(runs[j]) /\ Len(runs[j]) \in Nat /\ Len(runs[j]) # 0
  BY <1>1
<1> DEFINE Highest(r) == \A q \in DOMAIN runs[j] : runs[j][q].attempt <= runs[j][r].attempt
<1>3. Len(runs[j]) \in DOMAIN runs[j] /\ Highest(Len(runs[j]))
  BY <1>2
<1>4. \A r \in DOMAIN runs[j] : Highest(r) => r = Len(runs[j])
  BY <1>2, <1>3
<1>5. LatestRun(j) \in DOMAIN runs[j] /\ Highest(LatestRun(j))
  BY <1>3 DEF LatestRun
<1> QED
  BY <1>2, <1>3, <1>4, <1>5

\* The ledger starts empty.
LEMMA LedgerInitInv == LedgerInit => LedgerInv
  BY DEF LedgerInit, LedgerInv, LedgerTypeOK, JobRunAgree, AttemptHistory, AuditReplay,
         OneJobPerKey

\* What the invariant says of one job, with the latest run made explicit.
LEMMA JobFacts ==
  ASSUME LedgerInv, NEW j \in DOMAIN jobs
  PROVE  /\ j \in JobId
         /\ jobs[j] \in JobRow
         /\ runs[j] \in Seq(RunRow)
         /\ audit[j] \in Seq(AuditRow)
         /\ runs[j] # << >>
         /\ LatestRun(j) = Len(runs[j])
         /\ LatestRun(j) \in 1..Len(runs[j])
         /\ jobs[j].status = runs[j][Len(runs[j])].status
<1>1. j \in JobId
  BY DEF LedgerInv, LedgerTypeOK
<1>2. /\ runs[j] \in Seq(RunRow) /\ audit[j] \in Seq(AuditRow) /\ jobs[j] \in JobRow
  BY <1>1 DEF LedgerInv, LedgerTypeOK
<1>3. runs[j] # << >> /\ jobs[j].status = runs[j][LatestRun(j)].status
  BY DEF LedgerInv, JobRunAgree
<1>4. \A r \in DOMAIN runs[j] : runs[j][r].attempt = r
  BY DEF LedgerInv, AttemptHistory
<1>5. LedgerTypeOK
  BY DEF LedgerInv
<1> QED
  BY <1>1, <1>2, <1>3, <1>4, <1>5, LatestIsLast
-------------------------------------------------------------------------------
(* The invariant one job at a time: a step touches the rows of one job *)

JobInv(j) ==
  /\ runs[j] # << >>
  /\ jobs[j].status = runs[j][Len(runs[j])].status
  /\ \A r \in DOMAIN runs[j] :
       /\ runs[j][r].attempt = r
       /\ r <= runs[j][r].max
       /\ runs[j][r].max = runs[j][1].max
       /\ runs[j][r].delay = runs[j][1].delay
       /\ r < Len(runs[j]) => runs[j][r].status = FAILED
  /\ audit[j] # << >>
  /\ \A i \in DOMAIN audit[j] :
       /\ i = 1 <=> audit[j][i].type = "created"
       /\ i > 1 => StatusBefore(audit[j][i]) = StatusAfter(audit[j][i - 1])
  /\ StatusAfter(audit[j][Len(audit[j])]) = jobs[j].status

\* The invariant of the ledger is the invariant of every job.
LEMMA InvByJob ==
  LedgerInv <=> LedgerTypeOK /\ OneJobPerKey /\ \A j \in DOMAIN jobs : JobInv(j)
<1>1. ASSUME LedgerInv, NEW j \in DOMAIN jobs
      PROVE  JobInv(j)
  BY <1>1, JobFacts DEF JobInv, LedgerInv, AttemptHistory, AuditReplay
<1>2. ASSUME LedgerTypeOK, \A j \in DOMAIN jobs : JobInv(j)
      PROVE  JobRunAgree /\ AttemptHistory /\ AuditReplay
  <2>1. AttemptHistory /\ AuditReplay
    BY <1>2 DEF JobInv, AttemptHistory, AuditReplay
  <2>2. ASSUME NEW j \in DOMAIN jobs
        PROVE  runs[j] # << >> /\ jobs[j].status = runs[j][LatestRun(j)].status
    <3>1. j \in JobId
      BY <1>2 DEF LedgerTypeOK
    <3>2. JobInv(j)
      BY <1>2
    <3>3. LatestRun(j) = Len(runs[j])
      BY <1>2, <3>1, <3>2, LatestIsLast DEF JobInv
    <3> QED
      BY <3>2, <3>3 DEF JobInv
  <2> QED
    BY <2>1, <2>2 DEF JobRunAgree
<1> QED
  BY <1>1, <1>2 DEF LedgerInv

\* The same of the state a step leads to.
LEMMA InvByJobNext ==
  LedgerInv' <=> LedgerTypeOK' /\ OneJobPerKey' /\ \A j \in DOMAIN jobs' : JobInv(j)'
<1>1. (LedgerInv <=> LedgerTypeOK /\ OneJobPerKey /\ \A j \in DOMAIN jobs : JobInv(j))'
  BY InvByJob, PTL
<1> QED
  BY <1>1

\* A job whose rows a step leaves alone keeps its invariant.
LEMMA FrameJob ==
  ASSUME NEW i \in DOMAIN jobs, JobInv(i),
         jobs'[i] = jobs[i], runs'[i] = runs[i], audit'[i] = audit[i]
  PROVE  JobInv(i)'
  BY DEF JobInv, StatusAfter, StatusBefore

\* What appending does to a sequence.
LEMMA AppendFacts ==
  ASSUME NEW S, NEW s \in Seq(S), NEW x \in S
  PROVE  /\ Append(s, x) \in Seq(S)
         /\ Append(s, x) # << >>
         /\ Len(s) \in Nat /\ DOMAIN s = 1..Len(s)
         /\ Len(Append(s, x)) = Len(s) + 1
         /\ DOMAIN Append(s, x) = 1..(Len(s) + 1)
         /\ Append(s, x)[Len(s) + 1] = x
         /\ \A i \in 1..Len(s) : Append(s, x)[i] = s[i]
OBVIOUS

-------------------------------------------------------------------------------
(* One lemma per operation *)

LEMMA CreateInv ==
  ASSUME LedgerInv, NEW j \in JobId, NEW t \in Tenant, NEW k \in IdempotencyKey,
         NEW w \in Workload, NEW m \in 1..AttemptLimit, NEW d \in Delay,
         Create(j, t, k, w, m, d)
  PROVE  LedgerInv'
<1>1. LedgerTypeOK /\ OneJobPerKey /\ \A i \in DOMAIN jobs : JobInv(i)
  BY InvByJob
<1>2. j \notin DOMAIN jobs /\ DOMAIN jobs' = DOMAIN jobs \cup {j}
  BY DEF Create, InsertJob
<1>3. /\ jobs'[j] = NewJob(t, k, w)
      /\ runs'[j] = <<NewRun(1, m, d)>>
      /\ audit'[j] = <<CreatedEvent>>
  BY <1>1 DEF Create, InsertJob, LedgerTypeOK
<1>4. \A i \in DOMAIN jobs : jobs'[i] = jobs[i] /\ runs'[i] = runs[i] /\ audit'[i] = audit[i]
  BY <1>1, <1>2 DEF Create, InsertJob, LedgerTypeOK
<1>5. LedgerTypeOK'
  <2>1. NewJob(t, k, w) \in JobRow
    BY DEF NewJob, JobRow, Status
  <2>2. NewRun(1, m, d) \in RunRow
    BY LedgerAssumption DEF NewRun, RunRow, Status
  <2>3. CreatedEvent \in AuditRow
    BY DEF CreatedEvent, AuditRow
  <2>4. <<NewRun(1, m, d)>> \in Seq(RunRow) /\ <<CreatedEvent>> \in Seq(AuditRow)
    BY <2>2, <2>3
  <2>5. jobs' \in [DOMAIN jobs' -> JobRow] /\ DOMAIN jobs' \subseteq JobId
    BY <1>1, <1>2, <2>1 DEF Create, InsertJob, LedgerTypeOK
  <2>6. runs' \in [JobId -> Seq(RunRow)] /\ audit' \in [JobId -> Seq(AuditRow)]
    BY <1>1, <2>4 DEF Create, InsertJob, LedgerTypeOK
  <2> QED
    BY <2>5, <2>6 DEF LedgerTypeOK
<1>6. JobInv(j)'
  <2>1. /\ Len(runs'[j]) = 1 /\ runs'[j][1] = NewRun(1, m, d) /\ DOMAIN runs'[j] = {1}
        /\ Len(audit'[j]) = 1 /\ audit'[j][1] = CreatedEvent /\ DOMAIN audit'[j] = {1}
        /\ runs'[j] # << >> /\ audit'[j] # << >>
    BY <1>3
  <2> QED
    BY <1>3, <2>1, LedgerAssumption
    DEF JobInv, NewJob, NewRun, CreatedEvent, StatusAfter, StatusBefore
<1>7. OneJobPerKey'
  BY <1>1, <1>2, <1>3, <1>4 DEF OneJobPerKey, Create, JobsWithKey, NewJob
<1>8. \A i \in DOMAIN jobs' : JobInv(i)'
  BY <1>1, <1>2, <1>4, <1>6, FrameJob
<1> QED
  BY <1>5, <1>7, <1>8, InvByJobNext

LEMMA TransitionInv ==
  ASSUME LedgerInv, NEW j \in JobId, NEW a \in Status, NEW b \in Status, Transition(j, a, b)
  PROVE  LedgerInv'
<1>1. LedgerTypeOK /\ OneJobPerKey /\ \A i \in DOMAIN jobs : JobInv(i)
  BY InvByJob
<1> DEFINE n == Len(runs[j])
           e == TransitionedEvent(a, b, n)
<1>2. j \in DOMAIN jobs /\ LatestRun(j) = n /\ n \in 1..n /\ SetStatus(j, n, a, b)
  BY JobFacts DEF Transition
<1>3. DOMAIN jobs' = DOMAIN jobs
  BY <1>2 DEF SetStatus
<1>4. /\ jobs[j] \in JobRow /\ runs[j] \in Seq(RunRow) /\ audit[j] \in Seq(AuditRow)
  BY <1>2, JobFacts
<1>5. /\ jobs'[j] = [jobs[j] EXCEPT !.status = b]
      /\ runs'[j] = [runs[j] EXCEPT ![n].status = b]
      /\ audit'[j] = Append(audit[j], e)
  BY <1>1, <1>2 DEF SetStatus, LedgerTypeOK
<1>6. \A i \in DOMAIN jobs \ {j} :
         jobs'[i] = jobs[i] /\ runs'[i] = runs[i] /\ audit'[i] = audit[i]
  BY <1>1, <1>2 DEF SetStatus, LedgerTypeOK
<1>7. /\ runs'[j] \in Seq(RunRow)
      /\ Len(runs'[j]) = n
      /\ DOMAIN runs'[j] = DOMAIN runs[j]
      /\ runs'[j][n] = [runs[j][n] EXCEPT !.status = b]
      /\ \A r \in DOMAIN runs[j] : r # n => runs'[j][r] = runs[j][r]
  <2>1. runs[j][n] \in RunRow
    BY <1>2, <1>4
  <2>2. [runs[j][n] EXCEPT !.status = b] \in RunRow
    BY <2>1 DEF RunRow
  <2> QED
    BY <1>2, <1>4, <1>5, <2>2
<1>8. e \in AuditRow
  BY <1>4 DEF TransitionedEvent, AuditRow
<1>9. LedgerTypeOK'
  <2>1. jobs'[j] \in JobRow
    BY <1>4, <1>5 DEF JobRow
  <2>2. audit'[j] \in Seq(AuditRow)
    BY <1>4, <1>5, <1>8, AppendFacts
  <2>3. jobs' \in [DOMAIN jobs' -> JobRow]
    BY <1>1, <1>2, <2>1 DEF SetStatus, LedgerTypeOK
  <2>4. runs' \in [JobId -> Seq(RunRow)]
    BY <1>1, <1>2, <1>7 DEF SetStatus, LedgerTypeOK
  <2>5. audit' \in [JobId -> Seq(AuditRow)]
    BY <1>1, <1>2, <2>2 DEF SetStatus, LedgerTypeOK
  <2> QED
    BY <1>1, <1>3, <2>3, <2>4, <2>5 DEF LedgerTypeOK
<1>10. JobInv(j)'
  <2>1. jobs'[j].status = b /\ runs'[j][n].status = b
    BY <1>4, <1>5, <1>7, <1>2 DEF JobRow, RunRow
  <2>2. \A r \in DOMAIN runs[j] :
          /\ runs'[j][r].attempt = runs[j][r].attempt
          /\ runs'[j][r].max = runs[j][r].max
          /\ runs'[j][r].delay = runs[j][r].delay
          /\ r < n => runs'[j][r].status = runs[j][r].status
    <3>1. runs[j][n] \in RunRow
      BY <1>2, <1>4
    <3>2. /\ runs'[j][n].attempt = runs[j][n].attempt
          /\ runs'[j][n].max = runs[j][n].max
          /\ runs'[j][n].delay = runs[j][n].delay
      BY <1>7, <3>1 DEF RunRow
    <3>3. \A r \in DOMAIN runs[j] : r < n => r # n
      BY <1>2
    <3> HIDE DEF n
    <3> QED
      BY <1>7, <3>2, <3>3
  <2>3. jobs[j].status = a
    BY DEF Transition
  <2>4. /\ Len(audit'[j]) = Len(audit[j]) + 1
        /\ DOMAIN audit'[j] = 1..(Len(audit[j]) + 1)
        /\ DOMAIN audit[j] = 1..Len(audit[j])
        /\ Len(audit[j]) \in Nat
        /\ audit'[j][Len(audit[j]) + 1] = e
        /\ \A i \in 1..Len(audit[j]) : audit'[j][i] = audit[j][i]
        /\ audit'[j] # << >>
    BY <1>4, <1>5, <1>8, AppendFacts
  <2>5. e.type = "transitioned" /\ StatusBefore(e) = a /\ StatusAfter(e) = b
    BY DEF TransitionedEvent, StatusBefore, StatusAfter
  <2>6. /\ runs'[j] # << >>
        /\ jobs'[j].status = runs'[j][Len(runs'[j])].status
        /\ \A r \in DOMAIN runs'[j] :
             /\ runs'[j][r].attempt = r
             /\ r <= runs'[j][r].max
             /\ runs'[j][r].max = runs'[j][1].max
             /\ runs'[j][r].delay = runs'[j][1].delay
             /\ r < Len(runs'[j]) => runs'[j][r].status = FAILED
    BY <1>1, <1>2, <1>4, <1>7, <2>1, <2>2 DEF JobInv
  <2>7. audit[j] # << >> /\ Len(audit[j]) >= 1
    BY <1>1, <1>2, <1>4 DEF JobInv
  <2>8. \A i \in DOMAIN audit'[j] :
          /\ i = 1 <=> audit'[j][i].type = "created"
          /\ i > 1 => StatusBefore(audit'[j][i]) = StatusAfter(audit'[j][i - 1])
    <3> TAKE i \in DOMAIN audit'[j]
    <3>1. CASE i = Len(audit[j]) + 1
      BY <1>1, <1>2, <2>3, <2>4, <2>5, <2>7, <3>1 DEF JobInv
    <3>2. CASE i \in 1..Len(audit[j])
      <4>1. i > 1 => i - 1 \in 1..Len(audit[j])
        BY <3>2, <2>4
      <4> QED
        BY <1>1, <1>2, <2>4, <3>2, <4>1 DEF JobInv
    <3> QED
      BY <3>1, <3>2, <2>4
  <2>9. StatusAfter(audit'[j][Len(audit'[j])]) = jobs'[j].status
    BY <2>1, <2>4, <2>5
  <2> QED
    BY <2>4, <2>6, <2>8, <2>9 DEF JobInv, StatusAfter, StatusBefore
<1>11. OneJobPerKey'
  BY <1>1, <1>2, <1>3, <1>4, <1>5, <1>6 DEF OneJobPerKey, JobRow
<1>12. \A i \in DOMAIN jobs' : JobInv(i)'
  BY <1>1, <1>3, <1>6, <1>10, FrameJob
<1> QED
  BY <1>9, <1>11, <1>12, InvByJobNext
LEMMA RetryInv ==
  ASSUME LedgerInv, NEW j \in JobId, Retry(j)
  PROVE  LedgerInv'
<1>1. LedgerTypeOK /\ OneJobPerKey /\ \A i \in DOMAIN jobs : JobInv(i)
  BY InvByJob
<1> DEFINE n == Len(runs[j])
           last == runs[j][n]
           row == NewRun(n + 1, last.max, last.delay)
           e == RetryEvent(n, n + 1)
<1>2. /\ j \in DOMAIN jobs /\ LatestRun(j) = n /\ n \in 1..n
      /\ jobs[j] \in JobRow /\ runs[j] \in Seq(RunRow) /\ audit[j] \in Seq(AuditRow)
  BY JobFacts DEF Retry
<1>3. last \in RunRow /\ DOMAIN runs[j] = 1..n /\ n \in Nat
  BY <1>2
<1>4. last.attempt = n /\ last.attempt < last.max /\ last.status = FAILED
  BY <1>1, <1>2, <1>3 DEF JobInv, Retry
<1>5. jobs[j].status = FAILED /\ InsertRetry(j, n, last.max, last.delay)
  BY <1>2, <1>4 DEF Retry
<1>6. row \in RunRow /\ e \in AuditRow
  BY <1>3, <1>4, LedgerAssumption DEF NewRun, RunRow, RetryEvent, AuditRow, Status
<1>7. DOMAIN jobs' = DOMAIN jobs
  BY <1>5 DEF InsertRetry
<1>8. /\ jobs'[j] = [jobs[j] EXCEPT !.status = QUEUED]
      /\ runs'[j] = Append(runs[j], row)
      /\ audit'[j] = Append(audit[j], e)
  BY <1>1, <1>2, <1>5 DEF InsertRetry, LedgerTypeOK
<1>9. \A i \in DOMAIN jobs \ {j} :
         jobs'[i] = jobs[i] /\ runs'[i] = runs[i] /\ audit'[i] = audit[i]
  BY <1>1, <1>2, <1>5 DEF InsertRetry, LedgerTypeOK
<1>10. /\ runs'[j] \in Seq(RunRow) /\ runs'[j] # << >>
       /\ Len(runs'[j]) = n + 1 /\ DOMAIN runs'[j] = 1..(n + 1)
       /\ runs'[j][n + 1] = row
       /\ \A r \in 1..n : runs'[j][r] = runs[j][r]
  BY <1>2, <1>6, <1>8, AppendFacts
<1>11. LedgerTypeOK'
  <2>1. jobs'[j] \in JobRow
    BY <1>2, <1>8 DEF JobRow, Status
  <2>2. audit'[j] \in Seq(AuditRow)
    BY <1>2, <1>6, <1>8, AppendFacts
  <2>3. jobs' \in [DOMAIN jobs' -> JobRow]
    BY <1>1, <1>2, <1>5, <2>1 DEF InsertRetry, LedgerTypeOK
  <2>4. runs' \in [JobId -> Seq(RunRow)]
    BY <1>1, <1>5, <1>10 DEF InsertRetry, LedgerTypeOK
  <2>5. audit' \in [JobId -> Seq(AuditRow)]
    BY <1>1, <1>5, <2>2 DEF InsertRetry, LedgerTypeOK
  <2> QED
    BY <1>1, <1>7, <2>3, <2>4, <2>5 DEF LedgerTypeOK
<1>12. JobInv(j)'
  <2>1. /\ row.status = QUEUED /\ row.attempt = n + 1
        /\ row.max = last.max /\ row.delay = last.delay
    BY DEF NewRun
  <2>2. jobs'[j].status = QUEUED
    BY <1>2, <1>8 DEF JobRow
  <2>3. \A r \in DOMAIN runs'[j] :
          /\ runs'[j][r].attempt = r
          /\ r <= runs'[j][r].max
          /\ runs'[j][r].max = runs'[j][1].max
          /\ runs'[j][r].delay = runs'[j][1].delay
          /\ r < Len(runs'[j]) => runs'[j][r].status = FAILED
    <3> TAKE r \in DOMAIN runs'[j]
    <3>1. runs'[j][1] = runs[j][1] /\ last.max = runs[j][1].max /\ last.delay = runs[j][1].delay
      BY <1>1, <1>2, <1>3, <1>10 DEF JobInv
    <3>2. CASE r = n + 1
      <4>1. row.max \in Nat /\ n + 1 <= row.max
        BY <1>2, <1>3, <1>4, <2>1, LedgerAssumption DEF RunRow
      <4> HIDE DEF row, last, n
      <4> QED
        BY <1>3, <1>10, <2>1, <3>1, <3>2, <4>1
    <3>3. CASE r \in 1..n
      <4>1. r \in DOMAIN runs[j] /\ (r < n => runs[j][r].status = FAILED)
        BY <1>1, <1>2, <1>3, <3>3 DEF JobInv
      <4>2. r < Len(runs'[j]) => runs[j][r].status = FAILED
        BY <1>3, <1>4, <3>3, <4>1
      <4> QED
        BY <1>1, <1>2, <1>10, <3>1, <3>3, <4>1, <4>2 DEF JobInv
    <3> QED
      BY <1>3, <1>10, <3>2, <3>3
  <2>4. audit[j] # << >> /\ Len(audit[j]) \in Nat /\ Len(audit[j]) >= 1
    BY <1>1, <1>2 DEF JobInv
  <2>5. /\ Len(audit'[j]) = Len(audit[j]) + 1
        /\ DOMAIN audit'[j] = 1..(Len(audit[j]) + 1)
        /\ DOMAIN audit[j] = 1..Len(audit[j])
        /\ audit'[j][Len(audit[j]) + 1] = e
        /\ \A i \in 1..Len(audit[j]) : audit'[j][i] = audit[j][i]
        /\ audit'[j] # << >>
    BY <1>2, <1>6, <1>8, AppendFacts
  <2>6. e.type = "retry_reserved" /\ StatusBefore(e) = FAILED /\ StatusAfter(e) = QUEUED
    BY DEF RetryEvent, StatusBefore, StatusAfter
  <2>7. \A i \in DOMAIN audit'[j] :
          /\ i = 1 <=> audit'[j][i].type = "created"
          /\ i > 1 => StatusBefore(audit'[j][i]) = StatusAfter(audit'[j][i - 1])
    <3> TAKE i \in DOMAIN audit'[j]
    <3>1. CASE i = Len(audit[j]) + 1
      BY <1>1, <1>2, <1>5, <2>4, <2>5, <2>6, <3>1 DEF JobInv
    <3>2. CASE i \in 1..Len(audit[j])
      <4>1. i > 1 => i - 1 \in 1..Len(audit[j])
        BY <2>4, <3>2
      <4> QED
        BY <1>1, <1>2, <2>5, <3>2, <4>1 DEF JobInv
    <3> QED
      BY <2>5, <3>1, <3>2
  <2>8. StatusAfter(audit'[j][Len(audit'[j])]) = jobs'[j].status
    BY <2>2, <2>5, <2>6
  <2>9. jobs'[j].status = runs'[j][Len(runs'[j])].status
    BY <1>10, <2>1, <2>2
  <2> QED
    BY <1>10, <2>3, <2>5, <2>7, <2>8, <2>9 DEF JobInv, StatusAfter, StatusBefore
<1>13. OneJobPerKey'
  BY <1>1, <1>2, <1>7, <1>8, <1>9 DEF OneJobPerKey, JobRow
<1>14. \A i \in DOMAIN jobs' : JobInv(i)'
  BY <1>1, <1>7, <1>9, <1>12, FrameJob
<1> QED
  BY <1>11, <1>13, <1>14, InvByJobNext

-------------------------------------------------------------------------------
(* The theorems *)

\* A step of the ledger, or one that leaves its tables alone, keeps the invariant.
LEMMA LedgerStepInv == LedgerInv /\ [LedgerNext]_ledgerVars => LedgerInv'
<1> SUFFICES ASSUME LedgerInv, [LedgerNext]_ledgerVars
             PROVE  LedgerInv'
  OBVIOUS
<1>1. CASE \E j \in JobId, t \in Tenant, k \in IdempotencyKey, w \in Workload,
              m \in 1..AttemptLimit, d \in Delay : Create(j, t, k, w, m, d)
  BY <1>1, CreateInv
<1>2. CASE \E j \in JobId, a, b \in Status : Transition(j, a, b)
  BY <1>2, TransitionInv
<1>3. CASE \E j \in JobId : Retry(j)
  BY <1>3, RetryInv
<1>4. CASE UNCHANGED ledgerVars
  <2>1. LedgerTypeOK /\ OneJobPerKey /\ \A i \in DOMAIN jobs : JobInv(i)
    BY InvByJob
  <2>2. LedgerTypeOK' /\ OneJobPerKey'
    BY <1>4, <2>1 DEF ledgerVars, LedgerTypeOK, OneJobPerKey
  <2>3. \A i \in DOMAIN jobs' : JobInv(i)'
    BY <1>4, <2>1, FrameJob DEF ledgerVars
  <2> QED
    BY <2>2, <2>3, InvByJobNext
<1> QED
  BY <1>1, <1>2, <1>3, <1>4 DEF LedgerNext

\* The ledger never lets a job and its latest run disagree, never skips, repeats
\* or exceeds an attempt, never breaks the chain of audit events and never holds
\* two jobs for one key (transition_job, reserve_retry, create_job).
THEOREM LedgerSafety == LedgerSpec => []LedgerInv
  BY LedgerInitInv, LedgerStepInv, PTL DEF LedgerSpec
===============================================================================
