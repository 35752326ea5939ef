# Growth OS: a verification of its control logic

This directory holds TLA+ models of Growth OS, TLC configurations that check them on small
instances, and theorems that TLAPS proves for every value of the constants. Paths are relative
to the repository; `PROJECT.json` maps every definition to the lines it models.

## 1. Inventory

| Part | Where | State it keeps | Operations | Interacts with |
|---|---|---|---|---|
| Status graph | `src/growth_os/execution.py` | none | `validate_transition` | the execution service |
| Execution service | `execution_service.py`, `execution_repository.py`, `db/models.py` | tables `execution_jobs`, `execution_runs`, `audit_events` | `create_job`, `transition_job`, `reserve_retry`, reads and lists | PostgreSQL, other sessions of the API |
| Approval boundary | same files | tables `action_proposals`, `approval_decisions`, `audit_events` | `create_proposal`, `decide_proposal`, lists | PostgreSQL, people who decide |
| Foundation service | `services.py`, `repositories.py` | tenants, workspaces, sites, memberships, connectors, profile, goal, policy, competitors | create, patch, list, onboarding status | PostgreSQL |
| HTTP API | `api/*.py`, `main.py`, `core/config.py`, `db/session.py` | one database session per request | routing, validation, error mapping | the services |
| Acquisition | `acquisition/_transport.py`, `html.py`, `robots.py` | one connection and one body buffer per fetch | resolve, pin, fetch, follow redirects | DNS, HTTP servers |
| Robots policy | `robots/policy.py`, `access.py`, `cache.py`, `binding.py`, `gate.py` | none: `cache.py` only decides whether a stored policy is still fresh | parse, match, decide, bind | acquisition |
| Evidence | `evidence/on_page.py`, `diff.py` | none between calls | parse a page, compare two | a fetched page |
| Migrations | `migrations/` | the schema | upgrade, downgrade | PostgreSQL |
| Development controller | `devtools/codex_handoff.py` | lock file, status file, git checkout, GitHub issue and pull request | `--once`, `--watch`, `--confirm-recovery` | a child process, git, GitHub, an operator |

How they interact:

- Every API request gets a database session and one transaction. The services share nothing in
  memory; all that one request sees of another goes through PostgreSQL at READ COMMITTED.
- A job and its runs carry the same status in two tables. Compare-and-set updates (`UPDATE ...
  WHERE status = expected`) and unique constraints (tenant and key; job and attempt; one
  decision per proposal) are what stands between the requests.
- The robots policy is meant to be put between acquisition and a page fetch; no scheduler does
  so yet, so `gate.py` and `html.py` meet only in the tests.
- The controller is a program of its own. It starts Codex as a process group, reads and writes
  the checkout through git, drives the issue and the pull request through `gh`, and leaves in
  `.git/codex-handoff-status.json` what the next start needs to go on.

What is hard: overlapping requests that read and then write; the constraints that must catch
what the reads missed; a disconnect between any two statements; and a controller that may crash,
be interrupted or see a command fail between any two of its side effects, while people and its
own orphaned child work on the same checkout.

What makes each part correct:

| Part | Correct when |
|---|---|
| Execution service | job and run agree; attempts are numbered without gaps and stay within budget; the audit trail replays to the current rows; a key selects one job and a repetition of a request gets that job; a commit never rests on data another request has changed; tenants do not touch each other; no request waits for ever |
| Approval boundary | a proposal has one decision, which is final, audited and the one its caller was told; a high-risk action is approved by a person only |
| Foundation service | uniqueness per workspace holds under overlapping creates; a PATCH changes only what it supplies, in its own tenant, and is audited; onboarding never reports a step that nothing supports |
| Acquisition | every hop connects to addresses checked for that hop; redirects, bytes and time are bounded; the connection is closed on every path |
| Robots policy | the matcher decides as the definition of patterns does; the winner does not depend on rule order; a stale or foreign policy is never used; no policy, no fetch |
| Evidence | the parser's result does not depend on how elements nest where it should not; a comparison is symmetric where it says so |
| Controller | one controller and one Codex at a time; nothing unattributed is committed; checkpoints claim only what happened; committed work is not lost; what is merged was reviewed |

`PROJECT.json` lists, under `hazards`, what in this code is hard to test, line by line, with the
property that covers it or the reason why none does yet.

## 2. Plan, and where it stands

| Part | Modules | Proofs |
|---|---|---|
| Execution | `ExecutionStatus`; `JobLedger` (abstract); `ExecutionService` (statements, implements the ledger) | `JobLedgerProofs`, `ExecutionServiceProofs` |
| Approval | `ProposalLedger` (abstract); `ProposalService` (implements it) | `ProposalServiceProofs` |
| Foundation | `Foundation` | `FoundationProofs` |
| Acquisition | `Transport` (operators); `FetchPromise` (abstract); `Fetch` (implements it) | `FetchProofs` |
| Robots | `RobotsMatcher`, `RobotsPolicy` (loops against a declarative meaning); `RobotsGate` (over every end of `Fetch`) | `RobotsPolicyProofs`; the gate in `FetchProofs` |
| Controller | `HandoffLock`; `Handoff` | `HandoffLockProofs`, `HandoffProofs` |

Left, in this order:

1. `CommittedWorkKept` for operators who edit between the starts, as long as no edit falls
   between a commit and its checkpoint.
2. `Handoff` in more detail: a process group that survives its kill, verification's own
   subprocesses, the single conditions of the merge gate.
3. The reads of the execution API as sequences of statements beside the writers.

## 3. What is modelled, and how it corresponds to the code

### Execution: `ExecutionStatus`, `JobLedger`, `ExecutionService`

`ExecutionStatus` is `execution.py`: the statuses, the permitted transitions, the terminal ones.

`JobLedger` is what the service promises: three tables (`jobs`, `runs`, `audit`, the last two
kept per job) and three atomic operations, `Create`, `Transition` and `Retry`, each with all the
rows it writes and the audit event that goes with them.

`ExecutionService` is the code over PostgreSQL. A session serves one request. `pc` is its next
statement, `req` the request, `seen` what it has read. Each statement of `create_job`,
`transition_job` and `reserve_retry` is an action that reads the *committed* tables, so any
other request may commit between two of them. Writes that are not committed yet are not state of
their own: `LocksJob`, `LocksRun`, `InsertsKey` and `InsertsAttempt` derive from `pc`, `req` and
`seen` which row locks and pending unique keys a session holds, and the actions of other
sessions wait for them as PostgreSQL makes them wait. The commit applies all writes at once.
`Abort` is a disconnect, a crash of the process or a failure of the database at any statement
before the commit; `Respond` sends the answer after it, and the same request may arrive again at
any time.

Abstractions: identifiers are model values; `delay` and `max_attempts` come from small sets; a
workload stands for a workspace together with a job kind; timestamps are left out. Ends in an
error (`NotFoundError`, `InvalidTransitionError`) change no row and free the session; `conflict`
is kept as an answer because it depends on another request's rows. Check constraints that the
code's guards imply are named in comments where they would bite.

### Approval: `ProposalLedger`, `ProposalService`

Again a ledger with two atomic operations and a service with one action per statement.
`decide_proposal` reads the proposal and then updates it by primary key without looking at its
status again; what stops a second decision is `uq_decisions_final_proposal`. Jobs are constants
here: proposals read a job's tenant and nothing else of it, and the tenant never changes.

### Foundation: `Foundation`

`FoundationService` in the style of `ExecutionService`. All nine kinds of rows live in `rows`, a
function from identifiers to a kind, the owning tenant, workspace and site, and the fields. A
request is one record (`Creates`, `Updates`, `Gets`, `Lists`, `Statuses` enumerate what the
schemas let through), and its statements are `CheckParent`, `Load`, `ReadPage` (the page, then
its total), `ReadStatus`, `Flush`, `Claim`, `Commit` and `Respond`.

- *What an UPDATE names.* SQLAlchemy emits the columns whose value differs from the one that was
  read, and no UPDATE when there are none; that is `Columns`. Two overlapping PATCHes therefore
  lose nothing but a field both of them supply, and a PATCH that sets a field back to the value
  it read does not undo what another one wrote in between. That last case is the code's
  behaviour and part of what `ChangesAccounted` permits.
- *Unique indexes.* `HoldsKey` says which uncommitted row versions carry a key, including the
  one a rename is about to give up; `Claim` waits for them (`WaitsFor`) and then succeeds or
  answers 409. Two renames towards each other's names wait for each other; `BreakDeadlock` is
  PostgreSQL ending one of them, which is no `IntegrityError` and becomes a 500.
- *Values.* `Stored` is `str()` on a site's URL: a URL cleared with null is stored as the text
  `None` (`STR_OF_NONE`). `Default` and `Nullable` are those of the tables; `Flush` refuses null
  in a required field.
- *After the commit* the refresh may fail: the client then hears 500 of a change that stands.

Fields that the code treats alike are represented by one of them; the bodies of answers and the
order within a page are left out.

### Acquisition: `Transport`, `FetchPromise`, `Fetch`

`Transport` is `normalize_url` and `admit_ip` on URLs that are already split into parts and
addresses that carry what the `ipaddress` module says of them.

`Fetch` is `fetch_html` and `fetch_robots` as one machine; where they differ, `fetcher` decides.
`pc` is the place in the code. The task suspends only in `Await` (`dns`, `get`, `body`,
`closing`), and there the resolver, the server, the 30-second timer (`Deadline`) and the caller
(`Cancel`) act, each with every answer it can give, or none. `pending` is the exception or value
with which the `try` is being left while the `finally` closes the session: a timeout during that
close replaces it. `open` is what a leak would leave behind. `asked`, `answers`, `peers` and
`sent` record what happened outside, for the properties only.

`FetchPromise` says what a caller relies on: at most `MaxRequests` requests, one at a time, and
one outcome that comes when nothing is open. `Caller == INSTANCE FetchPromise WITH ...` maps
`Len(asked)`, `open # {}` and `outcome` to it, and `KeepsPromise` is the refinement.

### Robots: `RobotsMatcher`, `RobotsPolicy`, `RobotsGate`

`RobotsMatcher` has the loop of `_matches` (one iteration is `Iterate`) and beside it
`MatchesPath`, what a pattern with wildcards and an end anchor means: the pattern can be cut to
the path. A cut (`Cuts`) says for each star where the octets it takes end; the literals between
follow at once, and the last octet is the end of the path. `RobotsPolicy` reads a file line by
line into groups, selects and merges groups, and tries the rules one after the other; `tried` is
what the code's loop over the merged rules has behind it, `trying` the rule it is at; it goes
through the selected groups in order and takes each rule once. `Allowed` states what the file
means, without groups, order or loops. A line is what is left after comments, white space and
letter case.

`RobotsGate` has `evaluate_robots_access`, `evaluate_robots_gate` and `evaluate_bound_robots` as
operators, for they keep no state. Their inputs are not invented: the module extends `Fetch`, and
`ForAnyUse` applies the gate to the end of every behaviour of a fetch, for every site and page a
caller may combine with it. Statuses from 600 to 999 (`beyond`) pass the fetcher and make the gate
raise instead of refusing; `EveryFetchDecided` leaves them out.

### Controller: `HandoffLock`, `Handoff`

`HandoffLock` is `acquire_lock` and `release_lock`: open the path, `flock` the open file and
write the PID, unlink the path, unlock and close. Files are inodes; the path points to one of
them or to none. `End` is a kill at any point. `raced` is history: some release unlinked the
path while another controller had opened the file and not yet tried to lock it.

`Handoff` is everything a controller does with one issue while it holds the lock: startup and
reconciliation, selection, branch setup, launching Codex, verification, the three writes and two
git commands of a checkpointed commit, push, draft pull request, review, fix rounds, policy
check and merge, and the handlers of failed commands and of Ctrl-C. One action is one command
with a side effect or one write of the status file. State:

- `st` is the status file with the fields recovery reads. `WriteStatus` merges new fields into
  the old ones and drops the PID, as `write_status` does.
- `repo` and `hub` are the checkout and GitHub. The contents of files are *marks*, integers that
  say who wrote them: a gate 0, a child on top of n commits n + 1 (`ChildMark`), somebody else a
  negative number (`Added`, `Touched`; `Stray` selects them). A tree is a set of marks, a commit a
  subject and a tree, a branch a sequence of commits.
- `child` is the process group of the Codex started last: behind the start gate, alive, or alive
  without its leader.
- `ctl` holds the local variables that die with the controller.
- `ghost` is no state of the code: the files (`blessed`) and the commits made by hand (`vouched`)
  that an operator confirmed, and which commits a reviewer passed. `confirm_recovery` accepts a
  status file without a base commit and then takes over whatever the branch holds
  (`codex_handoff.py:2088-2090`), which is why commits are vouched for as well as files.

The trouble it meets is chosen by the constant `Faults`: crash at any step; an exception out of
any command; Ctrl-C; edits, discards and commits by hand while no controller runs; pushes by
others; the issue closed. The child may write or not, the gates may fail or leave files, the
reviewer may pass or ask for changes.

Outside the model: text of prompts, logs and comments; the timers of child supervision (ending
a child is one step that succeeds); the merge gate's list of conditions, of which the ones about
the head commit, draft state and the issue are kept, and the others are one nondeterministic
verdict; that `verify`'s commands are processes of their own.

## 4. Runs

| Run | What it shows |
|---|---|
| `exec_safety` | two overlapping requests take one job through every status and two attempts: rows agree, the trail replays, answers are right, `ExecutionService` implements `JobLedger` |
| `exec_tenants` | two tenants use one key at once and aim requests at each other's jobs; waits for row locks and keys end |
| `exec_replay` | *violation*: a repeated create after a retry is answered with the newest run, although `docs/EXECUTION-CONTRACT.md` promises the original one |
| `proposals` | three overlapping requests on one proposal: one decision stands, the one that was answered and audited |
| `foundation` | overlapping creates, patches and reads of each kind of row by two tenants: keys and references hold, a PATCH changes what it supplies and audits it, readings stay true, deadlocks end |
| `fetch` | a fetch with every answer, silence, deadline and cancellation at every await: it keeps its promise, connects to admitted addresses only, tells the truth, and every end of it passes the robots gate rightly |
| `robots` | every short pattern against every short path, and files in every order: the loops decide what the file means, and end |
| `lock` | controllers that crash or release the lock exclude each other unless a release races with a start; a controller is refused only because of a living one, never by what a dead one left |
| `lock_exclusion` | *violation*: in that race two controllers run, because the path is unlinked before the file is unlocked |
| `handoff_all` | two troubles of any kind, in every mode: nothing unattributed is committed or published, checkpoints are true, what is merged was reviewed |
| `handoff_crash` | three crashes with the code's two fix rounds: committed work and living children are found again, and the work reaches its pull request |
| `handoff_commit_fails` | *violation*: a command that fails between `git commit` and its checkpoint ends in FAILED |

Each violation run checks the sentence of the documentation that its property quotes; the
`findings` of `PROJECT.json` say what the code does instead.

Met while modelling, reproduced by `Handoff`, listed among the hazards and without a run:

- recovery starts `Counter(rounds=0)` afresh, so a task may get more than the two fix rounds of
  `docs/DEV-HANDOFF.md:216` (`codex_handoff.py:1759`);
- Ctrl-C while `--watch` waits for an orphan records STOPPED, and the next start begins a task
  beside it, against `docs/DEV-HANDOFF.md:212` (`codex_handoff.py:2417`); the STOPPED also
  replaces RECOVERABLE_CHANGES;
- a reviewer that cannot be launched (state LAUNCHING with a draft pull request) ends in FAILED
  like the failed commit (`codex_handoff.py:2243`).

### Bounds, and why they are enough

- *Execution.* `MaxEvents` bounds the audit events of a job, in flight included. Eight are
  enough for one attempt through the approval statuses to FAILED, a retry and its run to the
  end, with two requests open for most of it. Two sessions are enough for a request to be
  overtaken many times: while one stands between its read and its write, the other serves
  request after request, so the status may move away and come back (the theorems of section 5
  hold for any number). Two attempts reach the limit and a refused retry; two tenants and two
  jobs are enough for a request to be aimed at a stranger's row. `exec_tenants` moves a job
  twice at most, which lets two transitions race, and leaves retries out: a retry waits for the
  same lock on the job row as a transition, and inserts its run under it. Sessions are
  interchangeable, so `exec_safety` uses symmetry; `exec_tenants`, which checks liveness, does
  not. At the bound requests stop arriving and `MCRest` keeps TLC's deadlock check meaningful:
  any other halt would be reported.
- *Proposals.* Two users, two tenants, three sessions: two decisions and the creation overlap.
- *Foundation.* A behaviour is about one group of kinds that bear on each other (`Groups`), over
  tables that already hold rows of two tenants with equal names. Two sessions serve three
  requests where rows have one or two fields to change, and two where they have more: enough for
  a create against a rename, renames towards each other, a page whose rows are joined by another
  before the total, and a third request after them. Requests of the second tenant reach for rows
  that are not its own. A page has one row and starts at the second.
- *Fetch.* `MaxRedirects` is the code's five, so the sixth is reached. Bodies of three and two
  units, read in chunks of at most two, cross the limit within a chunk and at its edge. Five
  addresses: two public, a loopback, a global multicast one, an IPv4-mapped one that a Python may
  call global. Eight URLs to start with and four redirect targets cover each way a URL is refused.
- *Robots.* Patterns of up to four tokens after the slash, anchored or not, meet all paths of up
  to four octets over two letters: two wildcards with text on each side, and every backtrack. Files
  have up to four lines of nine kinds, and up to six of the four kinds that make a group appear
  twice.
- *Lock.* Three processes, four inodes: one running, one that opened the old file, one that
  makes the new one, and an inode more so that a file can always be made.
- *Controller.* `MaxFaults` is the number of troubles in one behaviour, `MaxFixes` of fixers
  launched, `MaxRequeues` of times an operator labels a failed issue ready again. `handoff_all`
  uses one fix round instead of the code's two, so that any two troubles of seven kinds fit;
  `handoff_crash` uses the code's two. Two troubles are enough for a crash and a second one
  during recovery from it; the third crash covers a recovery of a recovery. Edits by hand are
  not combined with crashes for `CommittedWorkKept`: if somebody dirties the checkout after a
  crash between `git commit` and its checkpoint, recovery refuses, records RECOVERABLE_CHANGES
  over COMMITTING, and does not find the commit again once the edit is undone. That is listed
  among the hazards.

### Fairness

- Execution and foundation: strong fairness of each session's `Step`. The server goes on with an
  open request, and PostgreSQL queues the waiters of a lock in order, so one that is free again
  and again is granted in the end. Nothing is assumed of arrivals or disconnects.
- Fetch: weak fairness of the task's own steps (`Run`), of the handling of an answer that has
  arrived, of `Closed` (closing a session returns) and of `Deadline` (the event loop fires its
  timer). Servers and resolvers may keep silent for ever, which is what the deadline is for.
- Robots: weak fairness of the computation.
- Controller: weak fairness of `Step` (a running controller executes its next command) and of
  `Start` (operators start it again, as `--watch` under a supervisor does). Crashes, edits and
  the end of an orphan are not fair. `CommittedWorkPublished` excuses two things that rightly keep
  work back: gates that fail again and again (`GatesKeepFailing`), and files that the gates left
  and a person has to look at.

## 5. Theorems

| Module | Theorem | Says |
|---|---|---|
| `JobLedgerProofs` | `LedgerSafety` | the abstract ledger keeps `LedgerInv` |
| `ExecutionServiceProofs` | `ServiceSafety` | the service keeps `ServiceInv` |
| | `TypeCorrect`, `JobsAndRunsAgree`, `AttemptsAreGapless`, `AuditReplays`, `KeysAreUnique`, `ReplaysAreHonest`, `CommitsAreSound` | the state invariants of the runs |
| | `ServiceImplementsLedger` | every step of the service is a step of `JobLedger` or a stutter |
| | `HistoryIsImmutable`, `TenantsAreIsolated` | the action properties of the runs |
| `ProposalServiceProofs` | `ProposalSafety` | the inductive invariant |
| | `TypeCorrect`, `DecisionsAreConsistent`, `DecisionsAreAudited`, `AnswersAreHonest` | types and the state invariants of the run |
| | `ServiceImplementsLedger`, `DecisionsAreFinal` | refinement, and finality as an action property |
| `FoundationProofs` | `FoundationInvariant` | the inductive invariant |
| | `TablesStayConsistent`, `ReadsAreTrue` | the state invariants of the run |
| | `TenantsAreIsolated`, `ChangesAreAccounted` | its action properties |
| `FetchProofs` | `FetchInvariant` | the inductive invariant |
| | `TypeCorrect`, `AnswersAreTrue`, `PeersAreAdmitted`, `InterruptionsAreTold` | types and the state invariants of the run |
| | `FetchKeepsPromise` | every step of a fetch is a step of `FetchPromise` or a stutter |
| | `GateFailsClosed` | a page is allowed only by a robots.txt that was asked for at the page's own site and answered in time |
| | `GateDecidesEveryFetch` | every other end of the fetch is decided upon, too |
| `RobotsPolicyProofs` | `Invariant` | the inductive invariant |
| | `MatcherRight` | the loop with one backtracking point decides as `MatchesPath` defines |
| | `DecisionRight` | the decision is what the lines of the file mean |
| `HandoffLockProofs` | `LockInvariant`, `RefusalsAreJustified`, `RacesAloneBreakExclusion` | who holds what; why a controller is refused; at most one runs unless a release raced with a start |
| `HandoffProofs` | `Invariant` | the inductive invariant, for all faults |
| | `StatusFileTruthful` | `CheckpointsTrue`: the status file claims no commit, push or pull request that is not there |
| | `OnlyReviewedMerged` | `MergedWasReviewed`: what is merged is what the reviewer passed |
| | `StrayKeptOut`, `HandCommitsKeptOut` | no file from elsewhere is committed and no commit made by hand is pushed unless an operator confirmed it |
| | `NoUnknownChild` | `ChildrenAccounted`, if nobody presses Ctrl-C |
| | `WorkSurvivesCrashes` | `CommittedWorkKept`, for crashes, pushes by others and a closed issue, in any number |

They hold for any number of sessions, tenants, keys, jobs, attempts, users, rows and controllers,
for any redirect limit, body limits, URLs and addresses, for patterns, paths and files of any
length, and for any number of faults, restarts, fix rounds and requeued issues. The assumptions are
the ones the modules name: `LedgerAssumption` (the attempt limit is positive, every workload has an
owner), `ServiceAssumption` and `LockAssumption` (`None` is no identifier; there are more inodes
than processes), `ProposalAssumption` (every job has an owner), `FoundationAssumption` (null is no
identifier and no text; pages have a size), `TransportAssumption` and `FetchAssumption` (names are
not addresses; limits are numbers), `MatcherAssumption` (the star is no octet), `PolicyAssumption`
(files are sequences of lines, paths of octets), `HandoffAssumption` (bounds are numbers, modes and
faults are of the kinds listed) and `NoneAssumption` (`None` is no list of commits, snapshot or
checkpoint).

Three theorems have a hypothesis of their own:

- `GateDecidesEveryFetch`: the policy accepts files as large as the fetcher reads. Both limits are
  512000 bytes (`acquisition/robots.py:22`, `robots/policy.py:5`), in two constants that nothing
  but this theorem ties together.
- `NoUnknownChild`: Ctrl-C is not among the faults. It is the one fault that breaks the property:
  `--watch` answers it with STOPPED although a child is recorded (`codex_handoff.py:2417`), as
  section 4 reports. Failing commands, crashes, edits and commits by hand are all allowed.
- `WorkSurvivesCrashes`: no command fails, nobody interrupts or works in the checkout. A command
  that fails between the commit and its checkpoint loses sight of the commit, which is the
  divergence of `handoff_commit_fails`; an edit in that window does so, too (section 4, bounds).

The arguments:

- *Ledger.* `JobRunAgree` alone is not inductive: a transition changes the latest run, and which
  run that is follows from `AttemptHistory`; `AuditReplay` needs both. `LedgerInv` joins them
  with the types and `OneJobPerKey`.
- *Service.* The committed tables only ever change by ledger operations, so the ledger's lemmas
  are reused once it is known that the operation's precondition still holds at the commit. That
  is what `ServiceInv` adds: what a session may rely on at each statement. A snapshot read
  without a lock may go stale in its status, but the job, its tenant and the runs seen do not
  vanish (`Stable`, since tables only grow); from the first compare-and-set on the row is locked
  and the snapshot stays exact (`Held`); two sessions never hold one row or one unique key.
- *Proposals.* A decision row exists exactly for a decided proposal; at most one session is past
  the update of a given proposal.
- *Foundation.* `TablesConsistent` is checked when a key is entered and applied at the commit; in
  between others commit. What carries the check over is `Standing` (a key that was free when it
  was entered is free until the commit) and, for its sake, `Apart` (sessions that have written
  have no row and no key in common, because the second would have waited). Rows are never removed
  and only their fields change, so references, loaded rows and what was read (`Reading`) persist.
- *Fetch.* The invariant goes along the code: `Stage` (what is open and set at each place),
  `Route` (chain, requests and redirects count the same hops), `Amount` (body, limit and what was
  sent), `Contact` (addresses of this hop are admitted answers for its host) and `Told` (which
  interruption overrides which outcome).
- *Lock.* Whoever locks a file has it open and lives. As long as no release has raced with a
  start, everybody who opened the path still has the file that stands there, so one lock
  decides; `Unlink` beside an opener is the only step that breaks this, which is where the
  violation run finds two controllers.
- *Gate.* `FailClosed` speaks of the end of a fetch, and follows from what `FetchInvariant` says
  of the hops and from `Evidence`, which is invariant beside it: a body is returned with the status
  it came with. The rest is the gate's own case distinction.
- *Matcher.* `Scanned` is the invariant of `_matches`. Up to the cursor the pattern lies on the
  path; the stars before the last one end somewhere (`Laid`); and *no* cut of the whole path ends
  the last star earlier than where its tail is being tried. The last part is why one backtracking
  point is enough: when a further star is met, its predecessors end as early as they can, and
  ending them later could only leave less of the path. It is kept by each of the three branches
  of `Iterate` (`OctetScanned`, `StarScanned`, `BacktrackScanned`), and gives both answers at the
  end (`StuckFails`, `EndDecides`). The one induction, that a set of numbers has a least member,
  is the library's.
- *Policy.* `Parsed` relates the groups to the lines read: which group is open, and that an agent
  is offered a rule by some group exactly when the lines say that the agent's line governs the
  rule's. `Trying` says that what was tried is among the rules meant, and `Ranked` that the winner
  is the best match of what was tried, whatever the order.
- *Controller.* `Inv` relates the status file, the checkout, GitHub, the child and the local
  variables at each place of the code. None of the properties is inductive alone, for a restart
  keeps nothing but the file. `Recovering` says with which variables a recovery enters the ordinary
  code; `Recorded`, what has really happened when the next checkpoint is about to claim it;
  `Reviewed`, that from the verdict to the merge the commits are the ones that passed;
  `Attributed`, at which places the tree needs no further look (`Trusted`), that the index holds
  what was examined, and what the base, the paths and the snapshot in the file prove when a later
  start compares them with the checkout.
- *Children and crashes.* `Accounted` adds that only a child named in the file passes the launch
  gate. `Kept` is for `CommittedWorkKept`: what is about to be committed is what the file says is
  staged (`Pipeline`), so that a crash right after `git commit` leaves a commit that the next start
  can prove its own (`InWindow`); a commit without a pull request therefore always has a status
  file that leads to it (`Found`), and where the code starts something new there is none
  (`Settled`).

Only model-checked: the five properties that need fairness (`RequestsEnd` of `ExecutionService`
and of `Foundation`, `Ends`, `Decides`, `CommittedWorkPublished`), since the prover has no rule for
fairness and ENABLED here. Every state invariant and every action property of a passing
run is stated by a theorem.

## 6. Not modelled

- *Evidence* (`evidence/`): two pure functions over one document each. The parser reacts to the
  tokens of Python's `html.parser`, whose rules belong to the installed version, and collects
  text; the comparison goes field by field. There is no state between calls and no interleaving.
- *Reads of the execution API.* They change nothing and promise no more than each statement's own
  snapshot; the answers two statements can tear are among the hazards.
- *Robots*: `cache.py` is one comparison of two times that nothing in the repository calls;
  percent-normalisation of paths and patterns is taken as done.
- *HTTP shell*: routing, validation, error bodies, settings and health keep no state, and their
  checks bound the inputs the models enumerate.
- *Migrations*: a linear chain of table definitions; the constraints that matter are guards of
  the models.
- *Controller*: the supervision timers, verification's subprocesses and the wording of the merge
  gate's conditions, as said in section 3.

## 7. Checking it

`tlc -config <run's cfg> <run's module>` for each run of `PROJECT.json`; `tlapm
<module>Proofs.tla` for the proofs. The `MC` modules hold the bounds; operators marked *Mutant*
are plausible bugs of the definition that follows them, each of which makes a property fail.
