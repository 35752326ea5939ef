------------------------------- MODULE Handoff -------------------------------
(***************************************************************************)
(* The development controller (devtools/codex_handoff.py): it takes one    *)
(* issue through implementation, verification, commit, push, draft pull    *)
(* request, review with fix rounds, and merge, and records where it stands *)
(* in a status file so that it can resume after a crash, a failed command  *)
(* or Ctrl-C.  One step of this model is one command with a side effect or *)
(* one write of the status file; a crash may come between any two.         *)
(*                                                                         *)
(* There is one issue and one controller at a time (HandoffLock says when  *)
(* that is so).  The contents of files are abstracted to marks: who wrote  *)
(* them.  A tree is a set of marks.                                        *)
(***************************************************************************)
EXTENDS Integers, Sequences, SequencesExt

CONSTANTS
  MAX_FIX_ROUNDS,   \* 2 in the code
  Modes,            \* how operators start it: "once", "watch", "confirm"
  Faults,           \* which kinds of trouble occur
  MaxFaults,        \* bound on their number
  MaxFixes,         \* bound on fixers launched
  MaxRequeues,      \* bound on operators labelling a failed issue ready again
  FlakyGates,       \* whether verification may fail or write files
  None              \* an absent field

FaultKinds ==
  {"crash", "error", "interrupt", "edit", "hand_commit", "foreign_push", "close"}

ASSUME HandoffAssumption ==
  /\ {MAX_FIX_ROUNDS, MaxFaults, MaxFixes, MaxRequeues} \subseteq Nat
  /\ Modes \subseteq {"once", "watch", "confirm"}
  /\ Faults \subseteq FaultKinds
  /\ FlakyGates \in BOOLEAN

VARIABLES
  pc,     \* the controller's next step; "down" while none runs
  ctl,    \* its local variables
  st,     \* .git/codex-handoff-status.json
  repo,   \* the checkout: branch, commits of the task branch, index, files
  hub,    \* GitHub: remote task branch, pull request, issue
  child,  \* the Codex process group started last
  ghost,  \* files and commits the operator confirmed, what the reviewer passed
  used    \* how much of each bound is used up

vars == <<pc, ctl, st, repo, hub, child, ghost, used>>

-------------------------------------------------------------------------------
(* Files *)

GATE  == 0     \* written by a verification command of an ordinary pass
\* Upon n commits a child writes mark n + 1.  Somebody else adds files, or changes
\* files that are changed already; these marks are below zero.
ChildMark == Len(repo.head) + 1
Added     == -2 * ChildMark
Touched   == -2 * ChildMark + 1

Stray(tree) == {m \in tree : m < 0}

HeadTree == IF repo.head = << >> THEN {} ELSE Last(repo.head).tree

\* git status --porcelain says something.
Dirty == repo.tree # HeadTree \/ repo.index # HeadTree

\* working_tree_paths: a change to a changed file adds no path.
Paths == (repo.tree \ HeadTree) \ {Touched}

\* recovery_snapshot covers HEAD, index and contents.
Snapshot == [head |-> repo.head, index |-> repo.index, tree |-> repo.tree]

\* Subjects of commits are review rounds, 0 for the implementation; these two are
\* of commits the controller did not make.
HAND    == -1
FOREIGN == -2

HandCommits(commits) == {commits[i] : i \in {i \in DOMAIN commits : commits[i].subject = HAND}}

Tree   == SUBSET Int
Commit == [subject : Int, tree : Tree]
Shot   == [head : Seq(Commit), index : Tree, tree : Tree]

Checkpoints == {"STAGING", "STAGED", "COMMITTED", "PUSHED", "PR_CREATED"}

ASSUME NoneAssumption == None \notin Seq(Commit) /\ None \notin Shot /\ None \notin Checkpoints

-------------------------------------------------------------------------------
(* The status file *)

States ==
  {"NONE", "IDLE", "STOPPED", "FAILED", "SYNCING", "LAUNCHING", "IMPLEMENTING", "FIXING",
   "REVIEWING", "RECOVERABLE_CHANGES", "RECOVERY_BLOCKED",
   "RECOVERY_CONFIRMATION_REQUIRED", "VERIFYING", "COMMITTING", "COMMITTED", "PUSHING",
   "PUSHED", "PR_CREATED", "REVIEW_PASSED", "MERGING", "MERGED", "MERGE_BLOCKED"}

\* States that startup takes up again.
ReconcileStates ==
  States \ {"NONE", "IDLE", "STOPPED", "FAILED", "MERGING", "MERGED", "MERGE_BLOCKED"}

\* States in which a recorded child may have outlived its controller.
ChildStates == {"IMPLEMENTING", "FIXING", "REVIEWING", "RECOVERY_BLOCKED"}

\* States recoverable_finalization_error keeps resumable.
FinalizationStates ==
  {"VERIFYING", "COMMITTING", "COMMITTED", "PUSHING", "PUSHED", "PR_CREATED", "REVIEWING",
   "REVIEW_PASSED"}

Completed(ckpt) ==
  CASE ckpt = "COMMITTED" -> 1 [] ckpt = "PUSHED" -> 2 [] ckpt = "PR_CREATED" -> 3
    [] OTHER -> 0

NoStatus ==
  [state |-> "NONE", ckpt |-> None, paths |-> {}, snap |-> None, content |-> None,
   base |-> None, pre |-> None, subject |-> None, ptree |-> None, commit |-> None,
   pr |-> FALSE, pid |-> FALSE]

\* The record g with the fields of f put over its own.
Over(f, g) == [x \in DOMAIN f \cup DOMAIN g |-> IF x \in DOMAIN f THEN f[x] ELSE g[x]]

\* Fields that are not given are kept, except the PID; reset_recovery forgets all.
WriteStatus(state, fields) == st' = Over(fields, [st EXCEPT !.state = state, !.pid = FALSE])
ResetStatus(state, fields) == st' = Over(fields, [NoStatus EXCEPT !.state = state])

Nothing == [f \in {} |-> None]

\* captured_recovery_scope: a clean tree gives no fields, so older ones are kept.
Scope == IF Dirty THEN [paths |-> Paths, snap |-> Snapshot] ELSE Nothing

HasManifest == st.paths # {} /\ (st.snap # None \/ st.content # None)

\* Mutant: the paths alone are compared.
ValidScopePathsOnly == HasManifest /\ Paths = st.paths

\* validate_recovery_scope: the manifest the child left, or the files that were
\* about to be staged.
ValidScope ==
  /\ HasManifest
  /\ Paths = st.paths
  /\ \/ st.snap = Snapshot
     \/ /\ st.ckpt \in {"STAGING", "STAGED"}
        /\ st.base = repo.head
        /\ st.content = repo.tree

-------------------------------------------------------------------------------
(* The controller *)

NoCtl == [mode |-> "none", rec |-> FALSE, done |-> 0, round |-> 0, role |-> "none",
          ok |-> FALSE]

Goto(label) == pc' = label
At(label)   == pc = label

Exit == Goto("down") /\ ctl' = NoCtl

\* An exception on its way to the handlers of run_once, run_watch, recover_changes.
Raise == Goto("handle_error") /\ UNCHANGED ctl

Keep(c) == ctl' = c

NoChild == [role |-> "none", phase |-> "none"]

\* Running Codex; a child that waits at the launch gate cannot do anything.
Alive == child.phase \in {"live", "leaderless"}

Start(m) ==
  /\ At("down")
  /\ m = "confirm" => st.state = "RECOVERY_CONFIRMATION_REQUIRED"
  /\ Goto(IF m = "confirm" THEN "confirm" ELSE "reconcile")
  /\ Keep([NoCtl EXCEPT !.mode = m])
  /\ UNCHANGED <<st, repo, hub, child, ghost, used>>

-------------------------------------------------------------------------------
(* reconcile_stale_run: first the child, then the checkout *)

Reconcile ==
  /\ At("reconcile")
  /\ \/ /\ st.state \notin ReconcileStates
        /\ Goto("select") /\ UNCHANGED ctl
     \/ /\ st.state = "RECOVERY_CONFIRMATION_REQUIRED"
        /\ Exit
     \/ /\ st.state \in ReconcileStates \ {"RECOVERY_CONFIRMATION_REQUIRED"}
        /\ ~(st.state \in ChildStates /\ st.pid /\ Alive)
        /\ Goto("inspect") /\ UNCHANGED ctl
  /\ UNCHANGED <<st, repo, hub, child, ghost, used>>

\* Mutant: RECOVERY_BLOCKED forgets the process.
BlockForgetsPid == WriteStatus("RECOVERY_BLOCKED", Nothing)

\* recovery_blocked_error
Block == WriteStatus("RECOVERY_BLOCKED", [pid |-> st.pid])

\* The recorded process group is still there.
MeetOrphan ==
  /\ At("reconcile")
  /\ st.state \in ChildStates /\ st.pid /\ Alive
  /\ \/ /\ child.phase = "leaderless"          \* no signal is sent
        /\ Block /\ Exit /\ UNCHANGED child
     \/ /\ child.phase = "live"                \* its heartbeat is fresh
        /\ IF ctl.mode = "watch" THEN Goto("sleep") /\ UNCHANGED ctl ELSE Exit
        /\ UNCHANGED <<st, child>>
     \/ /\ child.phase = "live"                \* its heartbeat is stale
        /\ child' = NoChild
        /\ Goto("inspect")
        /\ UNCHANGED <<ctl, st>>
  /\ UNCHANGED <<repo, hub, ghost, used>>

\* stopped_child_scope_is_proven
Proven == st.state \in ChildStates /\ st.pid

BranchAndBaseProven == repo.branch = "task" /\ (Proven => st.base = repo.head)

ResumeWith(fields) ==
  /\ WriteStatus("RECOVERABLE_CHANGES", fields)
  /\ Goto("recover")
  /\ Keep([ctl EXCEPT !.rec = TRUE])

InspectUnprovenBranch ==
  /\ At("inspect")
  /\ ~BranchAndBaseProven
  /\ Block /\ Exit
  /\ UNCHANGED <<repo, hub, child, ghost, used>>

\* Mutant: a commit made before its checkpoint was written is not looked for.
InterruptedCommitIgnored == FALSE

InterruptedCommit == st.state = "COMMITTING" /\ ~Dirty /\ st.ckpt = "STAGED"

\* Mutant: any new commit passes for the one that was about to be made.
ProvenCommitAny == repo.head # << >> /\ Front(repo.head) = st.pre

\* One commit on the recorded parent, with the recorded subject and tree.
ProvenCommit ==
  /\ repo.head # << >>
  /\ Front(repo.head) = st.pre
  /\ Last(repo.head).subject = st.subject
  /\ Last(repo.head).tree = st.ptree

InspectCommit ==
  /\ At("inspect")
  /\ BranchAndBaseProven
  /\ InterruptedCommit
  /\ IF ProvenCommit
     THEN ResumeWith([ckpt |-> "COMMITTED", commit |-> repo.head])
     ELSE Exit /\ UNCHANGED st
  /\ UNCHANGED <<repo, hub, child, ghost, used>>

InspectNoChanges ==
  /\ At("inspect")
  /\ BranchAndBaseProven
  /\ ~InterruptedCommit
  /\ ~Dirty
  /\ Completed(st.ckpt) = 0
  /\ WriteStatus("RECOVERY_BLOCKED", Nothing)
  /\ Goto("no_changes")
  /\ UNCHANGED <<ctl, repo, hub, child, ghost, used>>

\* load_recovery_issue, then record_issue_failure
NoChanges ==
  /\ At("no_changes")
  /\ IF hub.open THEN WriteStatus("FAILED", Nothing) ELSE UNCHANGED st
  /\ Exit
  /\ UNCHANGED <<repo, hub, child, ghost, used>>

InspectUnattributed ==
  /\ At("inspect")
  /\ BranchAndBaseProven
  /\ Dirty
  /\ Proven \/ ~HasManifest
  /\ WriteStatus("RECOVERY_CONFIRMATION_REQUIRED", [pid |-> Proven])
  /\ Exit
  /\ UNCHANGED <<repo, hub, child, ghost, used>>

InspectRecoverable ==
  /\ At("inspect")
  /\ BranchAndBaseProven
  /\ ~InterruptedCommit
  /\ IF Dirty THEN ~Proven /\ HasManifest ELSE Completed(st.ckpt) > 0
  /\ ResumeWith(Nothing)
  /\ UNCHANGED <<repo, hub, child, ghost, used>>

\* confirm_recovery: the operator vouches for everything that is in the tree.
ConfirmRecovery ==
  /\ At("confirm")
  /\ IF /\ hub.open
        /\ ~Alive
        /\ repo.branch = "task"
        /\ st.base \in {None, repo.head}
        /\ Dirty
     THEN /\ ResumeWith(Scope)
          /\ ghost' = [ghost EXCEPT !.blessed = @ \cup Stray(repo.tree),
                                    !.vouched = @ \cup HandCommits(repo.head)]
     ELSE Exit /\ UNCHANGED <<st, ghost>>
  /\ UNCHANGED <<repo, hub, child, used>>

\* recover_changes up to its try: load_recovery_issue.
Recover ==
  /\ At("recover")
  /\ IF hub.open THEN Goto("begin") /\ UNCHANGED ctl ELSE Exit
  /\ UNCHANGED <<st, repo, hub, child, ghost, used>>

-------------------------------------------------------------------------------
(* Selecting an issue and preparing its branch *)

Select ==
  /\ At("select")
  /\ \/ /\ Dirty                                  \* clean_tree_required
        /\ Exit /\ UNCHANGED st
     \/ /\ ~Dirty /\ ~(hub.ready /\ hub.open)
        /\ WriteStatus("IDLE", Nothing)
        /\ IF ctl.mode = "watch" THEN Goto("sleep") /\ UNCHANGED ctl ELSE Exit
     \/ /\ ~Dirty /\ hub.ready /\ hub.open
        /\ ResetStatus("SYNCING", Nothing)
        /\ Goto("label") /\ UNCHANGED ctl
  /\ UNCHANGED <<repo, hub, child, ghost, used>>

Sleep ==
  /\ At("sleep")
  /\ Goto("reconcile")
  /\ UNCHANGED <<ctl, st, repo, hub, child, ghost, used>>

LabelRunning ==
  /\ At("label")
  /\ hub' = [hub EXCEPT !.ready = FALSE]
  /\ Goto("sync")
  /\ UNCHANGED <<ctl, st, repo, child, ghost, used>>

OnMain == [branch |-> "main", head |-> << >>, index |-> {}, tree |-> {}]

\* prepare_task_branch: the local task branch goes, a remote one stops the task.
SyncMain ==
  /\ At("sync")
  /\ repo' = OnMain
  /\ IF hub.remote # None THEN Raise ELSE Goto("branch") /\ UNCHANGED ctl
  /\ UNCHANGED <<st, hub, child, ghost, used>>

CheckoutTask ==
  /\ At("branch")
  /\ repo' = [repo EXCEPT !.branch = "task"]
  /\ Goto("launch")
  /\ Keep([ctl EXCEPT !.role = "impl"])
  /\ UNCHANGED <<st, hub, child, ghost, used>>

-------------------------------------------------------------------------------
(* run_codex_stream: a child behind a launch gate *)

RoleState(r) == CASE r = "impl" -> "IMPLEMENTING" [] r = "fix" -> "FIXING" [] OTHER -> "REVIEWING"

WritesFiles(r) == r \in {"impl", "fix"}

ChildStatus(state, fields) ==
  IF WritesFiles(ctl.role) THEN ResetStatus(state, fields) ELSE WriteStatus(state, fields)

Launch ==
  /\ At("launch")
  /\ ChildStatus("LAUNCHING", [base |-> repo.head])
  /\ Goto("spawn")
  /\ UNCHANGED <<ctl, repo, hub, child, ghost, used>>

Spawn ==
  /\ At("spawn")
  /\ child' = [role |-> ctl.role, phase |-> "gated"]
  /\ Goto("record")
  /\ UNCHANGED <<ctl, st, repo, hub, ghost, used>>

RecordChild ==
  /\ At("record")
  /\ ChildStatus(RoleState(ctl.role),
       IF Dirty
       THEN [base |-> repo.head, pid |-> TRUE, paths |-> Paths, snap |-> Snapshot]
       ELSE [base |-> repo.head, pid |-> TRUE])
  /\ Goto("open")
  /\ UNCHANGED <<ctl, repo, hub, child, ghost, used>>

OpenGate ==
  /\ At("open")
  /\ child' = [child EXCEPT !.phase = "live"]
  /\ Goto("await")
  /\ UNCHANGED <<ctl, st, repo, hub, ghost, used>>

\* The leader exits, or stays silent too long; its whole group is terminated.
Await ==
  /\ At("await")
  /\ child' = NoChild
  /\ Goto("reaped")
  /\ \E ok \in BOOLEAN : Keep([ctl EXCEPT !.ok = ok])
  /\ UNCHANGED <<st, repo, hub, ghost, used>>

Reaped ==
  /\ At("reaped")
  /\ WriteStatus(RoleState(ctl.role), Scope)
  /\ Goto(ctl.role)
  /\ UNCHANGED <<ctl, repo, hub, child, ghost, used>>

\* The child failed and left changes: RecoverableChangesError.
Preserve == WriteStatus("RECOVERABLE_CHANGES", Scope) /\ Exit

\* process_issue after the implementer
ImplResult ==
  /\ At("impl")
  /\ \/ /\ ctl.ok /\ Dirty
        /\ Goto("begin") /\ Keep([ctl EXCEPT !.role = "none"])
        /\ UNCHANGED <<st, repo>>
     \/ /\ ctl.ok /\ ~Dirty                       \* reset_noop_branch
        /\ repo' = OnMain
        /\ Raise /\ UNCHANGED st
     \/ /\ ~ctl.ok /\ Dirty
        /\ Preserve /\ UNCHANGED repo
     \/ /\ ~ctl.ok /\ ~Dirty
        /\ Raise /\ UNCHANGED <<st, repo>>
  /\ UNCHANGED <<hub, child, ghost, used>>

Exhausted(round) == round > MAX_FIX_ROUNDS

\* run_review_fix_loop after the reviewer
ReviewResult ==
  /\ At("review")
  /\ \/ /\ ctl.ok                                 \* pass
        /\ ghost' = [ghost EXCEPT !.reviewed = repo.head]
        /\ Goto("passed") /\ Keep([ctl EXCEPT !.role = "none"])
        /\ UNCHANGED used
     \/ /\ ctl.ok /\ ~Exhausted(ctl.round)        \* changes requested
        /\ used.fixes < MaxFixes
        /\ used' = [used EXCEPT !.fixes = @ + 1]
        /\ Goto("launch") /\ Keep([ctl EXCEPT !.role = "fix"])
        /\ UNCHANGED ghost
     \/ /\ Raise                                  \* no valid result, or rounds used up
        /\ UNCHANGED <<ghost, used>>
  /\ UNCHANGED <<st, repo, hub, child>>

\* run_fixer after the child
FixResult ==
  /\ At("fix")
  /\ \/ /\ ctl.ok /\ Dirty
        /\ Goto("verify") /\ Keep([ctl EXCEPT !.role = "none"])
        /\ UNCHANGED st
     \/ /\ ~ctl.ok /\ Dirty
        /\ Preserve
     \/ /\ ~Dirty
        /\ Raise /\ UNCHANGED st
  /\ UNCHANGED <<repo, hub, child, ghost, used>>

-------------------------------------------------------------------------------
(* finalize_changes: verification *)

\* Local commit, remote branch and pull request are where the checkpoint says.
ValidCheckpoint(done) ==
  /\ st.commit = repo.head
  /\ done >= 2 => hub.remote = st.commit
  /\ done >= 3 => st.pr /\ hub.pr = "draft" /\ hub.remote = st.commit

Begin ==
  /\ At("begin")
  /\ LET done == IF ctl.rec THEN Completed(st.ckpt) ELSE 0
     IN  IF \/ ~ctl.rec
            \/ ctl.rec /\ done = 0 /\ ValidScope
            \/ ctl.rec /\ done > 0 /\ ~Dirty /\ ValidCheckpoint(done)
         THEN Goto("verify") /\ Keep([ctl EXCEPT !.done = done])
         ELSE Raise
  /\ UNCHANGED <<st, repo, hub, child, ghost, used>>

Verify ==
  /\ At("verify")
  /\ WriteStatus("VERIFYING", Nothing)
  /\ Goto("gates")
  /\ UNCHANGED <<ctl, repo, hub, child, ghost, used>>

\* What the verification commands may leave in the tree.  In an ordinary pass it
\* becomes part of the change; when recovered work is verified it must not.
GateWrites == IF ctl.rec /\ ctl.round = 0 THEN Added ELSE GATE

Gates ==
  /\ At("gates")
  /\ \/ UNCHANGED repo
     \/ FlakyGates /\ repo' = [repo EXCEPT !.tree = @ \cup {GateWrites}]
  /\ \/ Goto("verified") /\ UNCHANGED ctl
     \/ FlakyGates /\ Raise
  /\ UNCHANGED <<st, hub, child, ghost, used>>

\* Mutant: recovered scope is validated before verification only.
StillValidAlways == TRUE

\* Recovery validates again what the gates may have changed.
StillValid ==
  ctl.rec /\ ctl.round = 0 => IF ctl.done = 0 THEN ValidScope ELSE ~Dirty

Verified ==
  /\ At("verified")
  /\ IF StillValid
     THEN /\ Goto(IF ctl.done = 0 \/ ctl.round > 0 THEN "stage"
                  ELSE IF ctl.done = 1 THEN "push" ELSE "pr")
          /\ UNCHANGED ctl
     ELSE Raise
  /\ UNCHANGED <<st, repo, hub, child, ghost, used>>

-------------------------------------------------------------------------------
(* commit_with_recovery_checkpoint; round 0 is the implementation *)

Stage ==
  /\ At("stage")
  /\ IF Dirty
     THEN /\ WriteStatus("COMMITTING",
               [ckpt |-> "STAGING", pre |-> repo.head, subject |-> ctl.round,
                paths |-> Paths, content |-> repo.tree, base |-> repo.head])
          /\ Goto("add") /\ UNCHANGED ctl
     ELSE Raise /\ UNCHANGED st
  /\ UNCHANGED <<repo, hub, child, ghost, used>>

GitAdd ==
  /\ At("add")
  /\ repo' = [repo EXCEPT !.index = repo.tree]
  /\ Goto("staged")
  /\ UNCHANGED <<ctl, st, hub, child, ghost, used>>

Staged ==
  /\ At("staged")
  /\ WriteStatus("COMMITTING", [ckpt |-> "STAGED", ptree |-> repo.index])
  /\ Goto("commit")
  /\ UNCHANGED <<ctl, repo, hub, child, ghost, used>>

GitCommit ==
  /\ At("commit")
  /\ repo' = [repo EXCEPT !.head = Append(@, [subject |-> ctl.round, tree |-> repo.index])]
  /\ Goto("committed")
  /\ UNCHANGED <<ctl, st, hub, child, ghost, used>>

Committed ==
  /\ At("committed")
  /\ WriteStatus("COMMITTED", [ckpt |-> "COMMITTED", commit |-> repo.head])
  /\ Goto(IF ctl.round = 0 THEN "push" ELSE "git_push")
  /\ UNCHANGED <<ctl, repo, hub, child, ghost, used>>

-------------------------------------------------------------------------------
(* Push and pull request *)

\* Mutant: the push is recorded as done before it is attempted.
PushClaimsEarly ==
  /\ At("push")
  /\ WriteStatus("PUSHING", [ckpt |-> "PUSHED", commit |-> repo.head])
  /\ Goto("git_push")
  /\ UNCHANGED <<ctl, repo, hub, child, ghost, used>>

Push ==
  /\ At("push")
  /\ WriteStatus("PUSHING", Nothing)
  /\ Goto("git_push")
  /\ UNCHANGED <<ctl, repo, hub, child, ghost, used>>

\* Accepted when it is a fast-forward.
GitPush ==
  /\ At("git_push")
  /\ IF hub.remote = None \/ IsPrefix(hub.remote, repo.head)
     THEN /\ hub' = [hub EXCEPT !.remote = repo.head]
          /\ Goto("pushed") /\ UNCHANGED ctl
     ELSE Raise /\ UNCHANGED hub
  /\ UNCHANGED <<st, repo, child, ghost, used>>

Pushed ==
  /\ At("pushed")
  /\ WriteStatus("PUSHED", [ckpt |-> "PUSHED", commit |-> repo.head])
  /\ IF ctl.round = 0
     THEN Goto("pr") /\ UNCHANGED ctl
     ELSE Goto("launch") /\ Keep([ctl EXCEPT !.role = "review", !.round = @ + 1])
  /\ UNCHANGED <<repo, hub, child, ghost, used>>

\* find_draft_pr: only recovery looks.
FindsDraftPr == ctl.rec /\ hub.pr = "draft"

\* A pull request that is open but no draft, or another than the recorded one,
\* stops recovery; GitHub refuses a second one for the branch.
OpenPr ==
  /\ At("pr")
  /\ \/ /\ FindsDraftPr
        /\ ctl.done >= 3 => st.pr
        /\ Goto("pr_created") /\ UNCHANGED <<ctl, hub>>
     \/ /\ ~FindsDraftPr
        /\ hub.pr = "none" /\ ctl.done < 3
        /\ hub' = [hub EXCEPT !.pr = "draft"]
        /\ Goto("pr_created") /\ UNCHANGED ctl
     \/ /\ IF FindsDraftPr THEN ctl.done >= 3 /\ ~st.pr ELSE hub.pr # "none" \/ ctl.done >= 3
        /\ Raise /\ UNCHANGED hub
  /\ UNCHANGED <<st, repo, child, ghost, used>>

PrCreated ==
  /\ At("pr_created")
  /\ WriteStatus("PR_CREATED", [ckpt |-> "PR_CREATED", pr |-> TRUE, commit |-> repo.head])
  /\ Goto("launch")
  /\ Keep([ctl EXCEPT !.role = "review", !.round = 1])
  /\ UNCHANGED <<repo, hub, child, ghost, used>>

-------------------------------------------------------------------------------
(* Review passed; merge_reviewed_pr *)

ReviewPassed ==
  /\ At("passed")
  /\ WriteStatus("REVIEW_PASSED", [pr |-> TRUE])
  /\ Goto(IF ctl.rec THEN "blocked" ELSE "merge_check")
  /\ UNCHANGED <<ctl, repo, hub, child, ghost, used>>

\* validate_pr_for_merge: open, and at the reviewed head.
PrAtReviewedHead == hub.pr \in {"draft", "ready"} /\ hub.remote = repo.head

\* The issue's assessment, protected paths, blocking reviews and threads are
\* somebody else's choice, made anew at each check.
MergeCheck ==
  /\ At("merge_check")
  /\ \/ PrAtReviewedHead /\ hub.open /\ Goto("ready")
     \/ Goto("blocked")
  /\ UNCHANGED <<ctl, st, repo, hub, child, ghost, used>>

MarkReady ==
  /\ At("ready")
  /\ hub' = [hub EXCEPT !.pr = "ready"]
  /\ Goto("recheck")
  /\ UNCHANGED <<ctl, st, repo, child, ghost, used>>

Recheck ==
  /\ At("recheck")
  /\ \/ /\ PrAtReviewedHead /\ hub.pr = "ready" /\ hub.open
        /\ WriteStatus("MERGING", [pr |-> TRUE])
        /\ Goto("merge")
     \/ Goto("blocked") /\ UNCHANGED st
  /\ UNCHANGED <<ctl, repo, hub, child, ghost, used>>

\* Mutant: the merge is not pinned to the reviewed head.
HeadMatchesAlways == TRUE

\* --match-head-commit
HeadMatches == hub.remote = repo.head

Merge ==
  /\ At("merge")
  /\ IF HeadMatches
     THEN /\ hub' = [hub EXCEPT !.pr = "merged", !.open = FALSE]
          /\ Goto("merged")
     ELSE Goto("blocked") /\ UNCHANGED hub
  /\ UNCHANGED <<ctl, st, repo, child, ghost, used>>

RecordOutcome ==
  /\ pc \in {"merged", "blocked"}
  /\ WriteStatus(IF At("merged") THEN "MERGED" ELSE "MERGE_BLOCKED", [pr |-> TRUE])
  /\ Goto("finish")
  /\ UNCHANGED <<ctl, repo, hub, child, ghost, used>>

\* Labels; then --watch goes on with the next cycle.
Finish ==
  /\ At("finish")
  /\ IF ctl.mode = "watch"
     THEN Goto("reconcile") /\ Keep([NoCtl EXCEPT !.mode = "watch"])
     ELSE Exit
  /\ UNCHANGED <<st, repo, hub, child, ghost, used>>

-------------------------------------------------------------------------------
(* What goes wrong *)

\* Inside run_codex_stream once the child exists, inside it before that, and
\* outside of any task.
ChildSteps   == {"record", "open", "await", "reaped"}
LaunchSteps  == {"launch", "spawn"}
OutsideSteps == {"reconcile", "inspect", "no_changes", "confirm", "recover", "select", "sleep"}
HandlerSteps == {"handle_error", "handle_interrupt"}

Fault(kind) ==
  /\ kind \in Faults
  /\ used.faults < MaxFaults
  /\ used' = [used EXCEPT !.faults = @ + 1]

\* The controller is killed: the launch gate closes, running Codex goes on.
Crash ==
  /\ Fault("crash")
  /\ ~At("down")
  /\ Exit
  /\ child' = IF Alive THEN child ELSE NoChild
  /\ UNCHANGED <<st, repo, hub, ghost>>

\* The finally of run_codex_stream: the group is terminated, its scope recorded.
StopChild ==
  /\ WriteStatus(RoleState(ctl.role), Scope)
  /\ child' = NoChild

\* The command or write of this step fails.
Error ==
  /\ Fault("error")
  /\ pc \notin {"down"} \cup HandlerSteps
  /\ IF pc \in OutsideSteps THEN Exit ELSE Raise
  /\ IF pc \in ChildSteps THEN StopChild ELSE UNCHANGED <<st, child>>
  /\ UNCHANGED <<repo, hub, ghost>>

\* recover_changes keeps the work; otherwise recoverable_finalization_error and,
\* failing that, record_issue_failure.
HandleError ==
  /\ At("handle_error")
  /\ IF \/ ctl.rec
        \/ /\ st.state \in FinalizationStates
           /\ HasManifest \/ Completed(st.ckpt) > 0
     THEN WriteStatus("RECOVERABLE_CHANGES", Nothing)
     ELSE WriteStatus("FAILED", Nothing)
  /\ Exit
  /\ UNCHANGED <<repo, hub, child, ghost, used>>

\* Ctrl-C.  Outside of a task --watch records STOPPED, whatever was recorded.
Interrupt ==
  /\ Fault("interrupt")
  /\ pc \notin {"down"} \cup HandlerSteps
  /\ \/ /\ pc \in OutsideSteps \ {"recover"}
        /\ IF ctl.mode = "watch" THEN WriteStatus("STOPPED", Nothing) ELSE UNCHANGED st
        /\ Exit /\ UNCHANGED child
     \/ /\ pc \in ChildSteps
        /\ StopChild
        /\ Goto("handle_interrupt") /\ UNCHANGED ctl
     \/ /\ pc \notin (OutsideSteps \ {"recover"}) \cup ChildSteps
        /\ Goto("handle_interrupt")
        /\ Keep([ctl EXCEPT !.role = IF pc \in LaunchSteps THEN @ ELSE "none"])
        /\ UNCHANGED <<st, child>>
  /\ UNCHANGED <<repo, hub, ghost>>

\* Implementation changes are preserved in every mode; beyond that only --watch
\* handles Ctrl-C (recoverable_interruption_error), and --once just ends.
HandleInterrupt ==
  /\ At("handle_interrupt")
  /\ IF ctl.role = "impl" /\ ~ctl.rec /\ Dirty
     THEN WriteStatus("RECOVERABLE_CHANGES", Scope)
     ELSE IF ctl.mode # "watch"
     THEN UNCHANGED st
     ELSE WriteStatus(CASE HasManifest \/ st.ckpt # None -> "RECOVERABLE_CHANGES"
                        [] ~HasManifest /\ st.ckpt = None /\ ctl.rec -> "STOPPED"
                        [] OTHER -> "FAILED", Nothing)
  /\ Exit
  /\ UNCHANGED <<repo, hub, child, ghost, used>>

-------------------------------------------------------------------------------
(* The child and the world *)

\* A workspace-write child leaves changes that HEAD does not have.
ChildWrites ==
  /\ Alive /\ WritesFiles(child.role)
  /\ repo' = [repo EXCEPT !.tree = @ \cup {ChildMark}]
  /\ UNCHANGED <<pc, ctl, st, hub, child, ghost, used>>

\* A child whose controller died ends, or its leader does.
OrphanEnds ==
  /\ pc \notin ChildSteps
  /\ Alive
  /\ child' \in {NoChild, [child EXCEPT !.phase = "leaderless"]}
  /\ UNCHANGED <<pc, ctl, st, repo, hub, ghost, used>>

\* Somebody changes files of the checkout while no controller runs, or discards
\* the changes there.
StrayEdit ==
  /\ Fault("edit")
  /\ At("down")
  /\ \/ repo' = [repo EXCEPT !.tree = @ \cup {Added}]
     \/ Dirty /\ repo' = [repo EXCEPT !.tree = @ \cup {Touched}]
     \/ Dirty /\ repo' = [repo EXCEPT !.tree = HeadTree, !.index = HeadTree]
  /\ UNCHANGED <<pc, ctl, st, hub, child, ghost>>

\* Somebody commits the changes by hand.
HandCommit ==
  /\ Fault("hand_commit")
  /\ At("down")
  /\ repo.branch = "task" /\ Dirty
  /\ repo' = [repo EXCEPT !.head = Append(@, [subject |-> HAND, tree |-> repo.tree]),
                          !.index = repo.tree]
  /\ UNCHANGED <<pc, ctl, st, hub, child, ghost>>

\* Somebody pushes to the branch of the open pull request.
ForeignPush ==
  /\ Fault("foreign_push")
  /\ hub.pr \in {"draft", "ready"}
  /\ hub' = [hub EXCEPT !.remote = Append(@, [subject |-> FOREIGN, tree |-> {}])]
  /\ UNCHANGED <<pc, ctl, st, repo, child, ghost>>

\* The issue is closed on GitHub.
CloseIssue ==
  /\ Fault("close")
  /\ hub.open
  /\ hub' = [hub EXCEPT !.open = FALSE]
  /\ UNCHANGED <<pc, ctl, st, repo, child, ghost>>

\* The operator labels the issue ready again.
Requeue ==
  /\ At("down")
  /\ hub.open /\ ~hub.ready
  /\ used.requeues < MaxRequeues
  /\ used' = [used EXCEPT !.requeues = @ + 1]
  /\ hub' = [hub EXCEPT !.ready = TRUE]
  /\ UNCHANGED <<pc, ctl, st, repo, child, ghost>>

-------------------------------------------------------------------------------
(* Specification *)

Init ==
  /\ pc    = "down"
  /\ ctl   = NoCtl
  /\ st    = NoStatus
  /\ repo  = OnMain
  /\ hub   = [remote |-> None, pr |-> "none", open |-> TRUE, ready |-> TRUE]
  /\ child = NoChild
  /\ ghost = [blessed |-> {}, vouched |-> {}, reviewed |-> None]
  /\ used  = [faults |-> 0, fixes |-> 0, requeues |-> 0]

Startup ==
  \/ Reconcile \/ MeetOrphan \/ InspectUnprovenBranch \/ InspectCommit
  \/ InspectNoChanges \/ NoChanges \/ InspectUnattributed \/ InspectRecoverable
  \/ ConfirmRecovery \/ Recover
  \/ Select \/ Sleep \/ LabelRunning \/ SyncMain \/ CheckoutTask

RunChild ==
  \/ Launch \/ Spawn \/ RecordChild \/ OpenGate \/ Await \/ Reaped
  \/ ImplResult \/ ReviewResult \/ FixResult

Finalize ==
  \/ Begin \/ Verify \/ Gates \/ Verified
  \/ Stage \/ GitAdd \/ Staged \/ GitCommit \/ Committed
  \/ Push \/ GitPush \/ Pushed \/ OpenPr \/ PrCreated
  \/ ReviewPassed \/ MergeCheck \/ MarkReady \/ Recheck \/ Merge
  \/ RecordOutcome \/ Finish

Handle == HandleError \/ HandleInterrupt

Step == Startup \/ RunChild \/ Finalize \/ Handle

World ==
  \/ ChildWrites \/ OrphanEnds \/ StrayEdit \/ HandCommit \/ ForeignPush \/ CloseIssue
  \/ Requeue

Next == (\E m \in Modes : Start(m)) \/ Step \/ Crash \/ Error \/ Interrupt \/ World

Spec == Init /\ [][Next]_vars

\* A controller that runs goes on, and operators start one again after it ended.
Fairness ==
  /\ WF_vars(Step)
  /\ WF_vars(\E m \in Modes : Start(m))

FairSpec == Spec /\ Fairness

-------------------------------------------------------------------------------
(* Properties *)

\* There are commits that GitHub, or the pull request, does not have yet.
Published   == hub.remote # None /\ IsPrefix(repo.head, hub.remote) /\ hub.pr # "none"
Unpublished == repo.head # << >> /\ ~Published

\* Files changed from elsewhere while no controller ran, or written by the
\* verification of recovered work, are committed only after an operator confirmed
\* them, whatever crash, failure or interruption came in between.
StrayNeverCommitted ==
  \A i \in DOMAIN repo.head :
    repo.head[i].subject # HAND => Stray(repo.head[i].tree) \subseteq ghost.blessed

\* A commit made by hand on the task branch, even over exactly the files the
\* controller was about to commit, is never taken for its own and pushed; it is
\* published only beneath work that an operator confirmed on top of it.
OnlyOwnCommitsPublished ==
  hub.remote # None => HandCommits(hub.remote) \subseteq ghost.vouched

\* The status file never claims a side effect that has not happened: the commit,
\* the push, the pull request of its checkpoint exist.
CheckpointsTrue ==
  /\ Completed(st.ckpt) >= 1 => st.commit # None /\ IsPrefix(st.commit, repo.head)
  /\ Completed(st.ckpt) >= 2 => hub.remote # None /\ IsPrefix(st.commit, hub.remote)
  /\ Completed(st.ckpt) >= 3 => hub.pr # "none"

\* What is merged is exactly what the reviewer passed, in spite of pushes by others
\* between review, the two policy checks and the merge.
MergedWasReviewed == hub.pr = "merged" => hub.remote = ghost.reviewed

\* Codex never runs unknown to the status file, nor while a controller inspects,
\* verifies, commits or starts another child: after a crash its process group is
\* found again, and until it is gone nothing else happens.
ChildrenAccounted ==
  Alive =>
    /\ pc \in {"await", "down", "reconcile", "sleep"}
    /\ st.pid
    /\ st.state \in ChildStates

\* After a crash at any step, commits that are not yet in a pull request are found
\* by the next start.
CommittedWorkKept == At("down") /\ Unpublished => st.state \in ReconcileStates

\* Verification fails again and again.
GatesKeepFailing == []<>(At("handle_error") /\ st.state = "VERIFYING")

\* Committed work reaches its pull request, however often the controller crashes,
\* unless verification keeps failing or leaves files that a person must look at.
CommittedWorkPublished ==
  GatesKeepFailing \/ (Unpublished ~> (~Unpublished \/ Stray(repo.tree) # {}))

-------------------------------------------------------------------------------
(* A statement of the documentation that does not hold *)

\* docs/DEV-HANDOFF.md: "A transient failure after commit, push, PR creation, or
\* during the independent reviewer therefore resumes from the completed checkpoint
\* instead of trying to create another commit or PR."  After the commit:
FailureAfterCommitResumes == st.state = "FAILED" => ~Unpublished
===============================================================================
