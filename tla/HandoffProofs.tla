---------------------------- MODULE HandoffProofs ----------------------------
(***************************************************************************)
(* Proofs about Handoff, for every set of faults, any number of them, any  *)
(* number of fix rounds, requeues and restarts.  Inv is inductive for all  *)
(* faults; the two theorems about children and about committed work name   *)
(* the faults they are free of.                                            *)
(*                                                                         *)
(* The proof that a step keeps a part of the invariant has a step for each *)
(* action of Next.                                                         *)
(***************************************************************************)
EXTENDS Handoff, SequenceTheorems, TLAPS

\* The roles of children, and the places of the controller by what it does there.

Role == {"impl", "fix", "review"}

Preparing  == {"label", "sync", "branch"}
Running    == {"launch", "spawn", "record", "open", "await", "reaped"}
Finalizing == {"begin", "verify", "gates", "verified", "stage", "add", "staged", "commit",
               "committed", "push", "git_push", "pushed", "pr", "pr_created"}
Merging    == {"passed", "merge_check", "ready", "recheck", "merge"}
Ending     == {"merged", "blocked", "finish", "down"}
Place      == OutsideSteps \cup Preparing \cup Running \cup Role \cup Finalizing \cup Merging
                \cup Ending \cup HandlerSteps

Checkpoint == Checkpoints \cup {None}
Commits    == Seq(Commit)

CtlType ==
  [mode : {"none", "once", "watch", "confirm"}, rec : BOOLEAN, done : 0..3, round : Nat,
   role : Role \cup {"none"}, ok : BOOLEAN]
StatusType ==
  [state : States, ckpt : Checkpoint, paths : Tree, snap : Shot \cup {None},
   content : Tree \cup {None}, base : Commits \cup {None}, pre : Commits \cup {None},
   subject : Int \cup {None}, ptree : Tree \cup {None}, commit : Commits \cup {None},
   pr : BOOLEAN, pid : BOOLEAN]
RepoType == [branch : {"main", "task"}, head : Commits, index : Tree, tree : Tree]
HubType ==
  [remote : Commits \cup {None}, pr : {"none", "draft", "ready", "merged"}, open : BOOLEAN,
   ready : BOOLEAN]
ChildType ==
  [role : Role \cup {"none"}, phase : {"none", "gated", "live", "leaderless"}]
GhostType == [blessed : Tree, vouched : SUBSET Commit, reviewed : Commits \cup {None}]
UsedType  == [faults : Nat, fixes : Nat, requeues : Nat]

TypeOK ==
  /\ pc \in Place
  /\ ctl \in CtlType
  /\ st \in StatusType
  /\ repo \in RepoType
  /\ hub \in HubType
  /\ child \in ChildType
  /\ ghost \in GhostType
  /\ used \in UsedType

\* The role of the child is chosen before it is launched and kept until its result.
RoleFits ==
  /\ pc \in Running => ctl.role \in Role
  /\ pc \in Role => ctl.role = pc

USE DEF Goto, At, Keep, Exit, Raise

-------------------------------------------------------------------------------
(* Writes of the status file, field by field *)

\* What the status file may be told.
LEMMA Names ==
  /\ {"RECOVERABLE_CHANGES", "RECOVERY_BLOCKED", "COMMITTING", "COMMITTED", "PUSHED",
      "IMPLEMENTING", "FIXING", "REVIEWING"} \subseteq States
  /\ {"STAGING", "STAGED", "COMMITTED", "PUSHED", "PR_CREATED"} \subseteq Checkpoint
  BY DEF States, Checkpoint, Checkpoints

\* A write without fields keeps all others, except the child's PID.
LEMMA PlainWrite ==
  ASSUME st \in StatusType, NEW s \in States, WriteStatus(s, Nothing)
  PROVE  /\ st' \in StatusType
         /\ st'.state = s /\ st'.pid = FALSE /\ st'.ckpt = st.ckpt /\ st'.paths = st.paths
         /\ st'.snap = st.snap /\ st'.content = st.content /\ st'.base = st.base
         /\ st'.pre = st.pre /\ st'.subject = st.subject /\ st'.ptree = st.ptree
         /\ st'.commit = st.commit /\ st'.pr = st.pr
  BY DEF StatusType, WriteStatus, Over, Nothing

\* A write that records the child.
LEMMA PidWrite ==
  ASSUME st \in StatusType, NEW s \in States, NEW p \in BOOLEAN, WriteStatus(s, [pid |-> p])
  PROVE  /\ st' \in StatusType
         /\ st'.state = s /\ st'.pid = p /\ st'.ckpt = st.ckpt /\ st'.paths = st.paths
         /\ st'.snap = st.snap /\ st'.content = st.content /\ st'.base = st.base
         /\ st'.pre = st.pre /\ st'.subject = st.subject /\ st'.ptree = st.ptree
         /\ st'.commit = st.commit /\ st'.pr = st.pr
  BY DEF StatusType, WriteStatus, Over

\* A write of the pull request.
LEMMA PrWrite ==
  ASSUME st \in StatusType, NEW s \in States, WriteStatus(s, [pr |-> TRUE])
  PROVE  /\ st' \in StatusType
         /\ st'.state = s /\ st'.pid = FALSE /\ st'.ckpt = st.ckpt /\ st'.paths = st.paths
         /\ st'.snap = st.snap /\ st'.content = st.content /\ st'.base = st.base
         /\ st'.pre = st.pre /\ st'.subject = st.subject /\ st'.ptree = st.ptree
         /\ st'.commit = st.commit /\ st'.pr = TRUE
  BY DEF StatusType, WriteStatus, Over

\* The checkpoint after git commit.
LEMMA CommitWrite ==
  ASSUME st \in StatusType, NEW s \in States, NEW c \in Checkpoint, NEW head \in Commits,
         WriteStatus(s, [ckpt |-> c, commit |-> head])
  PROVE  /\ st' \in StatusType
         /\ st'.state = s /\ st'.pid = FALSE /\ st'.ckpt = c /\ st'.paths = st.paths
         /\ st'.snap = st.snap /\ st'.content = st.content /\ st'.base = st.base
         /\ st'.pre = st.pre /\ st'.subject = st.subject /\ st'.ptree = st.ptree
         /\ st'.commit = head /\ st'.pr = st.pr
  BY DEF StatusType, WriteStatus, Over

\* The checkpoint after the pull request was opened or found.
LEMMA PrCreatedWrite ==
  ASSUME st \in StatusType, NEW s \in States, NEW c \in Checkpoint, NEW head \in Commits,
         WriteStatus(s, [ckpt |-> c, pr |-> TRUE, commit |-> head])
  PROVE  /\ st' \in StatusType
         /\ st'.state = s /\ st'.pid = FALSE /\ st'.ckpt = c /\ st'.paths = st.paths
         /\ st'.snap = st.snap /\ st'.content = st.content /\ st'.base = st.base
         /\ st'.pre = st.pre /\ st'.subject = st.subject /\ st'.ptree = st.ptree
         /\ st'.commit = head /\ st'.pr = TRUE
  BY DEF StatusType, WriteStatus, Over

\* The checkpoint after git add.
LEMMA StagedWrite ==
  ASSUME st \in StatusType, NEW s \in States, NEW c \in Checkpoint, NEW tree \in Tree,
         WriteStatus(s, [ckpt |-> c, ptree |-> tree])
  PROVE  /\ st' \in StatusType
         /\ st'.state = s /\ st'.pid = FALSE /\ st'.ckpt = c /\ st'.paths = st.paths
         /\ st'.snap = st.snap /\ st'.content = st.content /\ st'.base = st.base
         /\ st'.pre = st.pre /\ st'.subject = st.subject /\ st'.ptree = tree
         /\ st'.commit = st.commit /\ st'.pr = st.pr
  BY DEF StatusType, WriteStatus, Over

\* The checkpoint before git add.
LEMMA StagingWrite ==
  ASSUME st \in StatusType, NEW s \in States, NEW c \in Checkpoint, NEW head \in Commits,
         NEW n \in Int, NEW paths \in Tree, NEW tree \in Tree,
         WriteStatus(s, [ckpt |-> c, pre |-> head, subject |-> n, paths |-> paths,
                         content |-> tree, base |-> head])
  PROVE  /\ st' \in StatusType
         /\ st'.state = s /\ st'.pid = FALSE /\ st'.ckpt = c /\ st'.paths = paths
         /\ st'.snap = st.snap /\ st'.content = tree /\ st'.base = head
         /\ st'.pre = head /\ st'.subject = n /\ st'.ptree = st.ptree
         /\ st'.commit = st.commit /\ st'.pr = st.pr
  BY DEF StatusType, WriteStatus, Over

\* A write of captured_recovery_scope: a clean checkout keeps the older manifest.
LEMMA ScopeWrite ==
  ASSUME st \in StatusType, NEW s \in States, Paths \in Tree, Snapshot \in Shot,
         WriteStatus(s, Scope)
  PROVE  /\ st' \in StatusType
         /\ st'.state = s /\ st'.pid = FALSE /\ st'.ckpt = st.ckpt
         /\ st'.snap = IF Dirty THEN Snapshot ELSE st.snap
         /\ st'.paths = IF Dirty THEN Paths ELSE st.paths
         /\ st'.content = st.content /\ st'.base = st.base
         /\ st'.pre = st.pre /\ st'.subject = st.subject /\ st'.ptree = st.ptree
         /\ st'.commit = st.commit /\ st'.pr = st.pr
<1>1. CASE Dirty
  BY <1>1 DEF StatusType, WriteStatus, Over, Scope
<1>2. CASE ~Dirty
  BY <1>2, PlainWrite DEF Scope
<1> QED BY <1>1, <1>2

\* The write before a child: one that writes files forgets the recovery fields.
LEMMA LaunchWrite ==
  ASSUME st \in StatusType, NEW s \in States, NEW head \in Commits,
         ChildStatus(s, [base |-> head])
  PROVE  /\ st' \in StatusType
         /\ st'.state = s /\ st'.pid = FALSE /\ st'.base = head
         /\ WritesFiles(ctl.role) =>
              /\ st'.ckpt = None /\ st'.paths = {} /\ st'.snap = None /\ st'.content = None
              /\ st'.pre = None /\ st'.subject = None /\ st'.ptree = None
              /\ st'.commit = None /\ st'.pr = FALSE
         /\ ~WritesFiles(ctl.role) =>
              /\ st'.ckpt = st.ckpt /\ st'.paths = st.paths
              /\ st'.snap = st.snap /\ st'.content = st.content
              /\ st'.pre = st.pre /\ st'.subject = st.subject /\ st'.ptree = st.ptree
              /\ st'.commit = st.commit /\ st'.pr = st.pr
<1>1. CASE WritesFiles(ctl.role)
  BY <1>1 DEF StatusType, ChildStatus, ResetStatus, NoStatus, Over, Checkpoint, Tree
<1>2. CASE ~WritesFiles(ctl.role)
  BY <1>2 DEF StatusType, ChildStatus, WriteStatus, Over
<1> QED BY <1>1, <1>2

\* The write that records the child's process group, with the scope of a dirty checkout.
LEMMA ChildWrite ==
  ASSUME st \in StatusType, NEW s \in States, NEW head \in Commits,
         Paths \in Tree, Snapshot \in Shot,
         ChildStatus(s, IF Dirty
                        THEN [base |-> head, pid |-> TRUE, paths |-> Paths, snap |-> Snapshot]
                        ELSE [base |-> head, pid |-> TRUE])
  PROVE  /\ st' \in StatusType
         /\ st'.state = s /\ st'.pid = TRUE /\ st'.base = head
         /\ st'.snap = IF Dirty THEN Snapshot
                       ELSE IF WritesFiles(ctl.role) THEN None ELSE st.snap
         /\ WritesFiles(ctl.role) =>
              /\ st'.ckpt = None /\ st'.content = None
              /\ st'.pre = None /\ st'.subject = None /\ st'.ptree = None
              /\ st'.commit = None /\ st'.pr = FALSE
         /\ ~WritesFiles(ctl.role) =>
              /\ st'.ckpt = st.ckpt /\ st'.content = st.content
              /\ st'.pre = st.pre /\ st'.subject = st.subject /\ st'.ptree = st.ptree
              /\ st'.commit = st.commit /\ st'.pr = st.pr
<1>1. CASE Dirty
  <2>1. CASE WritesFiles(ctl.role)
    BY <1>1, <2>1 DEF StatusType, ChildStatus, ResetStatus, NoStatus, Over, Checkpoint, Tree
  <2>2. CASE ~WritesFiles(ctl.role)
    BY <1>1, <2>2 DEF StatusType, ChildStatus, WriteStatus, Over
  <2> QED BY <2>1, <2>2
<1>2. CASE ~Dirty
  <2>1. CASE WritesFiles(ctl.role)
    BY <1>2, <2>1 DEF StatusType, ChildStatus, ResetStatus, NoStatus, Over, Checkpoint, Tree
  <2>2. CASE ~WritesFiles(ctl.role)
    BY <1>2, <2>2 DEF StatusType, ChildStatus, WriteStatus, Over
  <2> QED BY <2>1, <2>2
<1> QED BY <1>1, <1>2

\* A write with reset_recovery.
LEMMA FreshWrite ==
  ASSUME NEW s \in States, ResetStatus(s, Nothing)
  PROVE  /\ st' \in StatusType
         /\ st' = [NoStatus EXCEPT !.state = s]
  BY DEF StatusType, ResetStatus, NoStatus, Over, Nothing, Checkpoint, Tree

-------------------------------------------------------------------------------
(* Types *)

\* The types of what the actions compute.
LEMMA HandCommitsType ==
  ASSUME NEW c \in Commits
  PROVE  HandCommits(c) \subseteq Commit
<1>1. \A i \in DOMAIN c : c[i] \in Commit
  BY DEF Commits
<1> QED BY <1>1 DEF HandCommits

\* The checkout on main is a checkout.
LEMMA MainType == OnMain \in RepoType
<1>1. << >> \in Commits /\ {} \in Tree
  BY DEF Commits, Tree
<1> QED BY <1>1 DEF OnMain, RepoType

\* A pull request is for a branch that was pushed, and so is a checkpoint after the push.
RemoteFits ==
  \/ hub.pr # "none"
  \/ pc \in {"pushed", "pr", "pr_created", "ready", "recheck", "merge"}
  \/ ctl.done >= 2
  => hub.remote # None

\* What is captured of the checkout is of its type.
LEMMA ScopeType ==
  ASSUME TypeOK
  PROVE  HeadTree \in Tree /\ Paths \in Tree /\ Snapshot \in Shot
<1>1. HeadTree \in Tree
  <2>1. CASE repo.head = << >>
    BY <2>1 DEF HeadTree, Tree
  <2>2. CASE repo.head # << >>
    <3>1. repo.head \in Seq(Commit)
      BY DEF TypeOK, RepoType, Commits
    <3>2. repo.head[Len(repo.head)] \in Commit
      BY <2>2, <3>1
    <3> QED BY <2>2, <3>2 DEF HeadTree, Last, Commit
  <2> QED BY <2>1, <2>2
<1> QED BY <1>1 DEF TypeOK, RepoType, Paths, Snapshot, Shot, Commits, Tree

\* A controller that starts has completed no finalization step.
LEMMA NoCtlDone == NoCtl.done = 0 /\ \A m : [NoCtl EXCEPT !.mode = m].done = 0
  BY DEF NoCtl

\* A controller that starts has no child.
LEMMA NoCtlType == NoCtl \in CtlType /\ NoCtl.role = "none"
  BY DEF NoCtl, CtlType

\* A fault uses up one unit of its bound.
LEMMA FaultType ==
  ASSUME used \in UsedType, NEW kind, Fault(kind)
  PROVE  used' \in UsedType
  BY DEF UsedType, Fault

\* Every action keeps the types, and the role of the child.
LEMMA TypeStep ==
  ASSUME TypeOK, RoleFits, RemoteFits, [Next]_vars
  PROVE  TypeOK' /\ RoleFits'
<1>s. Paths \in Tree /\ Snapshot \in Shot /\ HeadTree \in Tree
  BY ScopeType
<1>r. ctl.round \in Nat
  BY DEF TypeOK, CtlType
<1>1. ASSUME NEW m \in Modes, Start(m) PROVE TypeOK' /\ RoleFits'
  <2>1. ctl' \in CtlType
    <3>1. m \in {"none", "once", "watch", "confirm"}
      BY <1>1, HandoffAssumption
    <3>2. [NoCtl EXCEPT !.mode = m] \in CtlType
      BY <3>1, NoCtlType DEF CtlType
    <3> QED BY <1>1, <3>2 DEF Start
  <2> QED BY <1>1, <2>1
             DEF Start, TypeOK, RoleFits, Place, OutsideSteps, Preparing, Running, Role,
                 Finalizing, Merging, Ending, HandlerSteps
<1>2. ASSUME Reconcile PROVE TypeOK' /\ RoleFits'
  BY <1>2, NoCtlType
     DEF Reconcile, TypeOK, RoleFits, Place, OutsideSteps, Preparing, Running, Role,
         Finalizing, Merging, Ending, HandlerSteps
<1>3. ASSUME MeetOrphan PROVE TypeOK' /\ RoleFits'
  <2>1. st' \in StatusType
    BY <1>3, PidWrite DEF MeetOrphan, Block, TypeOK, StatusType, States
  <2>2. child' \in ChildType
    BY <1>3, <1>s DEF MeetOrphan, TypeOK, ChildType, NoChild
  <2> QED BY <1>3, <2>1, <2>2, NoCtlType
             DEF MeetOrphan, TypeOK, RoleFits, Place, OutsideSteps, Preparing, Running, Role,
                 Finalizing, Merging, Ending, HandlerSteps, Block
<1>4. ASSUME InspectUnprovenBranch PROVE TypeOK' /\ RoleFits'
  <2>1. st' \in StatusType
    BY <1>4, PidWrite DEF InspectUnprovenBranch, Block, TypeOK, StatusType, States
  <2> QED BY <1>4, <2>1, NoCtlType
             DEF InspectUnprovenBranch, TypeOK, RoleFits, Place, OutsideSteps, Preparing,
                 Running, Role, Finalizing, Merging, Ending, HandlerSteps, Block
<1>5. ASSUME InspectCommit PROVE TypeOK' /\ RoleFits'
  <2>1. st' \in StatusType
    BY <1>5, CommitWrite
       DEF InspectCommit, ResumeWith, TypeOK, RepoType, States, Checkpoint, Checkpoints
  <2>2. ctl' \in CtlType
    BY <1>5, NoCtlType DEF InspectCommit, ResumeWith, TypeOK, CtlType, Role
  <2> QED BY <1>5, <2>1, <2>2, NoCtlType
             DEF InspectCommit, TypeOK, RoleFits, Place, OutsideSteps, Preparing, Running,
                 Role, Finalizing, Merging, Ending, HandlerSteps, ResumeWith, CtlType
<1>6. ASSUME InspectNoChanges PROVE TypeOK' /\ RoleFits'
  <2>1. st' \in StatusType
    BY <1>6, PlainWrite DEF InspectNoChanges, TypeOK, States
  <2> QED BY <1>6, <2>1, NoCtlType
             DEF InspectNoChanges, TypeOK, RoleFits, Place, OutsideSteps, Preparing, Running,
                 Role, Finalizing, Merging, Ending, HandlerSteps
<1>7. ASSUME NoChanges PROVE TypeOK' /\ RoleFits'
  <2>1. st' \in StatusType
    BY <1>7, PlainWrite DEF NoChanges, TypeOK, States
  <2> QED BY <1>7, <2>1, NoCtlType
             DEF NoChanges, TypeOK, RoleFits, Place, OutsideSteps, Preparing, Running, Role,
                 Finalizing, Merging, Ending, HandlerSteps
<1>8. ASSUME InspectUnattributed PROVE TypeOK' /\ RoleFits'
  <2>1. st' \in StatusType
    BY <1>8, PidWrite DEF InspectUnattributed, Proven, TypeOK, States
  <2> QED BY <1>8, <2>1, NoCtlType
             DEF InspectUnattributed, TypeOK, RoleFits, Place, OutsideSteps, Preparing,
                 Running, Role, Finalizing, Merging, Ending, HandlerSteps
<1>9. ASSUME InspectRecoverable PROVE TypeOK' /\ RoleFits'
  <2>1. st' \in StatusType
    BY <1>9, PlainWrite DEF InspectRecoverable, ResumeWith, TypeOK, States
  <2>2. ctl' \in CtlType
    BY <1>9, NoCtlType DEF InspectRecoverable, ResumeWith, TypeOK, CtlType, Role
  <2> QED BY <1>9, <2>1, <2>2, NoCtlType
             DEF InspectRecoverable, TypeOK, RoleFits, Place, OutsideSteps, Preparing, Running,
                 Role, Finalizing, Merging, Ending, HandlerSteps, ResumeWith, CtlType
<1>10. ASSUME ConfirmRecovery PROVE TypeOK' /\ RoleFits'
  <2>1. st' \in StatusType
    BY <1>10, ScopeWrite, <1>s DEF ConfirmRecovery, ResumeWith, TypeOK, States
  <2>2. ctl' \in CtlType
    BY <1>10, NoCtlType DEF ConfirmRecovery, ResumeWith, TypeOK, CtlType, Role
  <2>3. ghost' \in GhostType
    <3>1. Stray(repo.tree) \in Tree /\ HandCommits(repo.head) \subseteq Commit
      BY HandCommitsType DEF TypeOK, RepoType, Stray, Tree
    <3>2. \/ ghost' = ghost
          \/ ghost' = [ghost EXCEPT !.blessed = @ \cup Stray(repo.tree),
                                    !.vouched = @ \cup HandCommits(repo.head)]
      BY <1>10 DEF ConfirmRecovery
    <3> QED BY <3>1, <3>2 DEF TypeOK, GhostType, Tree
  <2> QED BY <1>10, <2>1, <2>2, <2>3, NoCtlType
             DEF ConfirmRecovery, TypeOK, RoleFits, Place, OutsideSteps, Preparing, Running,
                 Role, Finalizing, Merging, Ending, HandlerSteps, ResumeWith, CtlType
<1>11. ASSUME Recover PROVE TypeOK' /\ RoleFits'
  BY <1>11, NoCtlType
     DEF Recover, TypeOK, RoleFits, Place, OutsideSteps, Preparing, Running, Role, Finalizing,
         Merging, Ending, HandlerSteps
<1>12. ASSUME Select PROVE TypeOK' /\ RoleFits'
  <2>1. st' \in StatusType
    BY <1>12, PlainWrite, FreshWrite DEF Select, TypeOK, States
  <2> QED BY <1>12, <2>1, NoCtlType
             DEF Select, TypeOK, RoleFits, Place, OutsideSteps, Preparing, Running, Role,
                 Finalizing, Merging, Ending, HandlerSteps
<1>13. ASSUME Sleep PROVE TypeOK' /\ RoleFits'
  BY <1>13, NoCtlType
     DEF Sleep, TypeOK, RoleFits, Place, OutsideSteps, Preparing, Running, Role, Finalizing,
         Merging, Ending, HandlerSteps
<1>14. ASSUME LabelRunning PROVE TypeOK' /\ RoleFits'
  BY <1>14, NoCtlType
     DEF LabelRunning, TypeOK, RoleFits, Place, OutsideSteps, Preparing, Running, Role,
         Finalizing, Merging, Ending, HandlerSteps, HubType
<1>15. ASSUME SyncMain PROVE TypeOK' /\ RoleFits'
  <2>1. repo' \in RepoType
    BY <1>15, MainType DEF SyncMain
  <2> QED BY <1>15, <2>1, NoCtlType
             DEF SyncMain, TypeOK, RoleFits, Place, OutsideSteps, Preparing, Running, Role,
                 Finalizing, Merging, Ending, HandlerSteps
<1>16. ASSUME CheckoutTask PROVE TypeOK' /\ RoleFits'
  <2>1. ctl' \in CtlType
    BY <1>16, NoCtlType DEF CheckoutTask, TypeOK, CtlType, Role
  <2> QED BY <1>16, <2>1, NoCtlType
             DEF CheckoutTask, TypeOK, RoleFits, Place, OutsideSteps, Preparing, Running, Role,
                 Finalizing, Merging, Ending, HandlerSteps, RepoType, CtlType
<1>17. ASSUME Launch PROVE TypeOK' /\ RoleFits'
  <2>1. st' \in StatusType
    BY <1>17, LaunchWrite DEF Launch, TypeOK, RepoType, States
  <2> QED BY <1>17, <2>1, NoCtlType
             DEF Launch, TypeOK, RoleFits, Place, OutsideSteps, Preparing, Running, Role,
                 Finalizing, Merging, Ending, HandlerSteps
<1>18. ASSUME Spawn PROVE TypeOK' /\ RoleFits'
  BY <1>18, NoCtlType
     DEF Spawn, TypeOK, RoleFits, Place, OutsideSteps, Preparing, Running, Role, Finalizing,
         Merging, Ending, HandlerSteps, ChildType
<1>19. ASSUME RecordChild PROVE TypeOK' /\ RoleFits'
  <2>1. st' \in StatusType
    BY <1>19, ChildWrite, <1>s DEF RecordChild, TypeOK, RepoType, States, RoleState
  <2> QED BY <1>19, <2>1, NoCtlType
             DEF RecordChild, TypeOK, RoleFits, Place, OutsideSteps, Preparing, Running, Role,
                 Finalizing, Merging, Ending, HandlerSteps
<1>20. ASSUME OpenGate PROVE TypeOK' /\ RoleFits'
  BY <1>20, NoCtlType
     DEF OpenGate, TypeOK, RoleFits, Place, OutsideSteps, Preparing, Running, Role, Finalizing,
         Merging, Ending, HandlerSteps, ChildType
<1>21. ASSUME Await PROVE TypeOK' /\ RoleFits'
  <2>1. ctl' \in CtlType
    BY <1>21, NoCtlType DEF Await, TypeOK, CtlType
  <2> QED BY <1>21, <2>1, NoCtlType
             DEF Await, TypeOK, RoleFits, Place, OutsideSteps, Preparing, Running, Role,
                 Finalizing, Merging, Ending, HandlerSteps, ChildType, NoChild, CtlType
<1>22. ASSUME Reaped PROVE TypeOK' /\ RoleFits'
  <2>1. st' \in StatusType
    BY <1>22, ScopeWrite, <1>s DEF Reaped, TypeOK, RoleState, States
  <2> QED BY <1>22, <2>1, NoCtlType
             DEF Reaped, TypeOK, RoleFits, Place, OutsideSteps, Preparing, Running, Role,
                 Finalizing, Merging, Ending, HandlerSteps
<1>23. ASSUME ImplResult PROVE TypeOK' /\ RoleFits'
  <2>1. st' \in StatusType
    BY <1>23, ScopeWrite, <1>s DEF ImplResult, Preserve, TypeOK, States
  <2>2. ctl' \in CtlType
    BY <1>23, NoCtlType DEF ImplResult, Preserve, TypeOK, CtlType, Role
  <2>3. repo' \in RepoType
    BY <1>23, MainType DEF ImplResult, TypeOK
  <2> QED BY <1>23, <2>1, <2>2, <2>3, NoCtlType
             DEF ImplResult, TypeOK, RoleFits, Place, OutsideSteps, Preparing, Running, Role,
                 Finalizing, Merging, Ending, HandlerSteps, Preserve, CtlType
<1>24. ASSUME ReviewResult PROVE TypeOK' /\ RoleFits'
  <2>1. ctl' \in CtlType
    BY <1>24, NoCtlType DEF ReviewResult, TypeOK, CtlType, Role
  <2>2. ghost' \in GhostType
    BY <1>24, <1>s DEF ReviewResult, TypeOK, GhostType, RepoType
  <2>3. used' \in UsedType
    BY <1>24 DEF ReviewResult, TypeOK, UsedType
  <2> QED BY <1>24, <2>1, <2>2, <2>3, NoCtlType
             DEF ReviewResult, TypeOK, RoleFits, Place, OutsideSteps, Preparing, Running, Role,
                 Finalizing, Merging, Ending, HandlerSteps, CtlType
<1>25. ASSUME FixResult PROVE TypeOK' /\ RoleFits'
  <2>1. st' \in StatusType
    BY <1>25, ScopeWrite, <1>s DEF FixResult, Preserve, TypeOK, States
  <2>2. ctl' \in CtlType
    BY <1>25, NoCtlType DEF FixResult, Preserve, TypeOK, CtlType, Role
  <2> QED BY <1>25, <2>1, <2>2, NoCtlType
             DEF FixResult, TypeOK, RoleFits, Place, OutsideSteps, Preparing, Running, Role,
                 Finalizing, Merging, Ending, HandlerSteps, Preserve, CtlType
<1>26. ASSUME Begin PROVE TypeOK' /\ RoleFits'
  <2>1. ctl' \in CtlType
    BY <1>26, NoCtlType DEF Begin, TypeOK, CtlType, Completed
  <2> QED BY <1>26, <2>1, NoCtlType
             DEF Begin, TypeOK, RoleFits, Place, OutsideSteps, Preparing, Running, Role,
                 Finalizing, Merging, Ending, HandlerSteps, CtlType
<1>27. ASSUME Verify PROVE TypeOK' /\ RoleFits'
  <2>1. st' \in StatusType
    BY <1>27, PlainWrite DEF Verify, TypeOK, States
  <2> QED BY <1>27, <2>1, NoCtlType
             DEF Verify, TypeOK, RoleFits, Place, OutsideSteps, Preparing, Running, Role,
                 Finalizing, Merging, Ending, HandlerSteps
<1>28. ASSUME Gates PROVE TypeOK' /\ RoleFits'
  <2>1. repo' \in RepoType
    BY <1>28, <1>s
       DEF Gates, TypeOK, RepoType, Tree, GATE, GateWrites, Added, ChildMark, Commits
  <2> QED BY <1>28, <2>1, NoCtlType
             DEF Gates, TypeOK, RoleFits, Place, OutsideSteps, Preparing, Running, Role,
                 Finalizing, Merging, Ending, HandlerSteps
<1>29. ASSUME Verified PROVE TypeOK' /\ RoleFits'
  BY <1>29, NoCtlType
     DEF Verified, TypeOK, RoleFits, Place, OutsideSteps, Preparing, Running, Role, Finalizing,
         Merging, Ending, HandlerSteps
<1>30. ASSUME Stage PROVE TypeOK' /\ RoleFits'
  <2>1. st' \in StatusType
    <3>1. repo.head \in Commits /\ repo.tree \in Tree /\ ctl.round \in Int
      BY <1>r DEF TypeOK, RepoType
    <3>2. CASE UNCHANGED st
      BY <3>2 DEF TypeOK
    <3>3. CASE WriteStatus("COMMITTING",
                 [ckpt |-> "STAGING", pre |-> repo.head, subject |-> ctl.round,
                  paths |-> Paths, content |-> repo.tree, base |-> repo.head])
      <4>1. st \in StatusType /\ "COMMITTING" \in States /\ "STAGING" \in Checkpoint
        BY Names DEF TypeOK
      <4> QED BY <1>s, <3>1, <3>3, <4>1, StagingWrite
    <3> QED BY <1>30, <3>2, <3>3 DEF Stage
  <2> QED BY <1>30, <2>1, NoCtlType
             DEF Stage, TypeOK, RoleFits, Place, OutsideSteps, Preparing, Running, Role,
                 Finalizing, Merging, Ending, HandlerSteps
<1>31. ASSUME GitAdd PROVE TypeOK' /\ RoleFits'
  BY <1>31, NoCtlType
     DEF GitAdd, TypeOK, RoleFits, Place, OutsideSteps, Preparing, Running, Role, Finalizing,
         Merging, Ending, HandlerSteps, RepoType
<1>32. ASSUME Staged PROVE TypeOK' /\ RoleFits'
  <2>1. st' \in StatusType
    <3>1. st \in StatusType /\ repo.index \in Tree
      BY DEF TypeOK, RepoType
    <3>2. WriteStatus("COMMITTING", [ckpt |-> "STAGED", ptree |-> repo.index])
      BY <1>32 DEF Staged
    <3> QED BY <3>1, <3>2, Names, StagedWrite
  <2> QED BY <1>32, <2>1, NoCtlType
             DEF Staged, TypeOK, RoleFits, Place, OutsideSteps, Preparing, Running, Role,
                 Finalizing, Merging, Ending, HandlerSteps
<1>33. ASSUME GitCommit PROVE TypeOK' /\ RoleFits'
  <2>1. repo' \in RepoType
    <3>1. [subject |-> ctl.round, tree |-> repo.index] \in Commit
      BY <1>r DEF TypeOK, RepoType, Commit
    <3>2. Append(repo.head, [subject |-> ctl.round, tree |-> repo.index]) \in Commits
      BY <3>1 DEF TypeOK, RepoType, Commits
    <3> QED BY <1>33, <3>2 DEF GitCommit, TypeOK, RepoType
  <2> QED BY <1>33, <2>1, NoCtlType
             DEF GitCommit, TypeOK, RoleFits, Place, OutsideSteps, Preparing, Running, Role,
                 Finalizing, Merging, Ending, HandlerSteps
<1>34. ASSUME Committed PROVE TypeOK' /\ RoleFits'
  <2>1. st' \in StatusType
    BY <1>34, CommitWrite DEF Committed, TypeOK, RepoType, States, Checkpoint, Checkpoints
  <2> QED BY <1>34, <2>1, NoCtlType
             DEF Committed, TypeOK, RoleFits, Place, OutsideSteps, Preparing, Running, Role,
                 Finalizing, Merging, Ending, HandlerSteps
<1>35. ASSUME Push PROVE TypeOK' /\ RoleFits'
  <2>1. st' \in StatusType
    BY <1>35, PlainWrite DEF Push, TypeOK, States
  <2> QED BY <1>35, <2>1, NoCtlType
             DEF Push, TypeOK, RoleFits, Place, OutsideSteps, Preparing, Running, Role,
                 Finalizing, Merging, Ending, HandlerSteps
<1>36. ASSUME GitPush PROVE TypeOK' /\ RoleFits'
  BY <1>36, NoCtlType
     DEF GitPush, TypeOK, RoleFits, Place, OutsideSteps, Preparing, Running, Role, Finalizing,
         Merging, Ending, HandlerSteps, HubType, RepoType
<1>37. ASSUME Pushed PROVE TypeOK' /\ RoleFits'
  <2>1. st' \in StatusType
    BY <1>37, CommitWrite DEF Pushed, TypeOK, RepoType, States, Checkpoint, Checkpoints
  <2>2. ctl' \in CtlType /\ (pc' = "launch" => ctl'.role \in Role)
    <3>1. ctl.round + 1 \in Nat
      BY <1>r
    <3>2. ctl' \in {ctl, [ctl EXCEPT !.role = "review", !.round = ctl.round + 1]}
      BY <1>37 DEF Pushed
    <3>3. [ctl EXCEPT !.role = "review", !.round = ctl.round + 1] \in CtlType
      BY <3>1 DEF TypeOK, CtlType, Role
    <3> QED BY <3>2, <3>3, <1>37 DEF Pushed, TypeOK, Role, CtlType
  <2> QED BY <1>37, <2>1, <2>2, NoCtlType
             DEF Pushed, TypeOK, RoleFits, Place, OutsideSteps, Preparing, Running, Role,
                 Finalizing, Merging, Ending, HandlerSteps, CtlType
<1>38. ASSUME OpenPr PROVE TypeOK' /\ RoleFits'
  BY <1>38, NoCtlType
     DEF OpenPr, TypeOK, RoleFits, Place, OutsideSteps, Preparing, Running, Role, Finalizing,
         Merging, Ending, HandlerSteps, HubType
<1>39. ASSUME PrCreated PROVE TypeOK' /\ RoleFits'
  <2>1. st' \in StatusType
    BY <1>39, PrCreatedWrite DEF PrCreated, TypeOK, RepoType, States, Checkpoint, Checkpoints
  <2>2. ctl' \in CtlType
    BY <1>39, NoCtlType DEF PrCreated, TypeOK, CtlType, Role
  <2> QED BY <1>39, <2>1, <2>2, NoCtlType
             DEF PrCreated, TypeOK, RoleFits, Place, OutsideSteps, Preparing, Running, Role,
                 Finalizing, Merging, Ending, HandlerSteps, CtlType
<1>40. ASSUME ReviewPassed PROVE TypeOK' /\ RoleFits'
  <2>1. st' \in StatusType
    BY <1>40, PrWrite DEF ReviewPassed, TypeOK, States
  <2> QED BY <1>40, <2>1, NoCtlType
             DEF ReviewPassed, TypeOK, RoleFits, Place, OutsideSteps, Preparing, Running, Role,
                 Finalizing, Merging, Ending, HandlerSteps
<1>41. ASSUME MergeCheck PROVE TypeOK' /\ RoleFits'
  BY <1>41, NoCtlType
     DEF MergeCheck, TypeOK, RoleFits, Place, OutsideSteps, Preparing, Running, Role,
         Finalizing, Merging, Ending, HandlerSteps
<1>42. ASSUME MarkReady PROVE TypeOK' /\ RoleFits'
  BY <1>42, NoCtlType
     DEF MarkReady, TypeOK, RoleFits, Place, OutsideSteps, Preparing, Running, Role,
         Finalizing, Merging, Ending, HandlerSteps, HubType
<1>43. ASSUME Recheck PROVE TypeOK' /\ RoleFits'
  <2>1. st' \in StatusType
    BY <1>43, PrWrite DEF Recheck, TypeOK, States
  <2> QED BY <1>43, <2>1, NoCtlType
             DEF Recheck, TypeOK, RoleFits, Place, OutsideSteps, Preparing, Running, Role,
                 Finalizing, Merging, Ending, HandlerSteps
<1>44. ASSUME Merge PROVE TypeOK' /\ RoleFits'
  BY <1>44, NoCtlType
     DEF Merge, TypeOK, RoleFits, Place, OutsideSteps, Preparing, Running, Role, Finalizing,
         Merging, Ending, HandlerSteps, HubType
<1>45. ASSUME RecordOutcome PROVE TypeOK' /\ RoleFits'
  <2>1. st' \in StatusType
    BY <1>45, PrWrite DEF RecordOutcome, TypeOK, States
  <2> QED BY <1>45, <2>1, NoCtlType
             DEF RecordOutcome, TypeOK, RoleFits, Place, OutsideSteps, Preparing, Running,
                 Role, Finalizing, Merging, Ending, HandlerSteps
<1>46. ASSUME Finish PROVE TypeOK' /\ RoleFits'
  <2>1. ctl' \in CtlType
    BY <1>46, NoCtlType DEF Finish, NoCtl, CtlType, Role
  <2> QED BY <1>46, <2>1, NoCtlType
             DEF Finish, TypeOK, RoleFits, Place, OutsideSteps, Preparing, Running, Role,
                 Finalizing, Merging, Ending, HandlerSteps, CtlType
<1>47. ASSUME Crash PROVE TypeOK' /\ RoleFits'
  <2>1. used' \in UsedType
    BY <1>47, FaultType DEF Crash, TypeOK
  <2> QED BY <1>47, <2>1, NoCtlType
             DEF Crash, TypeOK, RoleFits, Place, OutsideSteps, Preparing, Running, Role,
                 Finalizing, Merging, Ending, HandlerSteps, ChildType, NoChild
<1>48. ASSUME Error PROVE TypeOK' /\ RoleFits'
  <2>1. st' \in StatusType
    BY <1>48, ScopeWrite, <1>s DEF Error, StopChild, RoleState, TypeOK, States
  <2>2. child' \in ChildType
    BY <1>48, <1>s DEF Error, TypeOK, ChildType, StopChild, NoChild
  <2>3. used' \in UsedType
    BY <1>48, FaultType DEF Error, TypeOK
  <2>4. ctl' \in CtlType /\ pc' \in {"down", "handle_error"}
    BY <1>48, NoCtlType DEF Error, TypeOK
  <2> QED BY <1>48, <2>1, <2>2, <2>3, <2>4, NoCtlType
             DEF Error, TypeOK, RoleFits, Place, OutsideSteps, Preparing, Running, Role,
                 Finalizing, Merging, Ending, HandlerSteps, ChildSteps, NoCtl, StopChild
<1>49. ASSUME HandleError PROVE TypeOK' /\ RoleFits'
  <2>1. st' \in StatusType
    BY <1>49, PlainWrite DEF HandleError, TypeOK, States
  <2> QED BY <1>49, <2>1, NoCtlType
             DEF HandleError, TypeOK, RoleFits, Place, OutsideSteps, Preparing, Running, Role,
                 Finalizing, Merging, Ending, HandlerSteps
<1>50. ASSUME Interrupt PROVE TypeOK' /\ RoleFits'
  <2>1. st' \in StatusType
    BY <1>50, ScopeWrite, PlainWrite, <1>s DEF Interrupt, StopChild, RoleState, TypeOK, States
  <2>2. ctl' \in CtlType
    BY <1>50, NoCtlType DEF Interrupt, TypeOK, CtlType, Role
  <2>3. child' \in ChildType
    BY <1>50, <1>s DEF Interrupt, TypeOK, ChildType, StopChild, NoChild
  <2>4. used' \in UsedType
    BY <1>50, FaultType DEF Interrupt, TypeOK
  <2> QED BY <1>50, <2>1, <2>2, <2>3, <2>4, NoCtlType
             DEF Interrupt, TypeOK, RoleFits, Place, OutsideSteps, Preparing, Running, Role,
                 Finalizing, Merging, Ending, HandlerSteps, NoCtl, CtlType
<1>51. ASSUME HandleInterrupt PROVE TypeOK' /\ RoleFits'
  <2>1. st' \in StatusType
    BY <1>51, ScopeWrite, PlainWrite, <1>s DEF HandleInterrupt, TypeOK, States
  <2> QED BY <1>51, <2>1, NoCtlType
             DEF HandleInterrupt, TypeOK, RoleFits, Place, OutsideSteps, Preparing, Running,
                 Role, Finalizing, Merging, Ending, HandlerSteps
<1>52. ASSUME ChildWrites PROVE TypeOK' /\ RoleFits'
  <2>1. repo' \in RepoType
    BY <1>52, <1>s DEF ChildWrites, TypeOK, RepoType, Tree, ChildMark, Commits
  <2> QED BY <1>52, <2>1, NoCtlType
             DEF ChildWrites, TypeOK, RoleFits, Place, OutsideSteps, Preparing, Running, Role,
                 Finalizing, Merging, Ending, HandlerSteps
<1>53. ASSUME OrphanEnds PROVE TypeOK' /\ RoleFits'
  <2>1. child' \in ChildType
    BY <1>53, <1>s DEF OrphanEnds, TypeOK, ChildType, NoChild
  <2> QED BY <1>53, <2>1, NoCtlType
             DEF OrphanEnds, TypeOK, RoleFits, Place, OutsideSteps, Preparing, Running, Role,
                 Finalizing, Merging, Ending, HandlerSteps
<1>54. ASSUME StrayEdit PROVE TypeOK' /\ RoleFits'
  <2>1. repo' \in RepoType
    <3>1. Added \in Int /\ Touched \in Int
      BY DEF TypeOK, RepoType, Added, Touched, ChildMark, Commits
    <3>2. repo.tree \cup {Added} \in Tree /\ repo.tree \cup {Touched} \in Tree
      BY <3>1 DEF TypeOK, RepoType, Tree
    <3> QED BY <1>54, <1>s, <3>2 DEF StrayEdit, TypeOK, RepoType
  <2>2. used' \in UsedType
    BY <1>54, FaultType DEF StrayEdit, TypeOK
  <2> QED BY <1>54, <2>1, <2>2, NoCtlType
             DEF StrayEdit, TypeOK, RoleFits, Place, OutsideSteps, Preparing, Running, Role,
                 Finalizing, Merging, Ending, HandlerSteps
<1>55. ASSUME HandCommit PROVE TypeOK' /\ RoleFits'
  <2>1. repo' \in RepoType
    <3>1. [subject |-> HAND, tree |-> repo.tree] \in Commit
      BY DEF TypeOK, RepoType, Commit, HAND
    <3>2. Append(repo.head, [subject |-> HAND, tree |-> repo.tree]) \in Commits
      BY <3>1 DEF TypeOK, RepoType, Commits
    <3> QED BY <1>55, <3>2 DEF HandCommit, TypeOK, RepoType
  <2>2. used' \in UsedType
    BY <1>55, FaultType DEF HandCommit, TypeOK
  <2> QED BY <1>55, <2>1, <2>2, NoCtlType
             DEF HandCommit, TypeOK, RoleFits, Place, OutsideSteps, Preparing, Running, Role,
                 Finalizing, Merging, Ending, HandlerSteps
<1>56. ASSUME ForeignPush PROVE TypeOK' /\ RoleFits'
  <2>1. hub' \in HubType
    <3>1. [subject |-> FOREIGN, tree |-> {}] \in Commit
      BY DEF Commit, FOREIGN, Tree
    <3>2. ASSUME hub.remote # None
          PROVE  Append(hub.remote, [subject |-> FOREIGN, tree |-> {}]) \in Commits
      BY <3>1, <3>2 DEF TypeOK, HubType, Commits
    <3>3. hub.remote # None
      BY <1>56 DEF ForeignPush, RemoteFits
    <3> QED BY <1>56, <3>2, <3>3 DEF ForeignPush, TypeOK, HubType
  <2>2. used' \in UsedType
    BY <1>56, FaultType DEF ForeignPush, TypeOK
  <2> QED BY <1>56, <2>1, <2>2, NoCtlType
             DEF ForeignPush, TypeOK, RoleFits, Place, OutsideSteps, Preparing, Running, Role,
                 Finalizing, Merging, Ending, HandlerSteps
<1>57. ASSUME CloseIssue PROVE TypeOK' /\ RoleFits'
  <2>1. used' \in UsedType
    BY <1>57, FaultType DEF CloseIssue, TypeOK
  <2> QED BY <1>57, <2>1, NoCtlType
             DEF CloseIssue, TypeOK, RoleFits, Place, OutsideSteps, Preparing, Running, Role,
                 Finalizing, Merging, Ending, HandlerSteps, HubType
<1>58. ASSUME Requeue PROVE TypeOK' /\ RoleFits'
  <2>1. used' \in UsedType
    BY <1>58 DEF Requeue, TypeOK, UsedType
  <2> QED BY <1>58, <2>1, NoCtlType
             DEF Requeue, TypeOK, RoleFits, Place, OutsideSteps, Preparing, Running, Role,
                 Finalizing, Merging, Ending, HandlerSteps, HubType
<1>59. CASE UNCHANGED vars
  BY <1>59 DEF vars, TypeOK, RoleFits
<1> QED BY <1>1, <1>2, <1>3, <1>4, <1>5, <1>6, <1>7, <1>8, <1>9, <1>10, <1>11, <1>12, <1>13,
           <1>14, <1>15, <1>16, <1>17, <1>18, <1>19, <1>20, <1>21, <1>22, <1>23, <1>24, <1>25,
           <1>26, <1>27, <1>28, <1>29, <1>30, <1>31, <1>32, <1>33, <1>34, <1>35, <1>36, <1>37,
           <1>38, <1>39, <1>40, <1>41, <1>42, <1>43, <1>44, <1>45, <1>46, <1>47, <1>48, <1>49,
           <1>50, <1>51, <1>52, <1>53, <1>54, <1>55, <1>56, <1>57, <1>58, <1>59
           DEF Next, Step, Startup, RunChild, Finalize, Handle, World

\* Every action keeps what RemoteFits says of the remote branch.
LEMMA RemoteStep ==
  ASSUME TypeOK, RoleFits, RemoteFits, [Next]_vars
  PROVE  RemoteFits'
<1>1. ASSUME NEW m \in Modes, Start(m) PROVE RemoteFits'
  BY <1>1, NoCtlDone, NoneAssumption DEF Start, RemoteFits, TypeOK, CtlType, HubType
<1>2. ASSUME Reconcile PROVE RemoteFits'
  BY <1>2, NoCtlDone, NoneAssumption DEF Reconcile, RemoteFits, TypeOK, CtlType, HubType
<1>3. ASSUME MeetOrphan PROVE RemoteFits'
  BY <1>3, NoCtlDone, NoneAssumption DEF MeetOrphan, RemoteFits, TypeOK, CtlType, HubType
<1>4. ASSUME InspectUnprovenBranch PROVE RemoteFits'
  BY <1>4, NoCtlDone, NoneAssumption
     DEF InspectUnprovenBranch, RemoteFits, TypeOK, CtlType, HubType
<1>5. ASSUME InspectCommit PROVE RemoteFits'
  BY <1>5, NoCtlDone, NoneAssumption
     DEF InspectCommit, RemoteFits, TypeOK, CtlType, HubType, ResumeWith
<1>6. ASSUME InspectNoChanges PROVE RemoteFits'
  BY <1>6, NoCtlDone, NoneAssumption DEF InspectNoChanges, RemoteFits, TypeOK, CtlType, HubType
<1>7. ASSUME NoChanges PROVE RemoteFits'
  BY <1>7, NoCtlDone, NoneAssumption DEF NoChanges, RemoteFits, TypeOK, CtlType, HubType
<1>8. ASSUME InspectUnattributed PROVE RemoteFits'
  BY <1>8, NoCtlDone, NoneAssumption
     DEF InspectUnattributed, RemoteFits, TypeOK, CtlType, HubType
<1>9. ASSUME InspectRecoverable PROVE RemoteFits'
  BY <1>9, NoCtlDone, NoneAssumption
     DEF InspectRecoverable, RemoteFits, TypeOK, CtlType, HubType, ResumeWith
<1>10. ASSUME ConfirmRecovery PROVE RemoteFits'
  BY <1>10, NoCtlDone, NoneAssumption
     DEF ConfirmRecovery, RemoteFits, TypeOK, CtlType, HubType, ResumeWith
<1>11. ASSUME Recover PROVE RemoteFits'
  BY <1>11, NoCtlDone, NoneAssumption DEF Recover, RemoteFits, TypeOK, CtlType, HubType
<1>12. ASSUME Select PROVE RemoteFits'
  BY <1>12, NoCtlDone, NoneAssumption DEF Select, RemoteFits, TypeOK, CtlType, HubType
<1>13. ASSUME Sleep PROVE RemoteFits'
  BY <1>13, NoCtlDone, NoneAssumption DEF Sleep, RemoteFits, TypeOK, CtlType, HubType
<1>14. ASSUME LabelRunning PROVE RemoteFits'
  BY <1>14, NoCtlDone, NoneAssumption DEF LabelRunning, RemoteFits, TypeOK, CtlType, HubType
<1>15. ASSUME SyncMain PROVE RemoteFits'
  BY <1>15, NoCtlDone, NoneAssumption DEF SyncMain, RemoteFits, TypeOK, CtlType, HubType
<1>16. ASSUME CheckoutTask PROVE RemoteFits'
  BY <1>16, NoCtlDone, NoneAssumption DEF CheckoutTask, RemoteFits, TypeOK, CtlType, HubType
<1>17. ASSUME Launch PROVE RemoteFits'
  BY <1>17, NoCtlDone, NoneAssumption DEF Launch, RemoteFits, TypeOK, CtlType, HubType
<1>18. ASSUME Spawn PROVE RemoteFits'
  BY <1>18, NoCtlDone, NoneAssumption DEF Spawn, RemoteFits, TypeOK, CtlType, HubType
<1>19. ASSUME RecordChild PROVE RemoteFits'
  BY <1>19, NoCtlDone, NoneAssumption DEF RecordChild, RemoteFits, TypeOK, CtlType, HubType
<1>20. ASSUME OpenGate PROVE RemoteFits'
  BY <1>20, NoCtlDone, NoneAssumption DEF OpenGate, RemoteFits, TypeOK, CtlType, HubType
<1>21. ASSUME Await PROVE RemoteFits'
  BY <1>21, NoCtlDone, NoneAssumption DEF Await, RemoteFits, TypeOK, CtlType, HubType
<1>22. ASSUME Reaped PROVE RemoteFits'
  <2>1. ctl.role \in Role
    BY <1>22 DEF Reaped, RoleFits, Running
  <2> QED BY <1>22, <2>1 DEF Reaped, RemoteFits, Role
<1>23. ASSUME ImplResult PROVE RemoteFits'
  BY <1>23, NoCtlDone, NoneAssumption
     DEF ImplResult, RemoteFits, TypeOK, CtlType, HubType, Preserve
<1>24. ASSUME ReviewResult PROVE RemoteFits'
  BY <1>24, NoCtlDone, NoneAssumption DEF ReviewResult, RemoteFits, TypeOK, CtlType, HubType
<1>25. ASSUME FixResult PROVE RemoteFits'
  BY <1>25, NoCtlDone, NoneAssumption
     DEF FixResult, RemoteFits, TypeOK, CtlType, HubType, Preserve
<1>26. ASSUME Begin PROVE RemoteFits'
  <2>1. Completed(st.ckpt) >= 2 /\ ValidCheckpoint(Completed(st.ckpt)) => hub.remote # None
    BY NoneAssumption DEF ValidCheckpoint, TypeOK, RepoType, Commits, Completed
  <2> QED BY <1>26, <2>1 DEF Begin, RemoteFits, TypeOK, CtlType, HubType
<1>27. ASSUME Verify PROVE RemoteFits'
  BY <1>27, NoCtlDone, NoneAssumption DEF Verify, RemoteFits, TypeOK, CtlType, HubType
<1>28. ASSUME Gates PROVE RemoteFits'
  BY <1>28, NoCtlDone, NoneAssumption DEF Gates, RemoteFits, TypeOK, CtlType, HubType
<1>29. ASSUME Verified PROVE RemoteFits'
  BY <1>29, NoCtlDone, NoneAssumption DEF Verified, RemoteFits, TypeOK, CtlType, HubType
<1>30. ASSUME Stage PROVE RemoteFits'
  BY <1>30, NoCtlDone, NoneAssumption DEF Stage, RemoteFits, TypeOK, CtlType, HubType
<1>31. ASSUME GitAdd PROVE RemoteFits'
  BY <1>31, NoCtlDone, NoneAssumption DEF GitAdd, RemoteFits, TypeOK, CtlType, HubType
<1>32. ASSUME Staged PROVE RemoteFits'
  BY <1>32, NoCtlDone, NoneAssumption DEF Staged, RemoteFits, TypeOK, CtlType, HubType
<1>33. ASSUME GitCommit PROVE RemoteFits'
  BY <1>33, NoCtlDone, NoneAssumption DEF GitCommit, RemoteFits, TypeOK, CtlType, HubType
<1>34. ASSUME Committed PROVE RemoteFits'
  BY <1>34, NoCtlDone, NoneAssumption DEF Committed, RemoteFits, TypeOK, CtlType, HubType
<1>35. ASSUME Push PROVE RemoteFits'
  BY <1>35, NoCtlDone, NoneAssumption DEF Push, RemoteFits, TypeOK, CtlType, HubType
<1>36. ASSUME GitPush PROVE RemoteFits'
  <2>1. repo.head # None
    BY NoneAssumption DEF TypeOK, RepoType, Commits
  <2> QED BY <1>36, <2>1 DEF GitPush, RemoteFits, TypeOK, HubType
<1>37. ASSUME Pushed PROVE RemoteFits'
  BY <1>37, NoCtlDone, NoneAssumption DEF Pushed, RemoteFits, TypeOK, CtlType, HubType
<1>38. ASSUME OpenPr PROVE RemoteFits'
  BY <1>38, NoCtlDone, NoneAssumption DEF OpenPr, RemoteFits, TypeOK, CtlType, HubType
<1>39. ASSUME PrCreated PROVE RemoteFits'
  BY <1>39, NoCtlDone, NoneAssumption DEF PrCreated, RemoteFits, TypeOK, CtlType, HubType
<1>40. ASSUME ReviewPassed PROVE RemoteFits'
  BY <1>40, NoCtlDone, NoneAssumption DEF ReviewPassed, RemoteFits, TypeOK, CtlType, HubType
<1>41. ASSUME MergeCheck PROVE RemoteFits'
  BY <1>41, NoCtlDone, NoneAssumption
     DEF MergeCheck, RemoteFits, TypeOK, CtlType, HubType, PrAtReviewedHead
<1>42. ASSUME MarkReady PROVE RemoteFits'
  BY <1>42, NoCtlDone, NoneAssumption DEF MarkReady, RemoteFits, TypeOK, CtlType, HubType
<1>43. ASSUME Recheck PROVE RemoteFits'
  BY <1>43, NoCtlDone, NoneAssumption DEF Recheck, RemoteFits, TypeOK, CtlType, HubType
<1>44. ASSUME Merge PROVE RemoteFits'
  BY <1>44, NoCtlDone, NoneAssumption DEF Merge, RemoteFits, TypeOK, CtlType, HubType
<1>45. ASSUME RecordOutcome PROVE RemoteFits'
  BY <1>45, NoCtlDone, NoneAssumption DEF RecordOutcome, RemoteFits, TypeOK, CtlType, HubType
<1>46. ASSUME Finish PROVE RemoteFits'
  BY <1>46, NoCtlType, NoCtlDone, NoneAssumption
     DEF Finish, RemoteFits, TypeOK, CtlType, HubType
<1>47. ASSUME Crash PROVE RemoteFits'
  BY <1>47, NoCtlDone, NoneAssumption DEF Crash, RemoteFits, TypeOK, CtlType, HubType
<1>48. ASSUME Error PROVE RemoteFits'
  BY <1>48, NoCtlDone, NoneAssumption DEF Error, RemoteFits, TypeOK, CtlType, HubType
<1>49. ASSUME HandleError PROVE RemoteFits'
  BY <1>49, NoCtlDone, NoneAssumption DEF HandleError, RemoteFits, TypeOK, CtlType, HubType
<1>50. ASSUME Interrupt PROVE RemoteFits'
  BY <1>50, NoCtlDone, NoneAssumption DEF Interrupt, RemoteFits, TypeOK, CtlType, HubType
<1>51. ASSUME HandleInterrupt PROVE RemoteFits'
  BY <1>51, NoCtlDone, NoneAssumption DEF HandleInterrupt, RemoteFits, TypeOK, CtlType, HubType
<1>52. ASSUME ChildWrites PROVE RemoteFits'
  BY <1>52, NoCtlDone, NoneAssumption DEF ChildWrites, RemoteFits, TypeOK, CtlType, HubType
<1>53. ASSUME OrphanEnds PROVE RemoteFits'
  BY <1>53, NoCtlDone, NoneAssumption DEF OrphanEnds, RemoteFits, TypeOK, CtlType, HubType
<1>54. ASSUME StrayEdit PROVE RemoteFits'
  BY <1>54, NoCtlDone, NoneAssumption DEF StrayEdit, RemoteFits, TypeOK, CtlType, HubType
<1>55. ASSUME HandCommit PROVE RemoteFits'
  BY <1>55, NoCtlDone, NoneAssumption DEF HandCommit, RemoteFits, TypeOK, CtlType, HubType
<1>56. ASSUME ForeignPush PROVE RemoteFits'
  <2>1. [subject |-> FOREIGN, tree |-> {}] \in Commit
    BY DEF Commit, FOREIGN, Tree
  <2>2. hub.remote \in Seq(Commit)
    BY <1>56 DEF ForeignPush, RemoteFits, TypeOK, HubType, Commits
  <2>3. Append(hub.remote, [subject |-> FOREIGN, tree |-> {}]) \in Seq(Commit)
    BY <2>1, <2>2
  <2>4. hub'.remote # None
    BY <1>56, <2>3, NoneAssumption DEF ForeignPush, TypeOK, HubType
  <2> QED BY <2>4 DEF RemoteFits
<1>57. ASSUME CloseIssue PROVE RemoteFits'
  BY <1>57, NoCtlDone, NoneAssumption DEF CloseIssue, RemoteFits, TypeOK, CtlType, HubType
<1>58. ASSUME Requeue PROVE RemoteFits'
  BY <1>58, NoCtlDone, NoneAssumption DEF Requeue, RemoteFits, TypeOK, CtlType, HubType
<1>59. CASE UNCHANGED vars
  BY <1>59 DEF vars, RemoteFits
<1> QED BY <1>1, <1>2, <1>3, <1>4, <1>5, <1>6, <1>7, <1>8, <1>9, <1>10, <1>11, <1>12, <1>13,
           <1>14, <1>15, <1>16, <1>17, <1>18, <1>19, <1>20, <1>21, <1>22, <1>23, <1>24, <1>25,
           <1>26, <1>27, <1>28, <1>29, <1>30, <1>31, <1>32, <1>33, <1>34, <1>35, <1>36, <1>37,
           <1>38, <1>39, <1>40, <1>41, <1>42, <1>43, <1>44, <1>45, <1>46, <1>47, <1>48, <1>49,
           <1>50, <1>51, <1>52, <1>53, <1>54, <1>55, <1>56, <1>57, <1>58, <1>59
           DEF Next, Step, Startup, RunChild, Finalize, Handle, World

-------------------------------------------------------------------------------
(* The parts of the invariant *)

\* A child other than the implementer belongs to a review round.
RoundFits ==
  \/ pc \in Running /\ ctl.role # "impl"
  \/ pc \in {"review", "fix"}
  => ctl.round > 0

\* Recovery begins with the work it took up, an ordinary task with none.
Recovering ==
  /\ pc \in OutsideSteps \cup Preparing => ctl.round = 0
  /\ pc \in (OutsideSteps \ {"recover"}) \cup Preparing => ~ctl.rec
  /\ pc \in Running /\ ctl.role = "impl" => ~ctl.rec
  /\ pc = "impl" => ~ctl.rec
  /\ pc = "recover" => ctl.rec
  /\ pc = "begin" /\ ctl.rec => ctl.round = 0
  /\ ctl.done > 0 => ctl.rec

\* Nothing is left of an earlier task once a new one has been selected.
Cleared ==
  \/ pc \in Preparing
  \/ pc \in Running /\ ctl.role = "impl"
  \/ pc = "impl"
  => st.ckpt = None

\* The commits of this checkout are on GitHub.
Pushes == hub.remote # None /\ IsPrefix(repo.head, hub.remote)

\* What is about to be recorded, or was taken over from the checkpoint, has happened.
Reached ==
  /\ pc \in {"pushed", "pr", "pr_created"} => Pushes
  /\ pc \in {"verify", "gates", "verified"} /\ ctl.round = 0 /\ ctl.done >= 2 => Pushes
  /\ pc = "pr_created" => hub.pr # "none"

Recorded == CheckpointsTrue /\ Cleared /\ Reached

\* Between the verdict and the merge the commits are those the reviewer passed.
VerdictStands == pc \in Merging => ghost.reviewed = repo.head

\* After the merge no task runs again: its issue is closed.
MergeIsFinal ==
  hub.pr = "merged" => ~hub.open /\ pc \in Ending \cup OutsideSteps \cup HandlerSteps

Reviewed == MergedWasReviewed /\ VerdictStands /\ MergeIsFinal

\* Only a child that the status file names passes the launch gate.
GateHolds ==
  /\ pc \in {"record", "open"} <=> child.phase = "gated"
  /\ pc = "open" => st.pid /\ st.state \in ChildStates

Accounted == ChildrenAccounted /\ GateHolds

\* A task runs on its own branch, and review rounds follow a pull request.
OnTask ==
  /\ pc \in {"recover"} \cup Running \cup Role \cup Finalizing \cup Merging => repo.branch = "task"
  /\ repo.head # << >> => repo.branch = "task"
  /\ ctl.round > 0 => hub.pr # "none"

\* What the controller is about to commit is what it staged, on the parent and with
\* the subject it recorded.
Pipeline ==
  /\ pc \in {"add", "staged", "commit"} =>
       st.state = "COMMITTING" /\ st.pre = repo.head /\ st.subject = ctl.round
  /\ pc \in {"staged", "commit"} => repo.index = repo.tree
  /\ pc = "commit" => st.ckpt = "STAGED" /\ st.ptree = repo.index

\* The commit is made and its checkpoint is not written yet.
InWindow ==
  /\ st.state = "COMMITTING" /\ st.ckpt = "STAGED" /\ ProvenCommit /\ ~Dirty
  /\ pc \in {"committed", "down", "reconcile", "inspect"}

\* The status file leads to every commit that is not yet in a pull request.
Found ==
  Unpublished =>
    /\ st.state \in ReconcileStates
    /\ Completed(st.ckpt) > 0 \/ InWindow

\* Before a commit, and once its pull request is there, there is none to find.
SettledPlace ==
  \/ pc \in {"select", "no_changes"} \cup Preparing \cup Running \cup Role \cup Merging
  \/ pc \in {"stage", "add", "staged", "commit", "merged", "blocked", "finish"}
  \/ pc \in {"begin", "verify", "gates", "verified"} /\ (~ctl.rec \/ ctl.round > 0)
  \/ pc \in {"verify", "gates", "verified"} /\ ctl.done = 0

Settled == SettledPlace => ~Unpublished

\* An error on the way to the pull request keeps the state resumable.
Resumable ==
  /\ pc \in {"gates", "verified", "committed", "push", "git_push", "pushed", "pr", "pr_created"} =>
       st.state \in FinalizationStates
  /\ pc = "handle_error" /\ Unpublished => ctl.rec \/ st.state \in FinalizationStates
  /\ pc # "handle_interrupt"

Kept == OnTask /\ Pipeline /\ Found /\ Settled /\ Resumable

\* Files and commits from elsewhere that nobody confirmed.
Clean(commits, tree) ==
  HandCommits(commits) \subseteq ghost.vouched /\ Stray(tree) \subseteq ghost.blessed

\* Where the controller works on the tree without a further look at the status file,
\* there are none.
Trusted ==
  \/ pc \in {"branch"} \cup Running \cup Role \cup Merging
  \/ pc \in Finalizing \ {"begin", "verify", "gates", "verified"}
  \/ pc = "begin" /\ ~ctl.rec
  \/ pc \in {"verify", "gates", "verified"} /\ ~(ctl.rec /\ ctl.round = 0)
  \/ pc = "handle_interrupt" /\ ctl.role = "impl"

TrustedTree == Trusted => Clean(repo.head, repo.tree)
StagedTree ==
  /\ pc \in {"add", "staged"} => st.ckpt = "STAGING"
  /\ pc \in {"staged", "commit"} => Stray(repo.index) \subseteq ghost.blessed
  /\ pc \in {"committed", "push", "git_push", "pushed", "pr", "pr_created"} =>
       Stray(HeadTree) \subseteq ghost.blessed

\* Recovered commits are those of the checkpoint.
RecoveredHead ==
  pc \in {"verify", "gates", "verified"} /\ ctl.rec /\ ctl.round = 0 /\ ctl.done > 0
    => st.commit = repo.head

TreeOf(commits) == IF commits = << >> THEN {} ELSE Last(commits).tree

\* Nothing from elsewhere got into the status file unconfirmed.
TrustedFile ==
  /\ st.snap # None => Clean(st.snap.head, st.snap.tree)
  /\ st.base # None => Clean(st.base, {})
  /\ st.pre # None => Clean(st.pre, {})
  /\ st.commit # None => Clean(st.commit, TreeOf(st.commit))
  /\ st.ckpt \in {"STAGING", "STAGED"} =>
       st.base # None /\ st.pre # None /\ st.subject \in Nat /\ Clean(<< >>, st.content)
  /\ st.ckpt = "STAGED" => Clean(<< >>, st.ptree)

Attributed ==
  /\ StrayNeverCommitted /\ OnlyOwnCommitsPublished
  /\ TrustedTree /\ StagedTree /\ RecoveredHead /\ TrustedFile

-------------------------------------------------------------------------------
(* Prefixes *)

\* A prefix, commit by commit.
LEMMA PrefixDef ==
  ASSUME NEW s \in Commits, NEW t \in Commits
  PROVE  IsPrefix(s, t) <=> Len(s) <= Len(t) /\ \A i \in 1..Len(s) : s[i] = t[i]
<1> DEFINE n == Len(s)
<1>1. n \in Nat /\ Len(t) \in Nat /\ (\A i \in 1..n : s[i] \in Commit) /\ SubSeq(s, 1, n) = s
  BY SubSeqFull DEF Commits
<1>2. SUFFICES ASSUME n <= Len(t)
               PROVE  s = SubSeq(t, 1, n) <=> \A i \in 1..n : s[i] = t[i]
  BY <1>1 DEF IsPrefix
<1>3. \A i \in 1..n : t[i] \in Commit
  BY <1>1, <1>2 DEF Commits
<1>4. /\ SubSeq(t, 1, n) \in Seq(Commit)
      /\ Len(SubSeq(t, 1, n)) = n
      /\ \A i \in 1..n : SubSeq(t, 1, n)[i] = t[i]
  BY <1>1, <1>3, SubSeqProperties
<1> QED BY <1>1, <1>4, SeqEqual DEF Commits

\* Prefixes are ordered, and appending to the longer one keeps them.
LEMMA PrefixSelf ==
  ASSUME NEW s \in Commits
  PROVE  IsPrefix(s, s)
<1>1. Len(s) \in Nat
  BY DEF Commits
<1> QED BY <1>1, PrefixDef

\* Being a prefix is transitive.
LEMMA PrefixTrans ==
  ASSUME NEW s \in Commits, NEW t \in Commits, NEW u \in Commits, IsPrefix(s, t), IsPrefix(t, u)
  PROVE  IsPrefix(s, u)
<1>1. Len(s) \in Nat /\ Len(t) \in Nat /\ Len(u) \in Nat
  BY DEF Commits
<1> QED BY <1>1, PrefixDef

\* A prefix stays one when a commit is added.
LEMMA PrefixAppend ==
  ASSUME NEW s \in Commits, NEW t \in Commits, NEW c \in Commit, IsPrefix(s, t)
  PROVE  Append(t, c) \in Commits /\ IsPrefix(s, Append(t, c))
<1>1. /\ Append(t, c) \in Commits /\ Len(Append(t, c)) = Len(t) + 1
      /\ \A i \in 1..Len(t) : Append(t, c)[i] = t[i]
      /\ Len(s) \in Nat /\ Len(t) \in Nat
  BY DEF Commits
<1>2. Len(s) <= Len(t) /\ \A i \in 1..Len(s) : s[i] = t[i]
  BY PrefixDef
<1>3. Len(s) <= Len(Append(t, c)) /\ \A i \in 1..Len(s) : s[i] = Append(t, c)[i]
  BY <1>1, <1>2
<1> QED BY <1>1, <1>3, PrefixDef

-------------------------------------------------------------------------------
(* The status file tells the truth; only what was reviewed is merged *)

\* Every action keeps the rounds with the roles.
LEMMA RoundStep ==
  ASSUME TypeOK, RoleFits, RoundFits, [Next]_vars
  PROVE  RoundFits'
<1>1. ASSUME NEW m \in Modes, Start(m) PROVE RoundFits'
  BY <1>1, NoCtlType DEF Start, RoundFits, RoleFits, TypeOK, CtlType, Running, Role
<1>2. ASSUME Reconcile PROVE RoundFits'
  BY <1>2, NoCtlType DEF Reconcile, RoundFits, RoleFits, TypeOK, CtlType, Running, Role
<1>3. ASSUME MeetOrphan PROVE RoundFits'
  BY <1>3, NoCtlType
     DEF MeetOrphan, RoundFits, RoleFits, TypeOK, CtlType, Running, Role, NoChild
<1>4. ASSUME InspectUnprovenBranch PROVE RoundFits'
  BY <1>4, NoCtlType
     DEF InspectUnprovenBranch, RoundFits, RoleFits, TypeOK, CtlType, Running, Role
<1>5. ASSUME InspectCommit PROVE RoundFits'
  BY <1>5, NoCtlType
     DEF InspectCommit, RoundFits, RoleFits, TypeOK, CtlType, Running, Role, ResumeWith
<1>6. ASSUME InspectNoChanges PROVE RoundFits'
  BY <1>6, NoCtlType DEF InspectNoChanges, RoundFits, RoleFits, TypeOK, CtlType, Running, Role
<1>7. ASSUME NoChanges PROVE RoundFits'
  BY <1>7, NoCtlType DEF NoChanges, RoundFits, RoleFits, TypeOK, CtlType, Running, Role
<1>8. ASSUME InspectUnattributed PROVE RoundFits'
  BY <1>8, NoCtlType
     DEF InspectUnattributed, RoundFits, RoleFits, TypeOK, CtlType, Running, Role
<1>9. ASSUME InspectRecoverable PROVE RoundFits'
  BY <1>9, NoCtlType
     DEF InspectRecoverable, RoundFits, RoleFits, TypeOK, CtlType, Running, Role, ResumeWith
<1>10. ASSUME ConfirmRecovery PROVE RoundFits'
  BY <1>10, NoCtlType
     DEF ConfirmRecovery, RoundFits, RoleFits, TypeOK, CtlType, Running, Role, ResumeWith
<1>11. ASSUME Recover PROVE RoundFits'
  BY <1>11, NoCtlType DEF Recover, RoundFits, RoleFits, TypeOK, CtlType, Running, Role
<1>12. ASSUME Select PROVE RoundFits'
  BY <1>12, NoCtlType DEF Select, RoundFits, RoleFits, TypeOK, CtlType, Running, Role
<1>13. ASSUME Sleep PROVE RoundFits'
  BY <1>13, NoCtlType DEF Sleep, RoundFits, RoleFits, TypeOK, CtlType, Running, Role
<1>14. ASSUME LabelRunning PROVE RoundFits'
  BY <1>14, NoCtlType DEF LabelRunning, RoundFits, RoleFits, TypeOK, CtlType, Running, Role
<1>15. ASSUME SyncMain PROVE RoundFits'
  BY <1>15, NoCtlType DEF SyncMain, RoundFits, RoleFits, TypeOK, CtlType, Running, Role
<1>16. ASSUME CheckoutTask PROVE RoundFits'
  BY <1>16, NoCtlType DEF CheckoutTask, RoundFits, RoleFits, TypeOK, CtlType, Running, Role
<1>17. ASSUME Launch PROVE RoundFits'
  BY <1>17, NoCtlType DEF Launch, RoundFits, RoleFits, TypeOK, CtlType, Running, Role
<1>18. ASSUME Spawn PROVE RoundFits'
  BY <1>18, NoCtlType DEF Spawn, RoundFits, RoleFits, TypeOK, CtlType, Running, Role
<1>19. ASSUME RecordChild PROVE RoundFits'
  BY <1>19, NoCtlType DEF RecordChild, RoundFits, RoleFits, TypeOK, CtlType, Running, Role
<1>20. ASSUME OpenGate PROVE RoundFits'
  BY <1>20, NoCtlType DEF OpenGate, RoundFits, RoleFits, TypeOK, CtlType, Running, Role
<1>21. ASSUME Await PROVE RoundFits'
  BY <1>21, NoCtlType DEF Await, RoundFits, RoleFits, TypeOK, CtlType, Running, Role, NoChild
<1>22. ASSUME Reaped PROVE RoundFits'
  BY <1>22, NoCtlType DEF Reaped, RoundFits, RoleFits, TypeOK, CtlType, Running, Role
<1>23. ASSUME ImplResult PROVE RoundFits'
  BY <1>23, NoCtlType
     DEF ImplResult, RoundFits, RoleFits, TypeOK, CtlType, Running, Role, Preserve
<1>24. ASSUME ReviewResult PROVE RoundFits'
  BY <1>24, NoCtlType DEF ReviewResult, RoundFits, RoleFits, TypeOK, CtlType, Running, Role
<1>25. ASSUME FixResult PROVE RoundFits'
  BY <1>25, NoCtlType
     DEF FixResult, RoundFits, RoleFits, TypeOK, CtlType, Running, Role, Preserve
<1>26. ASSUME Begin PROVE RoundFits'
  BY <1>26, NoCtlType DEF Begin, RoundFits, RoleFits, TypeOK, CtlType, Running, Role
<1>27. ASSUME Verify PROVE RoundFits'
  BY <1>27, NoCtlType DEF Verify, RoundFits, RoleFits, TypeOK, CtlType, Running, Role
<1>28. ASSUME Gates PROVE RoundFits'
  BY <1>28, NoCtlType DEF Gates, RoundFits, RoleFits, TypeOK, CtlType, Running, Role
<1>29. ASSUME Verified PROVE RoundFits'
  BY <1>29, NoCtlType DEF Verified, RoundFits, RoleFits, TypeOK, CtlType, Running, Role
<1>30. ASSUME Stage PROVE RoundFits'
  BY <1>30, NoCtlType DEF Stage, RoundFits, RoleFits, TypeOK, CtlType, Running, Role
<1>31. ASSUME GitAdd PROVE RoundFits'
  BY <1>31, NoCtlType DEF GitAdd, RoundFits, RoleFits, TypeOK, CtlType, Running, Role
<1>32. ASSUME Staged PROVE RoundFits'
  BY <1>32, NoCtlType DEF Staged, RoundFits, RoleFits, TypeOK, CtlType, Running, Role
<1>33. ASSUME GitCommit PROVE RoundFits'
  BY <1>33, NoCtlType DEF GitCommit, RoundFits, RoleFits, TypeOK, CtlType, Running, Role
<1>34. ASSUME Committed PROVE RoundFits'
  BY <1>34, NoCtlType DEF Committed, RoundFits, RoleFits, TypeOK, CtlType, Running, Role
<1>35. ASSUME Push PROVE RoundFits'
  BY <1>35, NoCtlType DEF Push, RoundFits, RoleFits, TypeOK, CtlType, Running, Role
<1>36. ASSUME GitPush PROVE RoundFits'
  BY <1>36, NoCtlType DEF GitPush, RoundFits, RoleFits, TypeOK, CtlType, Running, Role
<1>37. ASSUME Pushed PROVE RoundFits'
  <2>1. ctl.round + 1 > 0 /\ ctl.round \in Nat
    BY DEF TypeOK, CtlType
  <2>2. pc' = "launch" => ctl'.round = ctl.round + 1
    BY <1>37 DEF Pushed, TypeOK, CtlType
  <2>3. pc' \in {"pr", "launch"}
    BY <1>37 DEF Pushed
  <2> QED BY <2>1, <2>2, <2>3 DEF RoundFits, Running
<1>38. ASSUME OpenPr PROVE RoundFits'
  BY <1>38, NoCtlType DEF OpenPr, RoundFits, RoleFits, TypeOK, CtlType, Running, Role
<1>39. ASSUME PrCreated PROVE RoundFits'
  BY <1>39, NoCtlType DEF PrCreated, RoundFits, RoleFits, TypeOK, CtlType, Running, Role
<1>40. ASSUME ReviewPassed PROVE RoundFits'
  BY <1>40, NoCtlType DEF ReviewPassed, RoundFits, RoleFits, TypeOK, CtlType, Running, Role
<1>41. ASSUME MergeCheck PROVE RoundFits'
  BY <1>41, NoCtlType DEF MergeCheck, RoundFits, RoleFits, TypeOK, CtlType, Running, Role
<1>42. ASSUME MarkReady PROVE RoundFits'
  BY <1>42, NoCtlType DEF MarkReady, RoundFits, RoleFits, TypeOK, CtlType, Running, Role
<1>43. ASSUME Recheck PROVE RoundFits'
  BY <1>43, NoCtlType DEF Recheck, RoundFits, RoleFits, TypeOK, CtlType, Running, Role
<1>44. ASSUME Merge PROVE RoundFits'
  BY <1>44, NoCtlType DEF Merge, RoundFits, RoleFits, TypeOK, CtlType, Running, Role
<1>45. ASSUME RecordOutcome PROVE RoundFits'
  BY <1>45, NoCtlType DEF RecordOutcome, RoundFits, RoleFits, TypeOK, CtlType, Running, Role
<1>46. ASSUME Finish PROVE RoundFits'
  BY <1>46, NoCtlType DEF Finish, RoundFits, RoleFits, TypeOK, CtlType, Running, Role
<1>47. ASSUME Crash PROVE RoundFits'
  BY <1>47, NoCtlType DEF Crash, RoundFits, RoleFits, TypeOK, CtlType, Running, Role, NoChild
<1>48. ASSUME Error PROVE RoundFits'
  BY <1>48, NoCtlType
     DEF Error, RoundFits, RoleFits, TypeOK, CtlType, Running, Role, StopChild, NoChild
<1>49. ASSUME HandleError PROVE RoundFits'
  BY <1>49, NoCtlType DEF HandleError, RoundFits, RoleFits, TypeOK, CtlType, Running, Role
<1>50. ASSUME Interrupt PROVE RoundFits'
  BY <1>50, NoCtlType
     DEF Interrupt, RoundFits, RoleFits, TypeOK, CtlType, Running, Role, StopChild, NoChild
<1>51. ASSUME HandleInterrupt PROVE RoundFits'
  BY <1>51, NoCtlType DEF HandleInterrupt, RoundFits, RoleFits, TypeOK, CtlType, Running, Role
<1>52. ASSUME ChildWrites PROVE RoundFits'
  BY <1>52, NoCtlType DEF ChildWrites, RoundFits, RoleFits, TypeOK, CtlType, Running, Role
<1>53. ASSUME OrphanEnds PROVE RoundFits'
  BY <1>53, NoCtlType DEF OrphanEnds, RoundFits, RoleFits, TypeOK, CtlType, Running, Role
<1>54. ASSUME StrayEdit PROVE RoundFits'
  BY <1>54, NoCtlType DEF StrayEdit, RoundFits, RoleFits, TypeOK, CtlType, Running, Role
<1>55. ASSUME HandCommit PROVE RoundFits'
  BY <1>55, NoCtlType DEF HandCommit, RoundFits, RoleFits, TypeOK, CtlType, Running, Role
<1>56. ASSUME ForeignPush PROVE RoundFits'
  BY <1>56, NoCtlType DEF ForeignPush, RoundFits, RoleFits, TypeOK, CtlType, Running, Role
<1>57. ASSUME CloseIssue PROVE RoundFits'
  BY <1>57, NoCtlType DEF CloseIssue, RoundFits, RoleFits, TypeOK, CtlType, Running, Role
<1>58. ASSUME Requeue PROVE RoundFits'
  BY <1>58, NoCtlType DEF Requeue, RoundFits, RoleFits, TypeOK, CtlType, Running, Role
<1>59. CASE UNCHANGED vars
  BY <1>59, NoCtlType DEF vars, RoundFits, RoleFits, TypeOK, CtlType, Running, Role
<1> QED BY <1>1, <1>2, <1>3, <1>4, <1>5, <1>6, <1>7, <1>8, <1>9, <1>10, <1>11, <1>12, <1>13,
           <1>14, <1>15, <1>16, <1>17, <1>18, <1>19, <1>20, <1>21, <1>22, <1>23, <1>24, <1>25,
           <1>26, <1>27, <1>28, <1>29, <1>30, <1>31, <1>32, <1>33, <1>34, <1>35, <1>36, <1>37,
           <1>38, <1>39, <1>40, <1>41, <1>42, <1>43, <1>44, <1>45, <1>46, <1>47, <1>48, <1>49,
           <1>50, <1>51, <1>52, <1>53, <1>54, <1>55, <1>56, <1>57, <1>58, <1>59
           DEF Next, Step, Startup, RunChild, Finalize, Handle, World

\* Every action keeps the checkpoint true.
LEMMA RecordedStep ==
  ASSUME TypeOK, RoleFits, RemoteFits, RoundFits, Recorded, [Next]_vars
  PROVE  Recorded'
<1>s. Paths \in Tree /\ Snapshot \in Shot /\ HeadTree \in Tree
  BY ScopeType
<1>h. repo.head \in Commits /\ IsPrefix(repo.head, repo.head) /\ repo.head # None
  BY PrefixSelf, NoneAssumption DEF TypeOK, RepoType, Commits
<1>c. /\ Completed(None) = 0 /\ Completed("STAGING") = 0 /\ Completed("STAGED") = 0
      /\ Completed("COMMITTED") = 1 /\ Completed("PUSHED") = 2 /\ Completed("PR_CREATED") = 3
  BY NoneAssumption DEF Completed, Checkpoints
<1>p. \A c \in Commits, x \in Commit :
        IsPrefix(c, repo.head) => IsPrefix(c, Append(repo.head, x))
  BY <1>h, PrefixAppend
<1>1. ASSUME NEW m \in Modes, Start(m) PROVE Recorded'
  BY <1>1, NoCtlType, NoneAssumption
     DEF Start, Recorded, CheckpointsTrue, Cleared, Reached, Pushes, RoleFits, RoundFits,
         TypeOK, Preparing, Running, Role, CtlType
<1>2. ASSUME Reconcile PROVE Recorded'
  BY <1>2, NoCtlType, NoneAssumption
     DEF Reconcile, Recorded, CheckpointsTrue, Cleared, Reached, Pushes, RoleFits, RoundFits,
         TypeOK, Preparing, Running, Role, CtlType
<1>3. ASSUME MeetOrphan PROVE Recorded'
  <2>1. st'.ckpt = st.ckpt /\ st'.commit = st.commit
    BY <1>3, PidWrite DEF MeetOrphan, Block, TypeOK, StatusType, States
  <2> QED BY <1>3, <2>1, NoCtlType, NoneAssumption
             DEF MeetOrphan, Recorded, CheckpointsTrue, Cleared, Reached, Pushes, RoleFits,
                 RoundFits, TypeOK, Preparing, Running, Role, CtlType, NoChild
<1>4. ASSUME InspectUnprovenBranch PROVE Recorded'
  <2>1. st'.ckpt = st.ckpt /\ st'.commit = st.commit
    BY <1>4, PidWrite DEF InspectUnprovenBranch, Block, TypeOK, StatusType, States
  <2> QED BY <1>4, <2>1, NoCtlType, NoneAssumption
             DEF InspectUnprovenBranch, Recorded, CheckpointsTrue, Cleared, Reached, Pushes,
                 RoleFits, RoundFits, TypeOK, Preparing, Running, Role, CtlType
<1>5. ASSUME InspectCommit PROVE Recorded'
  <2>1. CASE ProvenCommit
    <3>1. st'.ckpt = "COMMITTED" /\ st'.commit = repo.head
      <4>1. st \in StatusType /\ repo.head \in Commits
        BY DEF TypeOK, RepoType
      <4>2. WriteStatus("RECOVERABLE_CHANGES", [ckpt |-> "COMMITTED", commit |-> repo.head])
        BY <1>5, <2>1 DEF InspectCommit, ResumeWith
      <4> QED BY <4>1, <4>2, Names, CommitWrite
    <3> QED BY <1>5, <1>h, <1>c, <3>1
               DEF InspectCommit, ResumeWith, Recorded, CheckpointsTrue, Cleared, Reached,
                   Preparing, Running
  <2>2. CASE ~ProvenCommit
    BY <1>5, <2>2, NoCtlType
       DEF InspectCommit, Recorded, CheckpointsTrue, Cleared, Reached, Preparing, Running
  <2> QED BY <2>1, <2>2
<1>6. ASSUME InspectNoChanges PROVE Recorded'
  <2>1. st'.ckpt = st.ckpt /\ st'.commit = st.commit
    BY <1>6, PlainWrite DEF InspectNoChanges, TypeOK, States
  <2> QED BY <1>6, <2>1, NoCtlType, NoneAssumption
             DEF InspectNoChanges, Recorded, CheckpointsTrue, Cleared, Reached, Pushes,
                 RoleFits, RoundFits, TypeOK, Preparing, Running, Role, CtlType
<1>7. ASSUME NoChanges PROVE Recorded'
  <2>1. st'.ckpt = st.ckpt /\ st'.commit = st.commit
    BY <1>7, PlainWrite DEF NoChanges, TypeOK, States
  <2> QED BY <1>7, <2>1, NoCtlType, NoneAssumption
             DEF NoChanges, Recorded, CheckpointsTrue, Cleared, Reached, Pushes, RoleFits,
                 RoundFits, TypeOK, Preparing, Running, Role, CtlType
<1>8. ASSUME InspectUnattributed PROVE Recorded'
  <2>1. st'.ckpt = st.ckpt /\ st'.commit = st.commit
    BY <1>8, PidWrite DEF InspectUnattributed, Proven, TypeOK, States
  <2> QED BY <1>8, <2>1, NoCtlType, NoneAssumption
             DEF InspectUnattributed, Recorded, CheckpointsTrue, Cleared, Reached, Pushes,
                 RoleFits, RoundFits, TypeOK, Preparing, Running, Role, CtlType
<1>9. ASSUME InspectRecoverable PROVE Recorded'
  <2>1. st'.ckpt = st.ckpt /\ st'.commit = st.commit
    BY <1>9, PlainWrite DEF InspectRecoverable, ResumeWith, TypeOK, States
  <2> QED BY <1>9, <2>1, NoCtlType, NoneAssumption
             DEF InspectRecoverable, Recorded, CheckpointsTrue, Cleared, Reached, Pushes,
                 RoleFits, RoundFits, TypeOK, Preparing, Running, Role, CtlType, ResumeWith
<1>10. ASSUME ConfirmRecovery PROVE Recorded'
  <2>1. st'.ckpt = st.ckpt /\ st'.commit = st.commit
    BY <1>10, ScopeWrite, <1>s DEF ConfirmRecovery, ResumeWith, TypeOK, States
  <2> QED BY <1>10, <2>1, NoCtlType, NoneAssumption
             DEF ConfirmRecovery, Recorded, CheckpointsTrue, Cleared, Reached, Pushes,
                 RoleFits, RoundFits, TypeOK, Preparing, Running, Role, CtlType, ResumeWith
<1>11. ASSUME Recover PROVE Recorded'
  BY <1>11, NoCtlType, NoneAssumption
     DEF Recover, Recorded, CheckpointsTrue, Cleared, Reached, Pushes, RoleFits, RoundFits,
         TypeOK, Preparing, Running, Role, CtlType
<1>12. ASSUME Select PROVE Recorded'
  <2>1. \/ st'.ckpt = st.ckpt /\ st'.commit = st.commit /\ pc' # "label"
        \/ st'.ckpt = None
    <3>1. CASE WriteStatus("IDLE", Nothing) /\ pc' # "label"
      BY <3>1, PlainWrite DEF TypeOK, States
    <3>2. CASE ResetStatus("SYNCING", Nothing)
      BY <3>2, FreshWrite DEF NoStatus, States
    <3> QED BY <1>12, <3>1, <3>2 DEF Select
  <2> QED BY <1>12, <1>c, <2>1, NoCtlType
             DEF Select, Recorded, CheckpointsTrue, Cleared, Reached, Preparing, Running
<1>13. ASSUME Sleep PROVE Recorded'
  BY <1>13, NoCtlType, NoneAssumption
     DEF Sleep, Recorded, CheckpointsTrue, Cleared, Reached, Pushes, RoleFits, RoundFits,
         TypeOK, Preparing, Running, Role, CtlType
<1>14. ASSUME LabelRunning PROVE Recorded'
  BY <1>14, NoCtlType, NoneAssumption
     DEF LabelRunning, Recorded, CheckpointsTrue, Cleared, Reached, Pushes, RoleFits,
         RoundFits, TypeOK, Preparing, Running, Role, CtlType
<1>15. ASSUME SyncMain PROVE Recorded'
  <2>1. st'.ckpt = None
    BY <1>15 DEF SyncMain, Recorded, Cleared, Preparing
  <2> QED BY <1>15, <1>c, <2>1 DEF SyncMain, Recorded, CheckpointsTrue, Cleared, Reached
<1>16. ASSUME CheckoutTask PROVE Recorded'
  BY <1>16, NoCtlType, NoneAssumption
     DEF CheckoutTask, Recorded, CheckpointsTrue, Cleared, Reached, Pushes, RoleFits,
         RoundFits, TypeOK, Preparing, Running, Role, CtlType
<1>17. ASSUME Launch PROVE Recorded'
  <2>1. \/ st'.ckpt = st.ckpt /\ st'.commit = st.commit
        \/ st'.ckpt = None
    BY <1>17, LaunchWrite DEF Launch, TypeOK, RepoType, States
  <2> QED BY <1>17, <1>c, <2>1
             DEF Launch, Recorded, CheckpointsTrue, Cleared, Reached, Preparing, Running
<1>18. ASSUME Spawn PROVE Recorded'
  BY <1>18, NoCtlType, NoneAssumption
     DEF Spawn, Recorded, CheckpointsTrue, Cleared, Reached, Pushes, RoleFits, RoundFits,
         TypeOK, Preparing, Running, Role, CtlType
<1>19. ASSUME RecordChild PROVE Recorded'
  <2>1. \/ st'.ckpt = st.ckpt /\ st'.commit = st.commit
        \/ st'.ckpt = None
    BY <1>19, <1>s, ChildWrite DEF RecordChild, TypeOK, RepoType, States, RoleState
  <2> QED BY <1>19, <1>c, <2>1
             DEF RecordChild, Recorded, CheckpointsTrue, Cleared, Reached, Preparing, Running
<1>20. ASSUME OpenGate PROVE Recorded'
  BY <1>20, NoCtlType, NoneAssumption
     DEF OpenGate, Recorded, CheckpointsTrue, Cleared, Reached, Pushes, RoleFits, RoundFits,
         TypeOK, Preparing, Running, Role, CtlType
<1>21. ASSUME Await PROVE Recorded'
  BY <1>21, NoCtlType, NoneAssumption
     DEF Await, Recorded, CheckpointsTrue, Cleared, Reached, Pushes, RoleFits, RoundFits,
         TypeOK, Preparing, Running, Role, CtlType, NoChild
<1>22. ASSUME Reaped PROVE Recorded'
  <2>1. st'.ckpt = st.ckpt /\ st'.commit = st.commit
    BY <1>22, ScopeWrite, <1>s DEF Reaped, TypeOK, RoleState, States
  <2> QED BY <1>22, <2>1, NoCtlType, NoneAssumption
             DEF Reaped, Recorded, CheckpointsTrue, Cleared, Reached, Pushes, RoleFits,
                 RoundFits, TypeOK, Preparing, Running, Role, CtlType
<1>23. ASSUME ImplResult PROVE Recorded'
  <2>1. st'.ckpt = None
    BY <1>23, <1>s, ScopeWrite DEF ImplResult, Preserve, TypeOK, States, Recorded, Cleared
  <2> QED BY <1>23, <1>c, <2>1, NoCtlType
             DEF ImplResult, Preserve, Recorded, CheckpointsTrue, Cleared, Reached
<1>24. ASSUME ReviewResult PROVE Recorded'
  BY <1>24, NoCtlType, NoneAssumption
     DEF ReviewResult, Recorded, CheckpointsTrue, Cleared, Reached, Pushes, RoleFits,
         RoundFits, TypeOK, Preparing, Running, Role, CtlType
<1>25. ASSUME FixResult PROVE Recorded'
  <2>1. st'.ckpt = st.ckpt /\ st'.commit = st.commit
    BY <1>25, ScopeWrite, <1>s DEF FixResult, Preserve, TypeOK, States
  <2> QED BY <1>25, <2>1, NoCtlType, NoneAssumption
             DEF FixResult, Recorded, CheckpointsTrue, Cleared, Reached, Pushes, RoleFits,
                 RoundFits, TypeOK, Preparing, Running, Role, CtlType, Preserve
<1>26. ASSUME Begin PROVE Recorded'
  <2>1. Completed(st.ckpt) >= 2 /\ ValidCheckpoint(Completed(st.ckpt)) => Pushes
    BY <1>h DEF ValidCheckpoint, Pushes
  <2>2. pc' = "verify" /\ ctl'.done >= 2 => Pushes
    BY <1>26, <2>1 DEF Begin, TypeOK, CtlType
  <2> QED BY <1>26, <2>2
             DEF Begin, Recorded, CheckpointsTrue, Cleared, Reached, Pushes, Preparing, Running
<1>27. ASSUME Verify PROVE Recorded'
  <2>1. st'.ckpt = st.ckpt /\ st'.commit = st.commit
    BY <1>27, PlainWrite DEF Verify, TypeOK, States
  <2> QED BY <1>27, <2>1, NoCtlType, NoneAssumption
             DEF Verify, Recorded, CheckpointsTrue, Cleared, Reached, Pushes, RoleFits,
                 RoundFits, TypeOK, Preparing, Running, Role, CtlType
<1>28. ASSUME Gates PROVE Recorded'
  <2>1. repo'.head = repo.head
    BY <1>28 DEF Gates, TypeOK, RepoType
  <2> QED BY <1>28, <2>1
             DEF Gates, Recorded, CheckpointsTrue, Cleared, Reached, Pushes, Preparing, Running
<1>29. ASSUME Verified PROVE Recorded'
  BY <1>29, NoCtlType, NoneAssumption
     DEF Verified, Recorded, CheckpointsTrue, Cleared, Reached, Pushes, RoleFits, RoundFits,
         TypeOK, Preparing, Running, Role, CtlType
<1>30. ASSUME Stage PROVE Recorded'
  <2>1. st' = st \/ st'.ckpt = "STAGING"
    <3>1. repo.head \in Commits /\ repo.tree \in Tree /\ ctl.round \in Int
      BY DEF TypeOK, RepoType, CtlType
    <3>2. ASSUME WriteStatus("COMMITTING",
                   [ckpt |-> "STAGING", pre |-> repo.head, subject |-> ctl.round,
                    paths |-> Paths, content |-> repo.tree, base |-> repo.head])
          PROVE  st'.ckpt = "STAGING"
      <4>1. st \in StatusType
        BY DEF TypeOK
      <4> QED BY <3>2, <4>1 DEF WriteStatus, Over, StatusType
    <3> QED BY <1>30, <3>2 DEF Stage
  <2> QED BY <1>30, <1>c, <2>1
             DEF Stage, Recorded, CheckpointsTrue, Cleared, Reached, Preparing, Running
<1>31. ASSUME GitAdd PROVE Recorded'
  BY <1>31, NoCtlType, NoneAssumption
     DEF GitAdd, Recorded, CheckpointsTrue, Cleared, Reached, Pushes, RoleFits, RoundFits,
         TypeOK, Preparing, Running, Role, CtlType
<1>32. ASSUME Staged PROVE Recorded'
  <2>1. st'.ckpt = "STAGED"
    <3>1. st \in StatusType /\ repo.index \in Tree
      BY DEF TypeOK, RepoType
    <3>2. WriteStatus("COMMITTING", [ckpt |-> "STAGED", ptree |-> repo.index])
      BY <1>32 DEF Staged
    <3> QED BY <3>1, <3>2, Names, StagedWrite
  <2> QED BY <1>32, <1>c, <2>1
             DEF Staged, Recorded, CheckpointsTrue, Cleared, Reached, Preparing, Running
<1>33. ASSUME GitCommit PROVE Recorded'
  <2>1. [subject |-> ctl.round, tree |-> repo.index] \in Commit
    BY DEF TypeOK, RepoType, CtlType, Commit, HAND
  <2>2. st.commit # None /\ IsPrefix(st.commit, repo.head) => IsPrefix(st.commit, repo'.head)
    BY <1>33, <1>p, <2>1 DEF GitCommit, TypeOK, RepoType, StatusType
  <2> QED BY <1>33, <2>2
             DEF GitCommit, Recorded, CheckpointsTrue, Cleared, Reached, Preparing, Running
<1>34. ASSUME Committed PROVE Recorded'
  <2>1. st'.ckpt = "COMMITTED" /\ st'.commit = repo.head
    BY <1>34, <1>h, CommitWrite DEF Committed, TypeOK, States, Checkpoint, Checkpoints
  <2> QED BY <1>34, <1>h, <1>c, <2>1
             DEF Committed, Recorded, CheckpointsTrue, Cleared, Reached, Preparing, Running
<1>35. ASSUME Push PROVE Recorded'
  <2>1. st'.ckpt = st.ckpt /\ st'.commit = st.commit
    BY <1>35, PlainWrite DEF Push, TypeOK, States
  <2> QED BY <1>35, <2>1, NoCtlType, NoneAssumption
             DEF Push, Recorded, CheckpointsTrue, Cleared, Reached, Pushes, RoleFits,
                 RoundFits, TypeOK, Preparing, Running, Role, CtlType
<1>36. ASSUME GitPush PROVE Recorded'
  <2>1. pc' \in {"pushed", "handle_error"}
    BY <1>36 DEF GitPush
  <2>2. CASE hub' = hub
    <3>1. pc' = "handle_error" \/ (pc' = "pushed" /\ hub' = [hub EXCEPT !.remote = repo.head])
      BY <1>36 DEF GitPush
    <3>2. hub'.remote = repo.head \/ pc' = "handle_error"
      BY <3>1 DEF TypeOK, HubType
    <3> QED BY <1>36, <1>h, <2>2, <3>2
               DEF GitPush, Recorded, CheckpointsTrue, Cleared, Reached, Pushes, Preparing,
                   Running
  <2>3. CASE hub' = [hub EXCEPT !.remote = repo.head]
    <3>1. hub'.remote = repo.head /\ hub'.pr = hub.pr
      BY <2>3 DEF TypeOK, HubType
    <3> QED BY <1>36, <1>h, <2>1, <3>1
               DEF GitPush, Recorded, CheckpointsTrue, Cleared, Reached, Pushes, Preparing,
                   Running, Completed
  <2> QED BY <1>36, <2>2, <2>3 DEF GitPush
<1>37. ASSUME Pushed PROVE Recorded'
  <2>1. st'.ckpt = "PUSHED" /\ st'.commit = repo.head
    <3>1. st \in StatusType
      BY DEF TypeOK
    <3>2. WriteStatus("PUSHED", [ckpt |-> "PUSHED", commit |-> repo.head])
      BY <1>37 DEF Pushed
    <3> QED BY <1>h, <3>1, <3>2, Names, CommitWrite
  <2>2. pc' = "pr" \/ (pc' = "launch" /\ ctl'.role = "review")
    <3>1. \/ pc' = "pr"
          \/ pc' = "launch" /\ ctl' = [ctl EXCEPT !.role = "review", !.round = ctl.round + 1]
      BY <1>37 DEF Pushed
    <3> QED BY <3>1 DEF TypeOK, CtlType
  <2> QED BY <1>37, <1>h, <1>c, <2>1, <2>2
             DEF Pushed, Recorded, CheckpointsTrue, Cleared, Reached, Pushes, Preparing,
                 Running
<1>38. ASSUME OpenPr PROVE Recorded'
  <2>1. hub'.remote = hub.remote /\ hub'.pr \in {hub.pr, "draft"}
    BY <1>38 DEF OpenPr, TypeOK, HubType
  <2>2. pc' = "handle_error" \/ (pc' = "pr_created" /\ hub'.pr = "draft")
    <3>1. \/ pc' = "handle_error"
          \/ pc' = "pr_created" /\ hub' = hub /\ hub.pr = "draft"
          \/ pc' = "pr_created" /\ hub' = [hub EXCEPT !.pr = "draft"]
      BY <1>38 DEF OpenPr, FindsDraftPr
    <3> QED BY <3>1 DEF TypeOK, HubType
  <2> QED BY <1>38, <2>1, <2>2
             DEF OpenPr, Recorded, CheckpointsTrue, Cleared, Reached, Pushes, Preparing,
                 Running
<1>39. ASSUME PrCreated PROVE Recorded'
  <2>1. st'.ckpt = "PR_CREATED" /\ st'.commit = repo.head
    BY <1>39, <1>h, PrCreatedWrite DEF PrCreated, TypeOK, States, Checkpoint, Checkpoints
  <2>2. pc' = "launch" /\ ctl'.role = "review"
    BY <1>39 DEF PrCreated, TypeOK, CtlType
  <2> QED BY <1>39, <1>h, <1>c, <2>1, <2>2
             DEF PrCreated, Recorded, CheckpointsTrue, Cleared, Reached, Pushes, Preparing,
                 Running
<1>40. ASSUME ReviewPassed PROVE Recorded'
  <2>1. st'.ckpt = st.ckpt /\ st'.commit = st.commit
    BY <1>40, PrWrite DEF ReviewPassed, TypeOK, States
  <2> QED BY <1>40, <2>1, NoCtlType, NoneAssumption
             DEF ReviewPassed, Recorded, CheckpointsTrue, Cleared, Reached, Pushes, RoleFits,
                 RoundFits, TypeOK, Preparing, Running, Role, CtlType
<1>41. ASSUME MergeCheck PROVE Recorded'
  BY <1>41, NoCtlType, NoneAssumption
     DEF MergeCheck, Recorded, CheckpointsTrue, Cleared, Reached, Pushes, RoleFits, RoundFits,
         TypeOK, Preparing, Running, Role, CtlType
<1>42. ASSUME MarkReady PROVE Recorded'
  BY <1>42, NoCtlType, NoneAssumption
     DEF MarkReady, Recorded, CheckpointsTrue, Cleared, Reached, Pushes, RoleFits, RoundFits,
         TypeOK, Preparing, Running, Role, CtlType
<1>43. ASSUME Recheck PROVE Recorded'
  <2>1. st'.ckpt = st.ckpt /\ st'.commit = st.commit
    BY <1>43, PrWrite DEF Recheck, TypeOK, States
  <2> QED BY <1>43, <2>1, NoCtlType, NoneAssumption
             DEF Recheck, Recorded, CheckpointsTrue, Cleared, Reached, Pushes, RoleFits,
                 RoundFits, TypeOK, Preparing, Running, Role, CtlType
<1>44. ASSUME Merge PROVE Recorded'
  <2>1. hub'.remote = hub.remote /\ hub'.pr \in {hub.pr, "merged"}
    BY <1>44 DEF Merge, TypeOK, HubType
  <2> QED BY <1>44, <2>1
             DEF Merge, Recorded, CheckpointsTrue, Cleared, Reached, Preparing, Running
<1>45. ASSUME RecordOutcome PROVE Recorded'
  <2>1. st'.ckpt = st.ckpt /\ st'.commit = st.commit
    BY <1>45, PrWrite DEF RecordOutcome, TypeOK, States
  <2> QED BY <1>45, <2>1, NoCtlType, NoneAssumption
             DEF RecordOutcome, Recorded, CheckpointsTrue, Cleared, Reached, Pushes, RoleFits,
                 RoundFits, TypeOK, Preparing, Running, Role, CtlType
<1>46. ASSUME Finish PROVE Recorded'
  BY <1>46, NoCtlType, NoneAssumption
     DEF Finish, Recorded, CheckpointsTrue, Cleared, Reached, Pushes, RoleFits, RoundFits,
         TypeOK, Preparing, Running, Role, CtlType
<1>47. ASSUME Crash PROVE Recorded'
  BY <1>47, NoCtlType, NoneAssumption
     DEF Crash, Recorded, CheckpointsTrue, Cleared, Reached, Pushes, RoleFits, RoundFits,
         TypeOK, Preparing, Running, Role, CtlType, NoChild
<1>48. ASSUME Error PROVE Recorded'
  <2>1. st'.ckpt = st.ckpt /\ st'.commit = st.commit
    BY <1>48, ScopeWrite, <1>s DEF Error, StopChild, RoleState, TypeOK, States
  <2> QED BY <1>48, <2>1, NoCtlType, NoneAssumption
             DEF Error, Recorded, CheckpointsTrue, Cleared, Reached, Pushes, RoleFits,
                 RoundFits, TypeOK, Preparing, Running, Role, CtlType, StopChild, NoChild
<1>49. ASSUME HandleError PROVE Recorded'
  <2>1. st'.ckpt = st.ckpt /\ st'.commit = st.commit
    BY <1>49, PlainWrite DEF HandleError, TypeOK, States
  <2> QED BY <1>49, <2>1, NoCtlType, NoneAssumption
             DEF HandleError, Recorded, CheckpointsTrue, Cleared, Reached, Pushes, RoleFits,
                 RoundFits, TypeOK, Preparing, Running, Role, CtlType
<1>50. ASSUME Interrupt PROVE Recorded'
  <2>1. st'.ckpt = st.ckpt /\ st'.commit = st.commit
    BY <1>50, ScopeWrite, PlainWrite, <1>s DEF Interrupt, StopChild, RoleState, TypeOK, States
  <2> QED BY <1>50, <2>1, NoCtlType, NoneAssumption
             DEF Interrupt, Recorded, CheckpointsTrue, Cleared, Reached, Pushes, RoleFits,
                 RoundFits, TypeOK, Preparing, Running, Role, CtlType, StopChild, NoChild
<1>51. ASSUME HandleInterrupt PROVE Recorded'
  <2>1. st'.ckpt = st.ckpt /\ st'.commit = st.commit
    BY <1>51, ScopeWrite, PlainWrite, <1>s DEF HandleInterrupt, TypeOK, States
  <2> QED BY <1>51, <2>1, NoCtlType, NoneAssumption
             DEF HandleInterrupt, Recorded, CheckpointsTrue, Cleared, Reached, Pushes,
                 RoleFits, RoundFits, TypeOK, Preparing, Running, Role, CtlType
<1>52. ASSUME ChildWrites PROVE Recorded'
  BY <1>52, NoCtlType, NoneAssumption
     DEF ChildWrites, Recorded, CheckpointsTrue, Cleared, Reached, Pushes, RoleFits, RoundFits,
         TypeOK, Preparing, Running, Role, CtlType
<1>53. ASSUME OrphanEnds PROVE Recorded'
  BY <1>53, NoCtlType, NoneAssumption
     DEF OrphanEnds, Recorded, CheckpointsTrue, Cleared, Reached, Pushes, RoleFits, RoundFits,
         TypeOK, Preparing, Running, Role, CtlType
<1>54. ASSUME StrayEdit PROVE Recorded'
  <2>1. repo'.head = repo.head
    BY <1>54 DEF StrayEdit, TypeOK, RepoType
  <2> QED BY <1>54, <2>1
             DEF StrayEdit, Recorded, CheckpointsTrue, Cleared, Reached, Preparing, Running
<1>55. ASSUME HandCommit PROVE Recorded'
  <2>1. [subject |-> HAND, tree |-> repo.tree] \in Commit
    BY DEF TypeOK, RepoType, CtlType, Commit, HAND
  <2>2. st.commit # None /\ IsPrefix(st.commit, repo.head) => IsPrefix(st.commit, repo'.head)
    BY <1>55, <1>p, <2>1 DEF HandCommit, TypeOK, RepoType, StatusType
  <2> QED BY <1>55, <2>2
             DEF HandCommit, Recorded, CheckpointsTrue, Cleared, Reached, Preparing, Running
<1>56. ASSUME ForeignPush PROVE Recorded'
  <2>1. [subject |-> FOREIGN, tree |-> {}] \in Commit
    BY DEF Commit, FOREIGN, Tree
  <2>2. hub.remote \in Commits
    BY <1>56 DEF ForeignPush, RemoteFits, TypeOK, HubType
  <2>3. hub'.remote = Append(hub.remote, [subject |-> FOREIGN, tree |-> {}]) /\ hub'.pr = hub.pr
    BY <1>56 DEF ForeignPush, TypeOK, HubType
  <2>4. \A c \in Commits : IsPrefix(c, hub.remote) => IsPrefix(c, hub'.remote)
    BY <2>1, <2>2, <2>3, PrefixAppend
  <2>5. hub'.remote # None
    <3>1. hub'.remote \in Seq(Commit)
      BY <2>1, <2>2, <2>3, AppendProperties DEF Commits
    <3> QED BY <3>1, NoneAssumption
  <2>6. CheckpointsTrue'
    <3>1. Completed(st.ckpt) \in 0..3
      BY DEF Completed
    <3>2. Completed(st.ckpt) >= 1 => st.commit \in Commits
      BY DEF Recorded, CheckpointsTrue, TypeOK, StatusType
    <3>3. UNCHANGED <<st, repo>>
      BY <1>56 DEF ForeignPush
    <3>4. Completed(st.ckpt) >= 2 => IsPrefix(st.commit, hub'.remote)
      BY <2>4, <3>1, <3>2 DEF Recorded, CheckpointsTrue
    <3> QED BY <2>3, <2>5, <3>3, <3>4 DEF Recorded, CheckpointsTrue
  <2>7. Pushes => Pushes'
    BY <1>56, <1>h, <2>4, <2>5 DEF ForeignPush, Pushes
  <2> QED BY <1>56, <2>3, <2>6, <2>7 DEF ForeignPush, Recorded, Cleared, Reached
<1>57. ASSUME CloseIssue PROVE Recorded'
  BY <1>57, NoCtlType, NoneAssumption
     DEF CloseIssue, Recorded, CheckpointsTrue, Cleared, Reached, Pushes, RoleFits, RoundFits,
         TypeOK, Preparing, Running, Role, CtlType
<1>58. ASSUME Requeue PROVE Recorded'
  BY <1>58, NoCtlType, NoneAssumption
     DEF Requeue, Recorded, CheckpointsTrue, Cleared, Reached, Pushes, RoleFits, RoundFits,
         TypeOK, Preparing, Running, Role, CtlType
<1>59. CASE UNCHANGED vars
  BY <1>59, NoCtlType, NoneAssumption
     DEF vars, Recorded, CheckpointsTrue, Cleared, Reached, Pushes, RoleFits, RoundFits,
         TypeOK, Preparing, Running, Role, CtlType
<1> QED BY <1>1, <1>2, <1>3, <1>4, <1>5, <1>6, <1>7, <1>8, <1>9, <1>10, <1>11, <1>12, <1>13,
           <1>14, <1>15, <1>16, <1>17, <1>18, <1>19, <1>20, <1>21, <1>22, <1>23, <1>24, <1>25,
           <1>26, <1>27, <1>28, <1>29, <1>30, <1>31, <1>32, <1>33, <1>34, <1>35, <1>36, <1>37,
           <1>38, <1>39, <1>40, <1>41, <1>42, <1>43, <1>44, <1>45, <1>46, <1>47, <1>48, <1>49,
           <1>50, <1>51, <1>52, <1>53, <1>54, <1>55, <1>56, <1>57, <1>58, <1>59
           DEF Next, Step, Startup, RunChild, Finalize, Handle, World

\* Every action keeps the reviewer's verdict for what is merged.
LEMMA ReviewedStep ==
  ASSUME TypeOK, RoleFits, RemoteFits, Reviewed, [Next]_vars
  PROVE  Reviewed'
<1>1. ASSUME NEW m \in Modes, Start(m) PROVE Reviewed'
  BY <1>1
     DEF Start, Reviewed, MergedWasReviewed, VerdictStands, MergeIsFinal, Merging, Ending,
         OutsideSteps, HandlerSteps
<1>2. ASSUME Reconcile PROVE Reviewed'
  BY <1>2
     DEF Reconcile, Reviewed, MergedWasReviewed, VerdictStands, MergeIsFinal, Merging, Ending,
         OutsideSteps, HandlerSteps
<1>3. ASSUME MeetOrphan PROVE Reviewed'
  BY <1>3
     DEF MeetOrphan, Reviewed, MergedWasReviewed, VerdictStands, MergeIsFinal, Merging, Ending,
         OutsideSteps, HandlerSteps, NoChild
<1>4. ASSUME InspectUnprovenBranch PROVE Reviewed'
  BY <1>4
     DEF InspectUnprovenBranch, Reviewed, MergedWasReviewed, VerdictStands, MergeIsFinal,
         Merging, Ending, OutsideSteps, HandlerSteps
<1>5. ASSUME InspectCommit PROVE Reviewed'
  BY <1>5
     DEF InspectCommit, Reviewed, MergedWasReviewed, VerdictStands, MergeIsFinal, Merging,
         Ending, OutsideSteps, HandlerSteps, ResumeWith
<1>6. ASSUME InspectNoChanges PROVE Reviewed'
  BY <1>6
     DEF InspectNoChanges, Reviewed, MergedWasReviewed, VerdictStands, MergeIsFinal, Merging,
         Ending, OutsideSteps, HandlerSteps
<1>7. ASSUME NoChanges PROVE Reviewed'
  BY <1>7
     DEF NoChanges, Reviewed, MergedWasReviewed, VerdictStands, MergeIsFinal, Merging, Ending,
         OutsideSteps, HandlerSteps
<1>8. ASSUME InspectUnattributed PROVE Reviewed'
  BY <1>8
     DEF InspectUnattributed, Reviewed, MergedWasReviewed, VerdictStands, MergeIsFinal,
         Merging, Ending, OutsideSteps, HandlerSteps
<1>9. ASSUME InspectRecoverable PROVE Reviewed'
  BY <1>9
     DEF InspectRecoverable, Reviewed, MergedWasReviewed, VerdictStands, MergeIsFinal, Merging,
         Ending, OutsideSteps, HandlerSteps, ResumeWith
<1>10. ASSUME ConfirmRecovery PROVE Reviewed'
  BY <1>10
     DEF ConfirmRecovery, Reviewed, MergedWasReviewed, VerdictStands, MergeIsFinal, Merging,
         Ending, OutsideSteps, HandlerSteps, ResumeWith, TypeOK, GhostType
<1>11. ASSUME Recover PROVE Reviewed'
  BY <1>11
     DEF Recover, Reviewed, MergedWasReviewed, VerdictStands, MergeIsFinal, Merging, Ending,
         OutsideSteps, HandlerSteps
<1>12. ASSUME Select PROVE Reviewed'
  BY <1>12
     DEF Select, Reviewed, MergedWasReviewed, VerdictStands, MergeIsFinal, Merging, Ending,
         OutsideSteps, HandlerSteps
<1>13. ASSUME Sleep PROVE Reviewed'
  BY <1>13
     DEF Sleep, Reviewed, MergedWasReviewed, VerdictStands, MergeIsFinal, Merging, Ending,
         OutsideSteps, HandlerSteps
<1>14. ASSUME LabelRunning PROVE Reviewed'
  BY <1>14
     DEF LabelRunning, Reviewed, MergedWasReviewed, VerdictStands, MergeIsFinal, Merging,
         Ending, OutsideSteps, HandlerSteps, TypeOK, HubType
<1>15. ASSUME SyncMain PROVE Reviewed'
  BY <1>15
     DEF SyncMain, Reviewed, MergedWasReviewed, VerdictStands, MergeIsFinal, Merging, Ending,
         OutsideSteps, HandlerSteps
<1>16. ASSUME CheckoutTask PROVE Reviewed'
  BY <1>16
     DEF CheckoutTask, Reviewed, MergedWasReviewed, VerdictStands, MergeIsFinal, Merging,
         Ending, OutsideSteps, HandlerSteps
<1>17. ASSUME Launch PROVE Reviewed'
  BY <1>17
     DEF Launch, Reviewed, MergedWasReviewed, VerdictStands, MergeIsFinal, Merging, Ending,
         OutsideSteps, HandlerSteps
<1>18. ASSUME Spawn PROVE Reviewed'
  BY <1>18
     DEF Spawn, Reviewed, MergedWasReviewed, VerdictStands, MergeIsFinal, Merging, Ending,
         OutsideSteps, HandlerSteps
<1>19. ASSUME RecordChild PROVE Reviewed'
  BY <1>19
     DEF RecordChild, Reviewed, MergedWasReviewed, VerdictStands, MergeIsFinal, Merging,
         Ending, OutsideSteps, HandlerSteps
<1>20. ASSUME OpenGate PROVE Reviewed'
  BY <1>20
     DEF OpenGate, Reviewed, MergedWasReviewed, VerdictStands, MergeIsFinal, Merging, Ending,
         OutsideSteps, HandlerSteps
<1>21. ASSUME Await PROVE Reviewed'
  BY <1>21
     DEF Await, Reviewed, MergedWasReviewed, VerdictStands, MergeIsFinal, Merging, Ending,
         OutsideSteps, HandlerSteps, NoChild
<1>22. ASSUME Reaped PROVE Reviewed'
  <2>1. pc' \in Role
    BY <1>22 DEF Reaped, RoleFits, Running
  <2> QED BY <1>22, <2>1
             DEF Reaped, Reviewed, MergedWasReviewed, VerdictStands, MergeIsFinal, Merging,
                 Ending, OutsideSteps, HandlerSteps, Role
<1>23. ASSUME ImplResult PROVE Reviewed'
  BY <1>23
     DEF ImplResult, Reviewed, MergedWasReviewed, VerdictStands, MergeIsFinal, Merging, Ending,
         OutsideSteps, HandlerSteps, Preserve
<1>24. ASSUME ReviewResult PROVE Reviewed'
  BY <1>24
     DEF ReviewResult, Reviewed, MergedWasReviewed, VerdictStands, MergeIsFinal, Merging,
         Ending, OutsideSteps, HandlerSteps, TypeOK, GhostType
<1>25. ASSUME FixResult PROVE Reviewed'
  BY <1>25
     DEF FixResult, Reviewed, MergedWasReviewed, VerdictStands, MergeIsFinal, Merging, Ending,
         OutsideSteps, HandlerSteps, Preserve
<1>26. ASSUME Begin PROVE Reviewed'
  BY <1>26
     DEF Begin, Reviewed, MergedWasReviewed, VerdictStands, MergeIsFinal, Merging, Ending,
         OutsideSteps, HandlerSteps
<1>27. ASSUME Verify PROVE Reviewed'
  BY <1>27
     DEF Verify, Reviewed, MergedWasReviewed, VerdictStands, MergeIsFinal, Merging, Ending,
         OutsideSteps, HandlerSteps
<1>28. ASSUME Gates PROVE Reviewed'
  BY <1>28
     DEF Gates, Reviewed, MergedWasReviewed, VerdictStands, MergeIsFinal, Merging, Ending,
         OutsideSteps, HandlerSteps, TypeOK, RepoType
<1>29. ASSUME Verified PROVE Reviewed'
  BY <1>29
     DEF Verified, Reviewed, MergedWasReviewed, VerdictStands, MergeIsFinal, Merging, Ending,
         OutsideSteps, HandlerSteps
<1>30. ASSUME Stage PROVE Reviewed'
  BY <1>30
     DEF Stage, Reviewed, MergedWasReviewed, VerdictStands, MergeIsFinal, Merging, Ending,
         OutsideSteps, HandlerSteps
<1>31. ASSUME GitAdd PROVE Reviewed'
  BY <1>31
     DEF GitAdd, Reviewed, MergedWasReviewed, VerdictStands, MergeIsFinal, Merging, Ending,
         OutsideSteps, HandlerSteps, TypeOK, RepoType
<1>32. ASSUME Staged PROVE Reviewed'
  BY <1>32
     DEF Staged, Reviewed, MergedWasReviewed, VerdictStands, MergeIsFinal, Merging, Ending,
         OutsideSteps, HandlerSteps
<1>33. ASSUME GitCommit PROVE Reviewed'
  BY <1>33
     DEF GitCommit, Reviewed, MergedWasReviewed, VerdictStands, MergeIsFinal, Merging, Ending,
         OutsideSteps, HandlerSteps, TypeOK, RepoType
<1>34. ASSUME Committed PROVE Reviewed'
  BY <1>34
     DEF Committed, Reviewed, MergedWasReviewed, VerdictStands, MergeIsFinal, Merging, Ending,
         OutsideSteps, HandlerSteps
<1>35. ASSUME Push PROVE Reviewed'
  BY <1>35
     DEF Push, Reviewed, MergedWasReviewed, VerdictStands, MergeIsFinal, Merging, Ending,
         OutsideSteps, HandlerSteps
<1>36. ASSUME GitPush PROVE Reviewed'
  BY <1>36
     DEF GitPush, Reviewed, MergedWasReviewed, VerdictStands, MergeIsFinal, Merging, Ending,
         OutsideSteps, HandlerSteps, TypeOK, HubType
<1>37. ASSUME Pushed PROVE Reviewed'
  BY <1>37
     DEF Pushed, Reviewed, MergedWasReviewed, VerdictStands, MergeIsFinal, Merging, Ending,
         OutsideSteps, HandlerSteps
<1>38. ASSUME OpenPr PROVE Reviewed'
  BY <1>38
     DEF OpenPr, Reviewed, MergedWasReviewed, VerdictStands, MergeIsFinal, Merging, Ending,
         OutsideSteps, HandlerSteps, TypeOK, HubType, FindsDraftPr
<1>39. ASSUME PrCreated PROVE Reviewed'
  BY <1>39
     DEF PrCreated, Reviewed, MergedWasReviewed, VerdictStands, MergeIsFinal, Merging, Ending,
         OutsideSteps, HandlerSteps
<1>40. ASSUME ReviewPassed PROVE Reviewed'
  BY <1>40
     DEF ReviewPassed, Reviewed, MergedWasReviewed, VerdictStands, MergeIsFinal, Merging,
         Ending, OutsideSteps, HandlerSteps
<1>41. ASSUME MergeCheck PROVE Reviewed'
  BY <1>41
     DEF MergeCheck, Reviewed, MergedWasReviewed, VerdictStands, MergeIsFinal, Merging, Ending,
         OutsideSteps, HandlerSteps
<1>42. ASSUME MarkReady PROVE Reviewed'
  BY <1>42
     DEF MarkReady, Reviewed, MergedWasReviewed, VerdictStands, MergeIsFinal, Merging, Ending,
         OutsideSteps, HandlerSteps, TypeOK, HubType
<1>43. ASSUME Recheck PROVE Reviewed'
  BY <1>43
     DEF Recheck, Reviewed, MergedWasReviewed, VerdictStands, MergeIsFinal, Merging, Ending,
         OutsideSteps, HandlerSteps
<1>44. ASSUME Merge PROVE Reviewed'
  BY <1>44
     DEF Merge, Reviewed, MergedWasReviewed, VerdictStands, MergeIsFinal, Merging, Ending,
         OutsideSteps, HandlerSteps, TypeOK, HubType, HeadMatches
<1>45. ASSUME RecordOutcome PROVE Reviewed'
  BY <1>45
     DEF RecordOutcome, Reviewed, MergedWasReviewed, VerdictStands, MergeIsFinal, Merging,
         Ending, OutsideSteps, HandlerSteps
<1>46. ASSUME Finish PROVE Reviewed'
  BY <1>46
     DEF Finish, Reviewed, MergedWasReviewed, VerdictStands, MergeIsFinal, Merging, Ending,
         OutsideSteps, HandlerSteps
<1>47. ASSUME Crash PROVE Reviewed'
  BY <1>47
     DEF Crash, Reviewed, MergedWasReviewed, VerdictStands, MergeIsFinal, Merging, Ending,
         OutsideSteps, HandlerSteps, NoChild
<1>48. ASSUME Error PROVE Reviewed'
  BY <1>48
     DEF Error, Reviewed, MergedWasReviewed, VerdictStands, MergeIsFinal, Merging, Ending,
         OutsideSteps, HandlerSteps, StopChild, NoChild
<1>49. ASSUME HandleError PROVE Reviewed'
  BY <1>49
     DEF HandleError, Reviewed, MergedWasReviewed, VerdictStands, MergeIsFinal, Merging,
         Ending, OutsideSteps, HandlerSteps
<1>50. ASSUME Interrupt PROVE Reviewed'
  BY <1>50
     DEF Interrupt, Reviewed, MergedWasReviewed, VerdictStands, MergeIsFinal, Merging, Ending,
         OutsideSteps, HandlerSteps, StopChild, NoChild
<1>51. ASSUME HandleInterrupt PROVE Reviewed'
  BY <1>51
     DEF HandleInterrupt, Reviewed, MergedWasReviewed, VerdictStands, MergeIsFinal, Merging,
         Ending, OutsideSteps, HandlerSteps
<1>52. ASSUME ChildWrites PROVE Reviewed'
  BY <1>52
     DEF ChildWrites, Reviewed, MergedWasReviewed, VerdictStands, MergeIsFinal, Merging,
         Ending, OutsideSteps, HandlerSteps, TypeOK, RepoType
<1>53. ASSUME OrphanEnds PROVE Reviewed'
  BY <1>53
     DEF OrphanEnds, Reviewed, MergedWasReviewed, VerdictStands, MergeIsFinal, Merging, Ending,
         OutsideSteps, HandlerSteps
<1>54. ASSUME StrayEdit PROVE Reviewed'
  BY <1>54
     DEF StrayEdit, Reviewed, MergedWasReviewed, VerdictStands, MergeIsFinal, Merging, Ending,
         OutsideSteps, HandlerSteps, TypeOK, RepoType
<1>55. ASSUME HandCommit PROVE Reviewed'
  BY <1>55
     DEF HandCommit, Reviewed, MergedWasReviewed, VerdictStands, MergeIsFinal, Merging, Ending,
         OutsideSteps, HandlerSteps, TypeOK, RepoType
<1>56. ASSUME ForeignPush PROVE Reviewed'
  BY <1>56
     DEF ForeignPush, Reviewed, MergedWasReviewed, VerdictStands, MergeIsFinal, Merging,
         Ending, OutsideSteps, HandlerSteps, TypeOK, HubType
<1>57. ASSUME CloseIssue PROVE Reviewed'
  BY <1>57
     DEF CloseIssue, Reviewed, MergedWasReviewed, VerdictStands, MergeIsFinal, Merging, Ending,
         OutsideSteps, HandlerSteps, TypeOK, HubType
<1>58. ASSUME Requeue PROVE Reviewed'
  BY <1>58
     DEF Requeue, Reviewed, MergedWasReviewed, VerdictStands, MergeIsFinal, Merging, Ending,
         OutsideSteps, HandlerSteps, TypeOK, HubType
<1>59. CASE UNCHANGED vars
  BY <1>59
     DEF vars, Reviewed, MergedWasReviewed, VerdictStands, MergeIsFinal, Merging, Ending,
         OutsideSteps, HandlerSteps
<1> QED BY <1>1, <1>2, <1>3, <1>4, <1>5, <1>6, <1>7, <1>8, <1>9, <1>10, <1>11, <1>12, <1>13,
           <1>14, <1>15, <1>16, <1>17, <1>18, <1>19, <1>20, <1>21, <1>22, <1>23, <1>24, <1>25,
           <1>26, <1>27, <1>28, <1>29, <1>30, <1>31, <1>32, <1>33, <1>34, <1>35, <1>36, <1>37,
           <1>38, <1>39, <1>40, <1>41, <1>42, <1>43, <1>44, <1>45, <1>46, <1>47, <1>48, <1>49,
           <1>50, <1>51, <1>52, <1>53, <1>54, <1>55, <1>56, <1>57, <1>58, <1>59
           DEF Next, Step, Startup, RunChild, Finalize, Handle, World

\* Every action but Ctrl-C keeps the running child in the status file.
LEMMA AccountedStep ==
  ASSUME "interrupt" \notin Faults, TypeOK, RoleFits, Accounted, [Next]_vars
  PROVE  Accounted'
<1>s. Paths \in Tree /\ Snapshot \in Shot /\ HeadTree \in Tree
  BY ScopeType
<1>1. ASSUME NEW m \in Modes, Start(m) PROVE Accounted'
  BY <1>1 DEF Start, Accounted, ChildrenAccounted, GateHolds, Alive, ChildStates
<1>2. ASSUME Reconcile PROVE Accounted'
  BY <1>2
     DEF Reconcile, Accounted, ChildrenAccounted, GateHolds, Alive, ReconcileStates, States,
         ChildStates
<1>3. ASSUME MeetOrphan PROVE Accounted'
  <2>1. CASE child' = child /\ st' = st
    BY <1>3, <2>1 DEF MeetOrphan, Accounted, ChildrenAccounted, GateHolds, Alive, NoChild
  <2>2. CASE child' = NoChild
    BY <1>3, <2>2 DEF MeetOrphan, Accounted, ChildrenAccounted, GateHolds, Alive, NoChild
  <2>3. CASE Block /\ Exit /\ UNCHANGED child
    <3>1. st.pid = TRUE
      BY <1>3 DEF MeetOrphan, TypeOK, StatusType
    <3>2. st'.pid = TRUE /\ st'.state = "RECOVERY_BLOCKED"
      BY <2>3, <3>1, PidWrite DEF Block, TypeOK, States
    <3> QED BY <1>3, <2>3, <3>2
               DEF MeetOrphan, Accounted, ChildrenAccounted, GateHolds, Alive, ChildStates
  <2> QED BY <1>3, <2>1, <2>2, <2>3 DEF MeetOrphan
<1>4. ASSUME InspectUnprovenBranch PROVE Accounted'
  BY <1>4 DEF InspectUnprovenBranch, Accounted, ChildrenAccounted, GateHolds, Alive
<1>5. ASSUME InspectCommit PROVE Accounted'
  BY <1>5 DEF InspectCommit, Accounted, ChildrenAccounted, GateHolds, Alive, ResumeWith
<1>6. ASSUME InspectNoChanges PROVE Accounted'
  BY <1>6 DEF InspectNoChanges, Accounted, ChildrenAccounted, GateHolds, Alive
<1>7. ASSUME NoChanges PROVE Accounted'
  BY <1>7 DEF NoChanges, Accounted, ChildrenAccounted, GateHolds, Alive
<1>8. ASSUME InspectUnattributed PROVE Accounted'
  BY <1>8 DEF InspectUnattributed, Accounted, ChildrenAccounted, GateHolds, Alive
<1>9. ASSUME InspectRecoverable PROVE Accounted'
  BY <1>9 DEF InspectRecoverable, Accounted, ChildrenAccounted, GateHolds, Alive, ResumeWith
<1>10. ASSUME ConfirmRecovery PROVE Accounted'
  BY <1>10 DEF ConfirmRecovery, Accounted, ChildrenAccounted, GateHolds, Alive, ResumeWith
<1>11. ASSUME Recover PROVE Accounted'
  BY <1>11 DEF Recover, Accounted, ChildrenAccounted, GateHolds, Alive
<1>12. ASSUME Select PROVE Accounted'
  BY <1>12 DEF Select, Accounted, ChildrenAccounted, GateHolds, Alive
<1>13. ASSUME Sleep PROVE Accounted'
  BY <1>13 DEF Sleep, Accounted, ChildrenAccounted, GateHolds, Alive
<1>14. ASSUME LabelRunning PROVE Accounted'
  BY <1>14 DEF LabelRunning, Accounted, ChildrenAccounted, GateHolds, Alive
<1>15. ASSUME SyncMain PROVE Accounted'
  BY <1>15 DEF SyncMain, Accounted, ChildrenAccounted, GateHolds, Alive
<1>16. ASSUME CheckoutTask PROVE Accounted'
  BY <1>16 DEF CheckoutTask, Accounted, ChildrenAccounted, GateHolds, Alive
<1>17. ASSUME Launch PROVE Accounted'
  BY <1>17 DEF Launch, Accounted, ChildrenAccounted, GateHolds, Alive, TypeOK, ChildType
<1>18. ASSUME Spawn PROVE Accounted'
  <2>1. ~Alive'
    BY <1>18 DEF Spawn, Alive
  <2> QED BY <1>18, <2>1 DEF Spawn, Accounted, ChildrenAccounted, GateHolds
<1>19. ASSUME RecordChild PROVE Accounted'
  <2>1. st'.pid = TRUE /\ st'.state \in ChildStates
    BY <1>19, <1>s, ChildWrite DEF RecordChild, TypeOK, RepoType, States, RoleState, ChildStates
  <2> QED BY <1>19, <2>1 DEF RecordChild, Accounted, ChildrenAccounted, GateHolds, Alive
<1>20. ASSUME OpenGate PROVE Accounted'
  BY <1>20 DEF OpenGate, Accounted, ChildrenAccounted, GateHolds, Alive, TypeOK, ChildType
<1>21. ASSUME Await PROVE Accounted'
  BY <1>21 DEF Await, Accounted, ChildrenAccounted, GateHolds, Alive, NoChild
<1>22. ASSUME Reaped PROVE Accounted'
  <2>1. pc' \in Role /\ child' = child /\ ~Alive
    BY <1>22 DEF Reaped, RoleFits, Running, Accounted, ChildrenAccounted
  <2> QED BY <1>22, <2>1 DEF Accounted, ChildrenAccounted, GateHolds, Alive, Role, Reaped
<1>23. ASSUME ImplResult PROVE Accounted'
  BY <1>23 DEF ImplResult, Accounted, ChildrenAccounted, GateHolds, Alive, Preserve
<1>24. ASSUME ReviewResult PROVE Accounted'
  BY <1>24 DEF ReviewResult, Accounted, ChildrenAccounted, GateHolds, Alive
<1>25. ASSUME FixResult PROVE Accounted'
  BY <1>25 DEF FixResult, Accounted, ChildrenAccounted, GateHolds, Alive, Preserve
<1>26. ASSUME Begin PROVE Accounted'
  BY <1>26 DEF Begin, Accounted, ChildrenAccounted, GateHolds, Alive
<1>27. ASSUME Verify PROVE Accounted'
  BY <1>27 DEF Verify, Accounted, ChildrenAccounted, GateHolds, Alive
<1>28. ASSUME Gates PROVE Accounted'
  BY <1>28 DEF Gates, Accounted, ChildrenAccounted, GateHolds, Alive
<1>29. ASSUME Verified PROVE Accounted'
  BY <1>29 DEF Verified, Accounted, ChildrenAccounted, GateHolds, Alive
<1>30. ASSUME Stage PROVE Accounted'
  BY <1>30 DEF Stage, Accounted, ChildrenAccounted, GateHolds, Alive
<1>31. ASSUME GitAdd PROVE Accounted'
  BY <1>31 DEF GitAdd, Accounted, ChildrenAccounted, GateHolds, Alive
<1>32. ASSUME Staged PROVE Accounted'
  BY <1>32 DEF Staged, Accounted, ChildrenAccounted, GateHolds, Alive
<1>33. ASSUME GitCommit PROVE Accounted'
  BY <1>33 DEF GitCommit, Accounted, ChildrenAccounted, GateHolds, Alive
<1>34. ASSUME Committed PROVE Accounted'
  BY <1>34 DEF Committed, Accounted, ChildrenAccounted, GateHolds, Alive
<1>35. ASSUME Push PROVE Accounted'
  BY <1>35 DEF Push, Accounted, ChildrenAccounted, GateHolds, Alive
<1>36. ASSUME GitPush PROVE Accounted'
  BY <1>36 DEF GitPush, Accounted, ChildrenAccounted, GateHolds, Alive
<1>37. ASSUME Pushed PROVE Accounted'
  BY <1>37 DEF Pushed, Accounted, ChildrenAccounted, GateHolds, Alive
<1>38. ASSUME OpenPr PROVE Accounted'
  BY <1>38 DEF OpenPr, Accounted, ChildrenAccounted, GateHolds, Alive
<1>39. ASSUME PrCreated PROVE Accounted'
  BY <1>39 DEF PrCreated, Accounted, ChildrenAccounted, GateHolds, Alive
<1>40. ASSUME ReviewPassed PROVE Accounted'
  BY <1>40 DEF ReviewPassed, Accounted, ChildrenAccounted, GateHolds, Alive
<1>41. ASSUME MergeCheck PROVE Accounted'
  BY <1>41 DEF MergeCheck, Accounted, ChildrenAccounted, GateHolds, Alive
<1>42. ASSUME MarkReady PROVE Accounted'
  BY <1>42 DEF MarkReady, Accounted, ChildrenAccounted, GateHolds, Alive
<1>43. ASSUME Recheck PROVE Accounted'
  BY <1>43 DEF Recheck, Accounted, ChildrenAccounted, GateHolds, Alive
<1>44. ASSUME Merge PROVE Accounted'
  BY <1>44 DEF Merge, Accounted, ChildrenAccounted, GateHolds, Alive
<1>45. ASSUME RecordOutcome PROVE Accounted'
  BY <1>45 DEF RecordOutcome, Accounted, ChildrenAccounted, GateHolds, Alive
<1>46. ASSUME Finish PROVE Accounted'
  BY <1>46 DEF Finish, Accounted, ChildrenAccounted, GateHolds, Alive
<1>47. ASSUME Crash PROVE Accounted'
  BY <1>47 DEF Crash, Accounted, ChildrenAccounted, GateHolds, Alive, NoChild
<1>48. ASSUME Error PROVE Accounted'
  BY <1>48
     DEF Error, Accounted, ChildrenAccounted, GateHolds, Alive, StopChild, NoChild, ChildSteps,
         OutsideSteps, HandlerSteps, StopChild, NoChild
<1>49. ASSUME HandleError PROVE Accounted'
  BY <1>49 DEF HandleError, Accounted, ChildrenAccounted, GateHolds, Alive
<1>50. ASSUME Interrupt PROVE Accounted'
  BY <1>50
     DEF Interrupt, Accounted, ChildrenAccounted, GateHolds, Alive, StopChild, NoChild, Fault
<1>51. ASSUME HandleInterrupt PROVE Accounted'
  BY <1>51 DEF HandleInterrupt, Accounted, ChildrenAccounted, GateHolds, Alive
<1>52. ASSUME ChildWrites PROVE Accounted'
  BY <1>52 DEF ChildWrites, Accounted, ChildrenAccounted, GateHolds, Alive
<1>53. ASSUME OrphanEnds PROVE Accounted'
  BY <1>53
     DEF OrphanEnds, Accounted, ChildrenAccounted, GateHolds, Alive, TypeOK, ChildType,
         NoChild, ChildSteps
<1>54. ASSUME StrayEdit PROVE Accounted'
  BY <1>54 DEF StrayEdit, Accounted, ChildrenAccounted, GateHolds, Alive
<1>55. ASSUME HandCommit PROVE Accounted'
  BY <1>55 DEF HandCommit, Accounted, ChildrenAccounted, GateHolds, Alive
<1>56. ASSUME ForeignPush PROVE Accounted'
  BY <1>56 DEF ForeignPush, Accounted, ChildrenAccounted, GateHolds, Alive
<1>57. ASSUME CloseIssue PROVE Accounted'
  BY <1>57 DEF CloseIssue, Accounted, ChildrenAccounted, GateHolds, Alive
<1>58. ASSUME Requeue PROVE Accounted'
  BY <1>58 DEF Requeue, Accounted, ChildrenAccounted, GateHolds, Alive
<1>59. CASE UNCHANGED vars
  BY <1>59 DEF vars, Accounted, ChildrenAccounted, GateHolds, Alive
<1> QED BY <1>1, <1>2, <1>3, <1>4, <1>5, <1>6, <1>7, <1>8, <1>9, <1>10, <1>11, <1>12, <1>13,
           <1>14, <1>15, <1>16, <1>17, <1>18, <1>19, <1>20, <1>21, <1>22, <1>23, <1>24, <1>25,
           <1>26, <1>27, <1>28, <1>29, <1>30, <1>31, <1>32, <1>33, <1>34, <1>35, <1>36, <1>37,
           <1>38, <1>39, <1>40, <1>41, <1>42, <1>43, <1>44, <1>45, <1>46, <1>47, <1>48, <1>49,
           <1>50, <1>51, <1>52, <1>53, <1>54, <1>55, <1>56, <1>57, <1>58, <1>59
           DEF Next, Step, Startup, RunChild, Finalize, Handle, World

-------------------------------------------------------------------------------
(* What each part of the state is changed by *)

\* What changes GitHub.
LEMMA HubSteps ==
  ASSUME [Next]_vars, hub' # hub
  PROVE  LabelRunning \/ GitPush \/ OpenPr \/ MarkReady \/ Merge \/ ForeignPush \/ CloseIssue \/ Requeue
<1>1. CASE Startup
  BY <1>1
     DEF Startup, Reconcile, MeetOrphan, InspectUnprovenBranch, InspectCommit,
         InspectNoChanges, NoChanges, InspectUnattributed, InspectRecoverable, ConfirmRecovery,
         Recover, Select, Sleep, SyncMain, CheckoutTask
<1>2. CASE RunChild
  BY <1>2
     DEF RunChild, Launch, Spawn, RecordChild, OpenGate, Await, Reaped, ImplResult,
         ReviewResult, FixResult
<1>3. CASE Finalize
  BY <1>3
     DEF Finalize, Begin, Verify, Gates, Verified, Stage, GitAdd, Staged, GitCommit, Committed,
         Push, Pushed, PrCreated, ReviewPassed, MergeCheck, Recheck, RecordOutcome, Finish
<1>4. CASE Handle
  BY <1>4 DEF Handle, HandleError, HandleInterrupt
<1>5. CASE World
  BY <1>5 DEF World, ChildWrites, OrphanEnds, StrayEdit, HandCommit
<1>6. CASE Crash \/ Error \/ Interrupt
  BY <1>6 DEF Crash, Error, Interrupt
<1>7. CASE UNCHANGED vars
  BY <1>7 DEF vars
<1>8. ASSUME NEW m \in Modes, Start(m) PROVE FALSE
  BY <1>8 DEF Start
<1> QED BY <1>1, <1>2, <1>3, <1>4, <1>5, <1>6, <1>7, <1>8 DEF Next, Step

\* What changes the checkout.
LEMMA RepoSteps ==
  ASSUME [Next]_vars, repo' # repo
  PROVE  \/ SyncMain \/ CheckoutTask \/ ImplResult \/ Gates \/ GitAdd \/ GitCommit
         \/ ChildWrites \/ StrayEdit \/ HandCommit
<1>1. CASE Startup
  BY <1>1
     DEF Startup, Reconcile, MeetOrphan, InspectUnprovenBranch, InspectCommit,
         InspectNoChanges, NoChanges, InspectUnattributed, InspectRecoverable, ConfirmRecovery,
         Recover, Select, Sleep, LabelRunning
<1>2. CASE RunChild
  BY <1>2
     DEF RunChild, Launch, Spawn, RecordChild, OpenGate, Await, Reaped, ReviewResult, FixResult
<1>3. CASE Finalize
  BY <1>3
     DEF Finalize, Begin, Verify, Verified, Stage, Staged, Committed, Push, GitPush, Pushed,
         OpenPr, PrCreated, ReviewPassed, MergeCheck, MarkReady, Recheck, Merge, RecordOutcome,
         Finish
<1>4. CASE Handle
  BY <1>4 DEF Handle, HandleError, HandleInterrupt
<1>5. CASE World
  BY <1>5 DEF World, OrphanEnds, ForeignPush, CloseIssue, Requeue
<1>6. CASE Crash \/ Error \/ Interrupt
  BY <1>6 DEF Crash, Error, Interrupt
<1>7. CASE UNCHANGED vars
  BY <1>7 DEF vars
<1>8. ASSUME NEW m \in Modes, Start(m) PROVE FALSE
  BY <1>8 DEF Start
<1> QED BY <1>1, <1>2, <1>3, <1>4, <1>5, <1>6, <1>7, <1>8 DEF Next, Step

\* What is confirmed or reviewed.
LEMMA GhostSteps ==
  ASSUME [Next]_vars, ghost' # ghost
  PROVE  ConfirmRecovery \/ ReviewResult
<1>1. CASE Startup
  BY <1>1
     DEF Startup, Reconcile, MeetOrphan, InspectUnprovenBranch, InspectCommit,
         InspectNoChanges, NoChanges, InspectUnattributed, InspectRecoverable, Recover, Select,
         Sleep, LabelRunning, SyncMain, CheckoutTask
<1>2. CASE RunChild
  BY <1>2
     DEF RunChild, Launch, Spawn, RecordChild, OpenGate, Await, Reaped, ImplResult, FixResult
<1>3. CASE Finalize
  BY <1>3
     DEF Finalize, Begin, Verify, Gates, Verified, Stage, GitAdd, Staged, GitCommit, Committed,
         Push, GitPush, Pushed, OpenPr, PrCreated, ReviewPassed, MergeCheck, MarkReady,
         Recheck, Merge, RecordOutcome, Finish
<1>4. CASE Handle
  BY <1>4 DEF Handle, HandleError, HandleInterrupt
<1>5. CASE World
  BY <1>5
     DEF World, ChildWrites, OrphanEnds, StrayEdit, HandCommit, ForeignPush, CloseIssue,
         Requeue
<1>6. CASE Crash \/ Error \/ Interrupt
  BY <1>6 DEF Crash, Error, Interrupt
<1>7. CASE UNCHANGED vars
  BY <1>7 DEF vars
<1>8. ASSUME NEW m \in Modes, Start(m) PROVE FALSE
  BY <1>8 DEF Start
<1> QED BY <1>1, <1>2, <1>3, <1>4, <1>5, <1>6, <1>7, <1>8 DEF Next, Step

\* What was confirmed stays confirmed.
LEMMA GhostGrows ==
  ASSUME TypeOK, [Next]_vars
  PROVE  ghost.blessed \subseteq ghost'.blessed /\ ghost.vouched \subseteq ghost'.vouched
<1>1. CASE ConfirmRecovery
  BY <1>1 DEF ConfirmRecovery, TypeOK, GhostType
<1>2. CASE ReviewResult
  BY <1>2 DEF ReviewResult, TypeOK, GhostType
<1> QED BY <1>1, <1>2, GhostSteps

\* What the operator vouched for is vouched for ever after.
LEMMA CleanStays ==
  ASSUME TypeOK, [Next]_vars, NEW commits, NEW tree, Clean(commits, tree)
  PROVE  HandCommits(commits) \subseteq ghost'.vouched /\ Stray(tree) \subseteq ghost'.blessed
  BY GhostGrows DEF Clean

-------------------------------------------------------------------------------
(* Hand-made commits and files from elsewhere *)

\* A commit that is not made by hand adds no commit made by hand.
LEMMA OwnCommit ==
  ASSUME NEW c \in Commits, NEW x \in Commit, x.subject # HAND
  PROVE  HandCommits(Append(c, x)) = HandCommits(c)
<1> DEFINE d == Append(c, x)
<1>1. /\ DOMAIN c = 1..Len(c) /\ DOMAIN d = 1..(Len(c) + 1) /\ Len(c) \in Nat
      /\ d[Len(c) + 1] = x /\ \A i \in 1..Len(c) : d[i] = c[i]
  BY DEF Commits
<1>2. \A i \in DOMAIN d : d[i].subject = HAND => i \in DOMAIN c /\ d[i] = c[i]
  BY <1>1
<1>3. \A i \in DOMAIN c : i \in DOMAIN d /\ d[i] = c[i]
  BY <1>1
<1> HIDE DEF d
<1>4. HandCommits(d) = HandCommits(c)
  BY <1>2, <1>3 DEF HandCommits
<1> QED BY <1>4 DEF d

\* A non-empty branch is its parent and its last commit.
LEMMA FrontLast ==
  ASSUME NEW c \in Commits, c # << >>
  PROVE  /\ Front(c) \in Commits /\ Last(c) \in Commit
         /\ c = Append(Front(c), Last(c))
<1>1. /\ Len(c) \in Nat \ {0} /\ Len(c) - 1 \in Nat
      /\ \A i \in 1..Len(c) : c[i] \in Commit
  BY EmptySeq DEF Commits
<1>2. /\ Front(c) \in Seq(Commit) /\ Len(Front(c)) = Len(c) - 1
      /\ \A i \in 1..(Len(c) - 1) : Front(c)[i] = c[i]
  <2>1. \A i \in 1..(Len(c) - 1) : c[i] \in Commit
    BY <1>1
  <2>2. /\ SubSeq(c, 1, Len(c) - 1) \in Seq(Commit)
        /\ Len(SubSeq(c, 1, Len(c) - 1)) = Len(c) - 1
        /\ \A i \in 1..(Len(c) - 1) : SubSeq(c, 1, Len(c) - 1)[i] = c[i]
    <3>1. 1 \in Int /\ Len(c) - 1 \in Int /\ (1 <= Len(c) - 1 \/ Len(c) - 1 = 0)
      <4> DEFINE n == Len(c)
      <4>1. n \in Nat \ {0}
        BY <1>1
      <4> HIDE DEF n
      <4>2. 1 \in Int /\ n - 1 \in Int /\ (1 <= n - 1 \/ n - 1 = 0)
        BY <4>1
      <4> QED BY <4>2 DEF n
    <3>2. /\ SubSeq(c, 1, Len(c) - 1) \in Seq(Commit)
          /\ Len(SubSeq(c, 1, Len(c) - 1)) =
               IF 1 <= Len(c) - 1 THEN (Len(c) - 1) - 1 + 1 ELSE 0
          /\ \A i \in 1..((Len(c) - 1) - 1 + 1) :
               SubSeq(c, 1, Len(c) - 1)[i] = c[1 + i - 1]
      BY <2>1, <3>1, SubSeqProperties
    <3> QED BY <1>1, <3>1, <3>2
  <2> QED BY <2>2 DEF Front
<1>3. Last(c) = c[Len(c)] /\ Last(c) \in Commit
  BY <1>1 DEF Last
<1>4. /\ Append(Front(c), Last(c)) \in Seq(Commit)
      /\ Len(Append(Front(c), Last(c))) = Len(c)
      /\ \A i \in 1..Len(c) : Append(Front(c), Last(c))[i] = c[i]
  BY <1>1, <1>2, <1>3
<1> QED BY <1>2, <1>3, <1>4, SeqEqual DEF Commits

\* No files hold no stray ones.
LEMMA StrayOfNothing == Stray({}) = {}
  BY DEF Stray

\* No commits hold none made by hand.
LEMMA NoHandCommits == HandCommits(<< >>) = {}
  BY DEF HandCommits

\* Every action keeps unconfirmed files out of the controller's commits.
LEMMA OwnHeadStep ==
  ASSUME TypeOK, RoundFits, Attributed, [Next]_vars
  PROVE  StrayNeverCommitted'
<1> DEFINE Good(x) == x.subject # HAND => Stray(x.tree) \subseteq ghost.blessed
<1>1. \A i \in DOMAIN repo.head : Good(repo.head[i])
  BY DEF Attributed, StrayNeverCommitted
<1>2. SUFFICES \A i \in DOMAIN repo'.head : Good(repo'.head[i])
  BY GhostGrows DEF StrayNeverCommitted
<1>3. \A x \in Commit : Good(x) => \A i \in DOMAIN Append(repo.head, x) : Good(Append(repo.head, x)[i])
  <2> SUFFICES ASSUME NEW x \in Commit, Good(x), NEW i \in DOMAIN Append(repo.head, x)
               PROVE  Good(Append(repo.head, x)[i])
    OBVIOUS
  <2>1. \/ i \in DOMAIN repo.head /\ Append(repo.head, x)[i] = repo.head[i]
        \/ Append(repo.head, x)[i] = x
    BY DEF TypeOK, RepoType, Commits
  <2> HIDE DEF Good
  <2> QED BY <1>1, <2>1
<1>4. CASE repo'.head = repo.head
  BY <1>1, <1>4
<1>5. CASE repo'.head = << >>
  BY <1>5
<1>6. CASE GitCommit
  <2> DEFINE x == [subject |-> ctl.round, tree |-> repo.index]
  <2>1. x \in Commit /\ Good(x)
    BY <1>6 DEF GitCommit, TypeOK, CtlType, RepoType, Commit, Attributed, StagedTree
  <2>2. repo'.head = Append(repo.head, x)
    BY <1>6 DEF GitCommit, TypeOK, RepoType
  <2> HIDE DEF x, Good
  <2> QED BY <1>3, <2>1, <2>2
<1>7. CASE HandCommit
  <2> DEFINE x == [subject |-> HAND, tree |-> repo.tree]
  <2>1. x \in Commit /\ Good(x)
    BY DEF HAND, TypeOK, RepoType, Commit
  <2>2. repo'.head = Append(repo.head, x)
    BY <1>7 DEF HandCommit, TypeOK, RepoType
  <2> HIDE DEF x, Good
  <2> QED BY <1>3, <2>1, <2>2
<1>8. CASE SyncMain \/ ImplResult
  BY <1>4, <1>5, <1>8 DEF SyncMain, ImplResult, OnMain
<1>9. CASE CheckoutTask \/ Gates \/ GitAdd \/ ChildWrites \/ StrayEdit
  BY <1>4, <1>9 DEF CheckoutTask, Gates, GitAdd, ChildWrites, StrayEdit, TypeOK, RepoType
<1> QED BY <1>4, <1>6, <1>7, <1>8, <1>9, RepoSteps

\* Every action keeps unconfirmed hand-made commits off GitHub.
LEMMA OwnRemoteStep ==
  ASSUME TypeOK, RemoteFits, Attributed, [Next]_vars
  PROVE  OnlyOwnCommitsPublished'
<1>1. CASE hub'.remote = hub.remote
  BY <1>1, GhostGrows DEF Attributed, OnlyOwnCommitsPublished
<1>2. CASE GitPush
  <2>1. HandCommits(repo.head) \subseteq ghost.vouched
    BY <1>2 DEF GitPush, Attributed, TrustedTree, Trusted, Finalizing, Clean
  <2>2. hub'.remote \in {hub.remote, repo.head}
    BY <1>2 DEF GitPush, TypeOK, HubType
  <2> QED BY <1>1, <2>1, <2>2, GhostGrows DEF OnlyOwnCommitsPublished
<1>3. CASE ForeignPush
  <2> DEFINE x == [subject |-> FOREIGN, tree |-> {}]
  <2>1. x \in Commit /\ x.subject # HAND
    BY DEF Commit, FOREIGN, HAND, Tree
  <2>2. hub.remote \in Commits /\ hub.remote # None
    BY <1>3 DEF ForeignPush, RemoteFits, TypeOK, HubType
  <2>3. hub'.remote = Append(hub.remote, x)
    BY <1>3 DEF ForeignPush, TypeOK, HubType
  <2>4. HandCommits(hub'.remote) = HandCommits(hub.remote)
    BY <2>1, <2>2, <2>3, OwnCommit
  <2> QED BY <2>2, <2>4, GhostGrows DEF Attributed, OnlyOwnCommitsPublished
<1>4. CASE LabelRunning \/ OpenPr \/ MarkReady \/ Merge \/ CloseIssue \/ Requeue
  BY <1>1, <1>4 DEF LabelRunning, OpenPr, MarkReady, Merge, CloseIssue, Requeue, TypeOK, HubType
<1> QED BY <1>1, <1>2, <1>3, <1>4, HubSteps

\* The fields of the status file that TrustedFile is about.
SameFile ==
  /\ st'.ckpt = st.ckpt /\ st'.snap = st.snap /\ st'.content = st.content
  /\ st'.base = st.base /\ st'.pre = st.pre /\ st'.subject = st.subject
  /\ st'.ptree = st.ptree /\ st'.commit = st.commit

\* The status file stays trusted when these fields stay, or take a clean scope.
LEMMA FileKept ==
  ASSUME TypeOK, [Next]_vars, TrustedFile, SameFile
  PROVE  TrustedFile'
  BY CleanStays DEF TrustedFile, SameFile, Clean, TreeOf

\* A write of the scope keeps the status file trusted when the checkout is clean of strays.
LEMMA ScopeKept ==
  ASSUME TypeOK, [Next]_vars, TrustedFile, NEW s \in States, WriteStatus(s, Scope),
         HandCommits(repo.head) \subseteq ghost'.vouched, Stray(repo.tree) \subseteq ghost'.blessed
  PROVE  TrustedFile'
<1>1. /\ st'.ckpt = st.ckpt /\ st'.content = st.content
      /\ st'.base = st.base /\ st'.pre = st.pre /\ st'.subject = st.subject
      /\ st'.ptree = st.ptree /\ st'.commit = st.commit
      /\ st'.snap \in {Snapshot, st.snap}
  BY ScopeWrite, ScopeType DEF TypeOK
<1>2. Snapshot.head = repo.head /\ Snapshot.tree = repo.tree
  BY DEF Snapshot
<1>3. st'.snap # None => Clean(st.snap.head, st.snap.tree)' \/ st'.snap = Snapshot
  BY <1>1, CleanStays DEF TrustedFile, Clean
<1>4. st'.snap # None => Clean(st.snap.head, st.snap.tree)'
  BY <1>2, <1>3 DEF Clean
<1> QED BY <1>1, <1>4, CleanStays DEF TrustedFile, Clean, TreeOf

\* Every action keeps the status file free of what nobody confirmed.
LEMMA FileStep ==
  ASSUME TypeOK, Attributed, [Next]_vars
  PROVE  TrustedFile'
<1>s. Paths \in Tree /\ Snapshot \in Shot /\ HeadTree \in Tree
  BY ScopeType
<1>t. /\ st \in StatusType /\ repo.head \in Commits /\ repo.head # None
      /\ repo.tree \in Tree /\ repo.index \in Tree
  BY NoneAssumption DEF TypeOK, RepoType, Commits
<1>f. TrustedFile
  BY DEF Attributed
<1>g. ghost.blessed \subseteq ghost'.blessed /\ ghost.vouched \subseteq ghost'.vouched
  BY GhostGrows
<1>k. SameFile => TrustedFile'
  BY <1>f, FileKept
<1>w. /\ Trusted => HandCommits(repo.head) \subseteq ghost'.vouched
      /\ Trusted => Stray(repo.tree) \subseteq ghost'.blessed
  BY <1>g DEF Attributed, TrustedTree, Clean
<1>v. /\ \A s \in States : Trusted /\ WriteStatus(s, Scope) => TrustedFile'
      /\ \A s \in States : WriteStatus(s, Nothing) => TrustedFile'
  BY <1>f, <1>w, <1>k, <1>t, ScopeKept, PlainWrite DEF SameFile
<1>1. ASSUME NEW m \in Modes, Start(m) PROVE TrustedFile'
  BY <1>1, <1>k DEF Start, SameFile
<1>2. ASSUME Reconcile PROVE TrustedFile'
  <2>1. SameFile
    BY <1>2 DEF Reconcile, SameFile
  <2> QED BY <2>1, <1>k
<1>3. ASSUME MeetOrphan PROVE TrustedFile'
  <2>1. CASE UNCHANGED st
    BY <2>1, <1>k DEF SameFile
  <2>2. CASE Block
    <3>1. st.pid \in BOOLEAN /\ "RECOVERY_BLOCKED" \in States
      BY <1>t DEF StatusType, States
    <3> QED BY <1>k, <1>t, <2>2, <3>1, PidWrite DEF Block, SameFile
  <2> QED BY <1>3, <2>1, <2>2 DEF MeetOrphan
<1>4. ASSUME InspectUnprovenBranch PROVE TrustedFile'
  <2>1. SameFile
    BY <1>4, <1>t, PidWrite DEF InspectUnprovenBranch, SameFile, States, Block, StatusType
  <2> QED BY <2>1, <1>k
<1>5. ASSUME InspectCommit PROVE TrustedFile'
  <2>1. CASE UNCHANGED st
    BY <2>1, <1>k DEF SameFile
  <2>2. CASE /\ ProvenCommit
             /\ WriteStatus("RECOVERABLE_CHANGES", [ckpt |-> "COMMITTED", commit |-> repo.head])
    <3>1. /\ st'.ckpt = "COMMITTED" /\ st'.commit = repo.head
          /\ st'.snap = st.snap /\ st'.base = st.base /\ st'.pre = st.pre
      BY <1>t, <2>2, Names, CommitWrite
    <3>2. Clean(repo.head, TreeOf(repo.head))
      <4>1. repo.head # << >> /\ st.ckpt = "STAGED"
        BY <1>5, <2>2 DEF InspectCommit, InterruptedCommit, ProvenCommit
      <4>2. /\ Front(repo.head) \in Commits /\ Last(repo.head) \in Commit
            /\ repo.head = Append(Front(repo.head), Last(repo.head))
        BY <1>t, <4>1, FrontLast
      <4>3. Last(repo.head).subject # HAND /\ st.pre = Front(repo.head) /\ st.pre # None
        BY <1>f, <2>2, <4>1 DEF ProvenCommit, TrustedFile, HAND
      <4>4. HandCommits(repo.head) = HandCommits(st.pre)
        BY <4>2, <4>3, OwnCommit
      <4>5. TreeOf(repo.head) = st.ptree
        BY <2>2, <4>1 DEF TreeOf, ProvenCommit
      <4> QED BY <1>f, <4>1, <4>3, <4>4, <4>5 DEF TrustedFile, Clean
    <3> QED BY <1>f, <1>g, <3>1, <3>2 DEF TrustedFile, Clean, TreeOf
  <2> QED BY <1>5, <2>1, <2>2 DEF InspectCommit, ResumeWith
<1>6. ASSUME InspectNoChanges PROVE TrustedFile'
  <2>1. SameFile
    BY <1>6, <1>t, PlainWrite DEF InspectNoChanges, SameFile, States
  <2> QED BY <2>1, <1>k
<1>7. ASSUME NoChanges PROVE TrustedFile'
  <2>1. SameFile
    BY <1>7, <1>t, PlainWrite DEF NoChanges, SameFile, States
  <2> QED BY <2>1, <1>k
<1>8. ASSUME InspectUnattributed PROVE TrustedFile'
  <2>1. SameFile
    BY <1>8, <1>t, PidWrite DEF InspectUnattributed, SameFile, States, Proven
  <2> QED BY <2>1, <1>k
<1>9. ASSUME InspectRecoverable PROVE TrustedFile'
  <2>1. SameFile
    BY <1>9, <1>t, PlainWrite DEF InspectRecoverable, SameFile, States, ResumeWith
  <2> QED BY <2>1, <1>k
<1>10. ASSUME ConfirmRecovery PROVE TrustedFile'
  <2>1. CASE UNCHANGED st
    BY <2>1, <1>k DEF SameFile
  <2>2. CASE ~UNCHANGED st
    <3>1. WriteStatus("RECOVERABLE_CHANGES", Scope)
      BY <1>10, <2>2 DEF ConfirmRecovery, ResumeWith
    <3>2. ghost' = [ghost EXCEPT !.blessed = @ \cup Stray(repo.tree),
                                 !.vouched = @ \cup HandCommits(repo.head)]
      BY <1>10, <2>2 DEF ConfirmRecovery
    <3>3. Stray(repo.tree) \subseteq ghost'.blessed /\ HandCommits(repo.head) \subseteq ghost'.vouched
      BY <3>2 DEF TypeOK, GhostType
    <3> QED BY <1>f, <3>1, <3>3, ScopeKept DEF States
  <2> QED BY <2>1, <2>2
<1>11. ASSUME Recover PROVE TrustedFile'
  <2>1. SameFile
    BY <1>11 DEF Recover, SameFile
  <2> QED BY <2>1, <1>k
<1>12. ASSUME Select PROVE TrustedFile'
  <2>1. CASE WriteStatus("IDLE", Nothing)
    BY <1>v, <2>1 DEF States
  <2>2. CASE UNCHANGED st
    BY <2>2, <1>k DEF SameFile
  <2>3. CASE ResetStatus("SYNCING", Nothing)
    <3>1. /\ st'.ckpt = None /\ st'.snap = None /\ st'.base = None
          /\ st'.pre = None /\ st'.commit = None
      BY <2>3, FreshWrite DEF States, NoStatus
    <3> QED BY <3>1, NoneAssumption DEF TrustedFile, Checkpoints
  <2> QED BY <1>12, <2>1, <2>2, <2>3 DEF Select
<1>13. ASSUME Sleep PROVE TrustedFile'
  <2>1. SameFile
    BY <1>13 DEF Sleep, SameFile
  <2> QED BY <2>1, <1>k
<1>14. ASSUME LabelRunning PROVE TrustedFile'
  <2>1. SameFile
    BY <1>14 DEF LabelRunning, SameFile
  <2> QED BY <2>1, <1>k
<1>15. ASSUME SyncMain PROVE TrustedFile'
  <2>1. SameFile
    BY <1>15 DEF SyncMain, SameFile
  <2> QED BY <2>1, <1>k
<1>16. ASSUME CheckoutTask PROVE TrustedFile'
  <2>1. SameFile
    BY <1>16 DEF CheckoutTask, SameFile
  <2> QED BY <2>1, <1>k
<1>17. ASSUME Launch PROVE TrustedFile'
  <2>1. HandCommits(repo.head) \subseteq ghost'.vouched
    BY <1>17, <1>w DEF Launch, Trusted, Running
  <2>2. /\ st'.base = repo.head
        /\ \/ /\ st'.ckpt = None /\ st'.snap = None
              /\ st'.pre = None /\ st'.commit = None
           \/ /\ st'.ckpt = st.ckpt /\ st'.snap = st.snap /\ st'.content = st.content
              /\ st'.pre = st.pre /\ st'.subject = st.subject
              /\ st'.ptree = st.ptree /\ st'.commit = st.commit
    BY <1>17, <1>t, LaunchWrite DEF Launch, States
  <2> QED BY <1>f, <1>g, <1>t, <2>1, <2>2, StrayOfNothing, NoneAssumption
             DEF TrustedFile, Clean, Checkpoints, TreeOf
<1>18. ASSUME Spawn PROVE TrustedFile'
  <2>1. SameFile
    BY <1>18 DEF Spawn, SameFile
  <2> QED BY <2>1, <1>k
<1>19. ASSUME RecordChild PROVE TrustedFile'
  <2>1. HandCommits(repo.head) \subseteq ghost'.vouched /\ Stray(repo.tree) \subseteq ghost'.blessed
    BY <1>19, <1>w DEF RecordChild, Trusted, Running
  <2>2. /\ st'.base = repo.head
        /\ st'.snap \in {None, st.snap, Snapshot}
        /\ \/ st'.ckpt = None /\ st'.pre = None /\ st'.commit = None
           \/ /\ st'.ckpt = st.ckpt /\ st'.content = st.content
              /\ st'.pre = st.pre /\ st'.subject = st.subject
              /\ st'.ptree = st.ptree /\ st'.commit = st.commit
    <3>1. RoleState(ctl.role) \in States
      BY Names DEF RoleState
    <3>2. ChildStatus(RoleState(ctl.role),
            IF Dirty
            THEN [base |-> repo.head, pid |-> TRUE, paths |-> Paths, snap |-> Snapshot]
            ELSE [base |-> repo.head, pid |-> TRUE])
      BY <1>19 DEF RecordChild
    <3>3. st \in StatusType /\ repo.head \in Commits
      BY <1>t
    <3> QED BY <1>s, <3>1, <3>2, <3>3, ChildWrite
  <2>3. st'.snap # None => Clean(st.snap.head, st.snap.tree)'
    BY <1>f, <1>g, <2>1, <2>2 DEF TrustedFile, Clean, Snapshot
  <2> QED BY <1>f, <1>g, <1>t, <2>1, <2>2, <2>3, StrayOfNothing, NoneAssumption
             DEF TrustedFile, Clean, Checkpoints, TreeOf
<1>20. ASSUME OpenGate PROVE TrustedFile'
  <2>1. SameFile
    BY <1>20 DEF OpenGate, SameFile
  <2> QED BY <2>1, <1>k
<1>21. ASSUME Await PROVE TrustedFile'
  <2>1. SameFile
    BY <1>21 DEF Await, SameFile
  <2> QED BY <2>1, <1>k
<1>22. ASSUME Reaped PROVE TrustedFile'
  <2>1. CASE UNCHANGED st
    BY <2>1, <1>k DEF SameFile
  <2>2. CASE \E s \in States : WriteStatus(s, Scope)
    BY <1>22, <1>v, <2>2 DEF Reaped, Trusted, Running, Role, Finalizing, Merging
  <2> QED BY <1>22, <2>1, <2>2 DEF Reaped, States, RoleState
<1>23. ASSUME ImplResult PROVE TrustedFile'
  <2>1. CASE UNCHANGED st
    BY <2>1, <1>k DEF SameFile
  <2>2. CASE \E s \in States : WriteStatus(s, Scope)
    BY <1>23, <1>v, <2>2 DEF ImplResult, Trusted, Running, Role, Finalizing, Merging
  <2> QED BY <1>23, <2>1, <2>2 DEF ImplResult, States, Preserve
<1>24. ASSUME ReviewResult PROVE TrustedFile'
  <2>1. SameFile
    BY <1>24 DEF ReviewResult, SameFile
  <2> QED BY <2>1, <1>k
<1>25. ASSUME FixResult PROVE TrustedFile'
  <2>1. CASE UNCHANGED st
    BY <2>1, <1>k DEF SameFile
  <2>2. CASE \E s \in States : WriteStatus(s, Scope)
    BY <1>25, <1>v, <2>2 DEF FixResult, Trusted, Running, Role, Finalizing, Merging
  <2> QED BY <1>25, <2>1, <2>2 DEF FixResult, States, Preserve
<1>26. ASSUME Begin PROVE TrustedFile'
  <2>1. SameFile
    BY <1>26 DEF Begin, SameFile
  <2> QED BY <2>1, <1>k
<1>27. ASSUME Verify PROVE TrustedFile'
  <2>1. SameFile
    BY <1>27, <1>t, PlainWrite DEF Verify, SameFile, States
  <2> QED BY <2>1, <1>k
<1>28. ASSUME Gates PROVE TrustedFile'
  <2>1. SameFile
    BY <1>28 DEF Gates, SameFile
  <2> QED BY <2>1, <1>k
<1>29. ASSUME Verified PROVE TrustedFile'
  <2>1. SameFile
    BY <1>29 DEF Verified, SameFile
  <2> QED BY <2>1, <1>k
<1>30. ASSUME Stage PROVE TrustedFile'
  <2>1. CASE UNCHANGED st
    BY <2>1, <1>k DEF SameFile
  <2>2. CASE WriteStatus("COMMITTING",
               [ckpt |-> "STAGING", pre |-> repo.head, subject |-> ctl.round,
                paths |-> Paths, content |-> repo.tree, base |-> repo.head])
    <3>1. st \in StatusType /\ "COMMITTING" \in States /\ "STAGING" \in Checkpoint
      BY DEF TypeOK, States, Checkpoint, Checkpoints
    <3>2. repo.head \in Commits /\ repo.tree \in Tree /\ Paths \in Tree /\ ctl.round \in Int
      BY <1>s DEF TypeOK, RepoType, CtlType
    <3>3. /\ st'.ckpt = "STAGING" /\ st'.snap = st.snap /\ st'.content = repo.tree
          /\ st'.base = repo.head /\ st'.pre = repo.head /\ st'.subject = ctl.round
          /\ st'.commit = st.commit
      BY <1>t, <2>2 DEF StatusType, WriteStatus, Over
    <3>4. HandCommits(repo.head) \subseteq ghost'.vouched /\ Stray(repo.tree) \subseteq ghost'.blessed
      BY <1>30, <1>w DEF Stage, Trusted, Finalizing
    <3>5. ctl.round \in Nat
      BY DEF TypeOK, CtlType
    <3> QED BY <1>f, <1>g, <1>t, <3>3, <3>4, <3>5, StrayOfNothing, NoHandCommits
               DEF TrustedFile, Clean, TreeOf
  <2> QED BY <1>30, <2>1, <2>2 DEF Stage
<1>31. ASSUME GitAdd PROVE TrustedFile'
  <2>1. SameFile
    BY <1>31 DEF GitAdd, SameFile
  <2> QED BY <2>1, <1>k
<1>32. ASSUME Staged PROVE TrustedFile'
  <2>1. /\ st'.ckpt = "STAGED" /\ st'.ptree = repo.index
        /\ st'.snap = st.snap /\ st'.content = st.content /\ st'.base = st.base
        /\ st'.pre = st.pre /\ st'.subject = st.subject /\ st'.commit = st.commit
    BY <1>32, <1>t, Names, StagedWrite DEF Staged
  <2>2. st.ckpt = "STAGING" /\ Stray(repo.index) \subseteq ghost'.blessed
    BY <1>32, <1>g DEF Staged, Attributed, StagedTree
  <2> QED BY <1>f, <1>g, <2>1, <2>2, NoHandCommits DEF TrustedFile, Clean, TreeOf
<1>33. ASSUME GitCommit PROVE TrustedFile'
  <2>1. SameFile
    BY <1>33 DEF GitCommit, SameFile
  <2> QED BY <2>1, <1>k
<1>34. ASSUME Committed PROVE TrustedFile'
  <2>1. /\ st'.ckpt = "COMMITTED" /\ st'.commit = repo.head
        /\ st'.snap = st.snap /\ st'.base = st.base /\ st'.pre = st.pre
    BY <1>34, <1>t, CommitWrite DEF Committed, States, Checkpoint, Checkpoints
  <2>2. /\ HandCommits(repo.head) \subseteq ghost'.vouched
        /\ Stray(TreeOf(repo.head)) \subseteq ghost'.blessed
    BY <1>34, <1>g, <1>w
       DEF Committed, Trusted, Finalizing, Attributed, StagedTree, HeadTree, TreeOf
  <2> QED BY <1>f, <1>g, <2>1, <2>2 DEF TrustedFile, Clean, TreeOf
<1>35. ASSUME Push PROVE TrustedFile'
  <2>1. SameFile
    BY <1>35, <1>t, PlainWrite DEF Push, SameFile, States
  <2> QED BY <2>1, <1>k
<1>36. ASSUME GitPush PROVE TrustedFile'
  <2>1. SameFile
    BY <1>36 DEF GitPush, SameFile
  <2> QED BY <2>1, <1>k
<1>37. ASSUME Pushed PROVE TrustedFile'
  <2>1. /\ st'.ckpt = "PUSHED" /\ st'.commit = repo.head
        /\ st'.snap = st.snap /\ st'.base = st.base /\ st'.pre = st.pre
    <3>1. WriteStatus("PUSHED", [ckpt |-> "PUSHED", commit |-> repo.head])
      BY <1>37 DEF Pushed
    <3> QED BY <1>t, <3>1, Names, CommitWrite
  <2>2. /\ HandCommits(repo.head) \subseteq ghost'.vouched
        /\ Stray(TreeOf(repo.head)) \subseteq ghost'.blessed
    BY <1>37, <1>g, <1>w
       DEF Pushed, Trusted, Finalizing, Attributed, StagedTree, HeadTree, TreeOf
  <2> QED BY <1>f, <1>g, <2>1, <2>2 DEF TrustedFile, Clean, TreeOf
<1>38. ASSUME OpenPr PROVE TrustedFile'
  <2>1. SameFile
    BY <1>38 DEF OpenPr, SameFile
  <2> QED BY <2>1, <1>k
<1>39. ASSUME PrCreated PROVE TrustedFile'
  <2>1. /\ st'.ckpt = "PR_CREATED" /\ st'.commit = repo.head
        /\ st'.snap = st.snap /\ st'.base = st.base /\ st'.pre = st.pre
    BY <1>39, <1>t, PrCreatedWrite DEF PrCreated, States, Checkpoint, Checkpoints
  <2>2. /\ HandCommits(repo.head) \subseteq ghost'.vouched
        /\ Stray(TreeOf(repo.head)) \subseteq ghost'.blessed
    BY <1>39, <1>g, <1>w
       DEF PrCreated, Trusted, Finalizing, Attributed, StagedTree, HeadTree, TreeOf
  <2> QED BY <1>f, <1>g, <2>1, <2>2 DEF TrustedFile, Clean, TreeOf
<1>40. ASSUME ReviewPassed PROVE TrustedFile'
  <2>1. SameFile
    BY <1>40, <1>t, PrWrite DEF ReviewPassed, SameFile, States
  <2> QED BY <2>1, <1>k
<1>41. ASSUME MergeCheck PROVE TrustedFile'
  <2>1. SameFile
    BY <1>41 DEF MergeCheck, SameFile
  <2> QED BY <2>1, <1>k
<1>42. ASSUME MarkReady PROVE TrustedFile'
  <2>1. SameFile
    BY <1>42 DEF MarkReady, SameFile
  <2> QED BY <2>1, <1>k
<1>43. ASSUME Recheck PROVE TrustedFile'
  <2>1. SameFile
    BY <1>43, <1>t, PrWrite DEF Recheck, SameFile, States
  <2> QED BY <2>1, <1>k
<1>44. ASSUME Merge PROVE TrustedFile'
  <2>1. SameFile
    BY <1>44 DEF Merge, SameFile
  <2> QED BY <2>1, <1>k
<1>45. ASSUME RecordOutcome PROVE TrustedFile'
  <2>1. SameFile
    BY <1>45, <1>t, PrWrite DEF RecordOutcome, SameFile, States
  <2> QED BY <2>1, <1>k
<1>46. ASSUME Finish PROVE TrustedFile'
  <2>1. SameFile
    BY <1>46 DEF Finish, SameFile
  <2> QED BY <2>1, <1>k
<1>47. ASSUME Crash PROVE TrustedFile'
  <2>1. SameFile
    BY <1>47 DEF Crash, SameFile
  <2> QED BY <2>1, <1>k
<1>48. ASSUME Error PROVE TrustedFile'
  <2>1. CASE UNCHANGED st
    BY <2>1, <1>k DEF SameFile
  <2>2. CASE pc \in ChildSteps /\ StopChild
    BY <1>v, <2>2 DEF StopChild, RoleState, States, ChildSteps, Trusted, Running
  <2> QED BY <1>48, <2>1, <2>2 DEF Error
<1>49. ASSUME HandleError PROVE TrustedFile'
  <2>1. SameFile
    BY <1>49, <1>t, PlainWrite DEF HandleError, SameFile, States
  <2> QED BY <2>1, <1>k
<1>50. ASSUME Interrupt PROVE TrustedFile'
  <2>1. CASE UNCHANGED st
    BY <2>1, <1>k DEF SameFile
  <2>2. CASE pc \in ChildSteps /\ StopChild
    BY <1>v, <2>2 DEF StopChild, RoleState, States, ChildSteps, Trusted, Running
  <2>3. CASE WriteStatus("STOPPED", Nothing)
    BY <1>v, <2>3 DEF States
  <2> QED BY <1>50, <2>1, <2>2, <2>3 DEF Interrupt
<1>51. ASSUME HandleInterrupt PROVE TrustedFile'
  <2>1. CASE UNCHANGED st
    BY <2>1, <1>k DEF SameFile
  <2>2. CASE ctl.role = "impl" /\ WriteStatus("RECOVERABLE_CHANGES", Scope)
    BY <1>51, <1>v, <2>2 DEF HandleInterrupt, Trusted, States
  <2>3. CASE \E s \in States : WriteStatus(s, Nothing)
    BY <1>v, <2>3
  <2> QED BY <1>51, <2>1, <2>2, <2>3 DEF HandleInterrupt, States
<1>52. ASSUME ChildWrites PROVE TrustedFile'
  <2>1. SameFile
    BY <1>52 DEF ChildWrites, SameFile
  <2> QED BY <2>1, <1>k
<1>53. ASSUME OrphanEnds PROVE TrustedFile'
  <2>1. SameFile
    BY <1>53 DEF OrphanEnds, SameFile
  <2> QED BY <2>1, <1>k
<1>54. ASSUME StrayEdit PROVE TrustedFile'
  <2>1. SameFile
    BY <1>54 DEF StrayEdit, SameFile
  <2> QED BY <2>1, <1>k
<1>55. ASSUME HandCommit PROVE TrustedFile'
  <2>1. SameFile
    BY <1>55 DEF HandCommit, SameFile
  <2> QED BY <2>1, <1>k
<1>56. ASSUME ForeignPush PROVE TrustedFile'
  <2>1. SameFile
    BY <1>56 DEF ForeignPush, SameFile
  <2> QED BY <2>1, <1>k
<1>57. ASSUME CloseIssue PROVE TrustedFile'
  <2>1. SameFile
    BY <1>57 DEF CloseIssue, SameFile
  <2> QED BY <2>1, <1>k
<1>58. ASSUME Requeue PROVE TrustedFile'
  <2>1. SameFile
    BY <1>58 DEF Requeue, SameFile
  <2> QED BY <2>1, <1>k
<1>59. CASE UNCHANGED vars
  BY <1>59, <1>k DEF vars, SameFile
<1> QED BY <1>1, <1>2, <1>3, <1>4, <1>5, <1>6, <1>7, <1>8, <1>9, <1>10, <1>11, <1>12, <1>13,
           <1>14, <1>15, <1>16, <1>17, <1>18, <1>19, <1>20, <1>21, <1>22, <1>23, <1>24, <1>25,
           <1>26, <1>27, <1>28, <1>29, <1>30, <1>31, <1>32, <1>33, <1>34, <1>35, <1>36, <1>37,
           <1>38, <1>39, <1>40, <1>41, <1>42, <1>43, <1>44, <1>45, <1>46, <1>47, <1>48, <1>49,
           <1>50, <1>51, <1>52, <1>53, <1>54, <1>55, <1>56, <1>57, <1>58, <1>59
           DEF Next, Step, Startup, RunChild, Finalize, Handle, World

\* Every action keeps recovery apart from ordinary tasks.
LEMMA RecoveringStep ==
  ASSUME TypeOK, RoleFits, Recovering, [Next]_vars
  PROVE  Recovering'
<1>1. ASSUME NEW m \in Modes, Start(m) PROVE Recovering'
  BY <1>1 DEF Start, Recovering, TypeOK, CtlType, OutsideSteps, Preparing, Running, NoCtl
<1>2. ASSUME Reconcile PROVE Recovering'
  BY <1>2 DEF Reconcile, Recovering, TypeOK, CtlType, OutsideSteps, Preparing, Running, NoCtl
<1>3. ASSUME MeetOrphan PROVE Recovering'
  BY <1>3
     DEF MeetOrphan, Recovering, TypeOK, CtlType, OutsideSteps, Preparing, Running, NoCtl,
         NoChild
<1>4. ASSUME InspectUnprovenBranch PROVE Recovering'
  BY <1>4
     DEF InspectUnprovenBranch, Recovering, TypeOK, CtlType, OutsideSteps, Preparing, Running,
         NoCtl
<1>5. ASSUME InspectCommit PROVE Recovering'
  BY <1>5
     DEF InspectCommit, Recovering, TypeOK, CtlType, OutsideSteps, Preparing, Running, NoCtl,
         ResumeWith
<1>6. ASSUME InspectNoChanges PROVE Recovering'
  BY <1>6
     DEF InspectNoChanges, Recovering, TypeOK, CtlType, OutsideSteps, Preparing, Running, NoCtl
<1>7. ASSUME NoChanges PROVE Recovering'
  BY <1>7 DEF NoChanges, Recovering, TypeOK, CtlType, OutsideSteps, Preparing, Running, NoCtl
<1>8. ASSUME InspectUnattributed PROVE Recovering'
  BY <1>8
     DEF InspectUnattributed, Recovering, TypeOK, CtlType, OutsideSteps, Preparing, Running,
         NoCtl
<1>9. ASSUME InspectRecoverable PROVE Recovering'
  BY <1>9
     DEF InspectRecoverable, Recovering, TypeOK, CtlType, OutsideSteps, Preparing, Running,
         NoCtl, ResumeWith
<1>10. ASSUME ConfirmRecovery PROVE Recovering'
  BY <1>10
     DEF ConfirmRecovery, Recovering, TypeOK, CtlType, OutsideSteps, Preparing, Running, NoCtl,
         ResumeWith
<1>11. ASSUME Recover PROVE Recovering'
  BY <1>11 DEF Recover, Recovering, TypeOK, CtlType, OutsideSteps, Preparing, Running, NoCtl
<1>12. ASSUME Select PROVE Recovering'
  BY <1>12 DEF Select, Recovering, TypeOK, CtlType, OutsideSteps, Preparing, Running, NoCtl
<1>13. ASSUME Sleep PROVE Recovering'
  BY <1>13 DEF Sleep, Recovering, TypeOK, CtlType, OutsideSteps, Preparing, Running, NoCtl
<1>14. ASSUME LabelRunning PROVE Recovering'
  BY <1>14
     DEF LabelRunning, Recovering, TypeOK, CtlType, OutsideSteps, Preparing, Running, NoCtl
<1>15. ASSUME SyncMain PROVE Recovering'
  BY <1>15 DEF SyncMain, Recovering, TypeOK, CtlType, OutsideSteps, Preparing, Running, NoCtl
<1>16. ASSUME CheckoutTask PROVE Recovering'
  BY <1>16
     DEF CheckoutTask, Recovering, TypeOK, CtlType, OutsideSteps, Preparing, Running, NoCtl
<1>17. ASSUME Launch PROVE Recovering'
  BY <1>17 DEF Launch, Recovering, TypeOK, CtlType, OutsideSteps, Preparing, Running, NoCtl
<1>18. ASSUME Spawn PROVE Recovering'
  BY <1>18 DEF Spawn, Recovering, TypeOK, CtlType, OutsideSteps, Preparing, Running, NoCtl
<1>19. ASSUME RecordChild PROVE Recovering'
  BY <1>19 DEF RecordChild, Recovering, TypeOK, CtlType, OutsideSteps, Preparing, Running, NoCtl
<1>20. ASSUME OpenGate PROVE Recovering'
  BY <1>20 DEF OpenGate, Recovering, TypeOK, CtlType, OutsideSteps, Preparing, Running, NoCtl
<1>21. ASSUME Await PROVE Recovering'
  BY <1>21
     DEF Await, Recovering, TypeOK, CtlType, OutsideSteps, Preparing, Running, NoCtl, NoChild
<1>22. ASSUME Reaped PROVE Recovering'
  <2>1. pc' = ctl.role /\ ctl.role \in Role /\ ctl' = ctl
    BY <1>22 DEF Reaped, RoleFits, Running
  <2> QED BY <1>22, <2>1 DEF Reaped, Recovering, OutsideSteps, Preparing, Running, Role
<1>23. ASSUME ImplResult PROVE Recovering'
  BY <1>23
     DEF ImplResult, Recovering, TypeOK, CtlType, OutsideSteps, Preparing, Running, NoCtl,
         Preserve
<1>24. ASSUME ReviewResult PROVE Recovering'
  BY <1>24
     DEF ReviewResult, Recovering, TypeOK, CtlType, OutsideSteps, Preparing, Running, NoCtl
<1>25. ASSUME FixResult PROVE Recovering'
  BY <1>25
     DEF FixResult, Recovering, TypeOK, CtlType, OutsideSteps, Preparing, Running, NoCtl,
         Preserve
<1>26. ASSUME Begin PROVE Recovering'
  <2>1. pc' \in {"verify", "handle_error"} /\ (ctl'.done > 0 => ctl'.rec)
    BY <1>26 DEF Begin, TypeOK, CtlType, Completed, Recovering
  <2> QED BY <2>1 DEF Recovering, OutsideSteps, Preparing, Running
<1>27. ASSUME Verify PROVE Recovering'
  BY <1>27 DEF Verify, Recovering, TypeOK, CtlType, OutsideSteps, Preparing, Running, NoCtl
<1>28. ASSUME Gates PROVE Recovering'
  BY <1>28 DEF Gates, Recovering, TypeOK, CtlType, OutsideSteps, Preparing, Running, NoCtl
<1>29. ASSUME Verified PROVE Recovering'
  BY <1>29 DEF Verified, Recovering, TypeOK, CtlType, OutsideSteps, Preparing, Running, NoCtl
<1>30. ASSUME Stage PROVE Recovering'
  BY <1>30 DEF Stage, Recovering, TypeOK, CtlType, OutsideSteps, Preparing, Running, NoCtl
<1>31. ASSUME GitAdd PROVE Recovering'
  BY <1>31 DEF GitAdd, Recovering, TypeOK, CtlType, OutsideSteps, Preparing, Running, NoCtl
<1>32. ASSUME Staged PROVE Recovering'
  BY <1>32 DEF Staged, Recovering, TypeOK, CtlType, OutsideSteps, Preparing, Running, NoCtl
<1>33. ASSUME GitCommit PROVE Recovering'
  BY <1>33 DEF GitCommit, Recovering, TypeOK, CtlType, OutsideSteps, Preparing, Running, NoCtl
<1>34. ASSUME Committed PROVE Recovering'
  BY <1>34 DEF Committed, Recovering, TypeOK, CtlType, OutsideSteps, Preparing, Running, NoCtl
<1>35. ASSUME Push PROVE Recovering'
  BY <1>35 DEF Push, Recovering, TypeOK, CtlType, OutsideSteps, Preparing, Running, NoCtl
<1>36. ASSUME GitPush PROVE Recovering'
  BY <1>36 DEF GitPush, Recovering, TypeOK, CtlType, OutsideSteps, Preparing, Running, NoCtl
<1>37. ASSUME Pushed PROVE Recovering'
  <2>1. /\ pc' \in {"pr", "launch"} /\ (ctl'.done > 0 => ctl'.rec)
        /\ pc' = "launch" => ctl'.role = "review"
    <3>1. ctl' \in {ctl, [ctl EXCEPT !.role = "review", !.round = ctl.round + 1]}
      BY <1>37 DEF Pushed
    <3>2. pc' = "launch" => ctl' = [ctl EXCEPT !.role = "review", !.round = ctl.round + 1]
      BY <1>37 DEF Pushed
    <3> QED BY <1>37, <3>1, <3>2 DEF Pushed, TypeOK, CtlType, Recovering
  <2> QED BY <2>1 DEF Recovering, OutsideSteps, Preparing, Running
<1>38. ASSUME OpenPr PROVE Recovering'
  BY <1>38 DEF OpenPr, Recovering, TypeOK, CtlType, OutsideSteps, Preparing, Running, NoCtl
<1>39. ASSUME PrCreated PROVE Recovering'
  BY <1>39 DEF PrCreated, Recovering, TypeOK, CtlType, OutsideSteps, Preparing, Running, NoCtl
<1>40. ASSUME ReviewPassed PROVE Recovering'
  BY <1>40
     DEF ReviewPassed, Recovering, TypeOK, CtlType, OutsideSteps, Preparing, Running, NoCtl
<1>41. ASSUME MergeCheck PROVE Recovering'
  BY <1>41 DEF MergeCheck, Recovering, TypeOK, CtlType, OutsideSteps, Preparing, Running, NoCtl
<1>42. ASSUME MarkReady PROVE Recovering'
  BY <1>42 DEF MarkReady, Recovering, TypeOK, CtlType, OutsideSteps, Preparing, Running, NoCtl
<1>43. ASSUME Recheck PROVE Recovering'
  BY <1>43 DEF Recheck, Recovering, TypeOK, CtlType, OutsideSteps, Preparing, Running, NoCtl
<1>44. ASSUME Merge PROVE Recovering'
  BY <1>44 DEF Merge, Recovering, TypeOK, CtlType, OutsideSteps, Preparing, Running, NoCtl
<1>45. ASSUME RecordOutcome PROVE Recovering'
  BY <1>45
     DEF RecordOutcome, Recovering, TypeOK, CtlType, OutsideSteps, Preparing, Running, NoCtl
<1>46. ASSUME Finish PROVE Recovering'
  BY <1>46 DEF Finish, Recovering, TypeOK, CtlType, OutsideSteps, Preparing, Running, NoCtl
<1>47. ASSUME Crash PROVE Recovering'
  BY <1>47
     DEF Crash, Recovering, TypeOK, CtlType, OutsideSteps, Preparing, Running, NoCtl, NoChild
<1>48. ASSUME Error PROVE Recovering'
  BY <1>48
     DEF Error, Recovering, TypeOK, CtlType, OutsideSteps, Preparing, Running, NoCtl,
         StopChild, NoChild
<1>49. ASSUME HandleError PROVE Recovering'
  BY <1>49 DEF HandleError, Recovering, TypeOK, CtlType, OutsideSteps, Preparing, Running, NoCtl
<1>50. ASSUME Interrupt PROVE Recovering'
  BY <1>50
     DEF Interrupt, Recovering, TypeOK, CtlType, OutsideSteps, Preparing, Running, NoCtl,
         StopChild, NoChild
<1>51. ASSUME HandleInterrupt PROVE Recovering'
  BY <1>51
     DEF HandleInterrupt, Recovering, TypeOK, CtlType, OutsideSteps, Preparing, Running, NoCtl
<1>52. ASSUME ChildWrites PROVE Recovering'
  BY <1>52 DEF ChildWrites, Recovering, TypeOK, CtlType, OutsideSteps, Preparing, Running, NoCtl
<1>53. ASSUME OrphanEnds PROVE Recovering'
  BY <1>53 DEF OrphanEnds, Recovering, TypeOK, CtlType, OutsideSteps, Preparing, Running, NoCtl
<1>54. ASSUME StrayEdit PROVE Recovering'
  BY <1>54 DEF StrayEdit, Recovering, TypeOK, CtlType, OutsideSteps, Preparing, Running, NoCtl
<1>55. ASSUME HandCommit PROVE Recovering'
  BY <1>55 DEF HandCommit, Recovering, TypeOK, CtlType, OutsideSteps, Preparing, Running, NoCtl
<1>56. ASSUME ForeignPush PROVE Recovering'
  BY <1>56 DEF ForeignPush, Recovering, TypeOK, CtlType, OutsideSteps, Preparing, Running, NoCtl
<1>57. ASSUME CloseIssue PROVE Recovering'
  BY <1>57 DEF CloseIssue, Recovering, TypeOK, CtlType, OutsideSteps, Preparing, Running, NoCtl
<1>58. ASSUME Requeue PROVE Recovering'
  BY <1>58 DEF Requeue, Recovering, TypeOK, CtlType, OutsideSteps, Preparing, Running, NoCtl
<1>59. CASE UNCHANGED vars
  BY <1>59 DEF vars, Recovering, TypeOK, CtlType, OutsideSteps, Preparing, Running, NoCtl
<1> QED BY <1>1, <1>2, <1>3, <1>4, <1>5, <1>6, <1>7, <1>8, <1>9, <1>10, <1>11, <1>12, <1>13,
           <1>14, <1>15, <1>16, <1>17, <1>18, <1>19, <1>20, <1>21, <1>22, <1>23, <1>24, <1>25,
           <1>26, <1>27, <1>28, <1>29, <1>30, <1>31, <1>32, <1>33, <1>34, <1>35, <1>36, <1>37,
           <1>38, <1>39, <1>40, <1>41, <1>42, <1>43, <1>44, <1>45, <1>46, <1>47, <1>48, <1>49,
           <1>50, <1>51, <1>52, <1>53, <1>54, <1>55, <1>56, <1>57, <1>58, <1>59
           DEF Next, Step, Startup, RunChild, Finalize, Handle, World

\* Every action keeps the tree clean where the controller relies on it.
LEMMA TreeStep ==
  ASSUME TypeOK, RoleFits, Recovering, Attributed, [Next]_vars
  PROVE  TrustedTree'
<1>c. Trusted => Clean(repo.head, repo.tree)
  BY DEF Attributed, TrustedTree
<1>k. Trusted /\ repo'.head = repo.head /\ repo'.tree = repo.tree => TrustedTree'
  BY <1>c, CleanStays DEF TrustedTree, Clean
<1>n. ~Trusted' => TrustedTree'
  BY DEF TrustedTree
<1>1. ASSUME NEW m \in Modes, Start(m) PROVE TrustedTree'
  BY <1>1, <1>k, <1>n DEF Start, Trusted, Running, Role, Merging, Finalizing
<1>2. ASSUME Reconcile PROVE TrustedTree'
  BY <1>2, <1>k, <1>n DEF Reconcile, Trusted, Running, Role, Merging, Finalizing
<1>3. ASSUME MeetOrphan PROVE TrustedTree'
  BY <1>3, <1>k, <1>n DEF MeetOrphan, Trusted, Running, Role, Merging, Finalizing, NoChild
<1>4. ASSUME InspectUnprovenBranch PROVE TrustedTree'
  BY <1>4, <1>k, <1>n DEF InspectUnprovenBranch, Trusted, Running, Role, Merging, Finalizing
<1>5. ASSUME InspectCommit PROVE TrustedTree'
  BY <1>5, <1>k, <1>n
     DEF InspectCommit, Trusted, Running, Role, Merging, Finalizing, ResumeWith, ResumeWith
<1>6. ASSUME InspectNoChanges PROVE TrustedTree'
  BY <1>6, <1>k, <1>n DEF InspectNoChanges, Trusted, Running, Role, Merging, Finalizing
<1>7. ASSUME NoChanges PROVE TrustedTree'
  BY <1>7, <1>k, <1>n DEF NoChanges, Trusted, Running, Role, Merging, Finalizing
<1>8. ASSUME InspectUnattributed PROVE TrustedTree'
  BY <1>8, <1>k, <1>n DEF InspectUnattributed, Trusted, Running, Role, Merging, Finalizing
<1>9. ASSUME InspectRecoverable PROVE TrustedTree'
  BY <1>9, <1>k, <1>n
     DEF InspectRecoverable, Trusted, Running, Role, Merging, Finalizing, ResumeWith,
         ResumeWith
<1>10. ASSUME ConfirmRecovery PROVE TrustedTree'
  BY <1>10, <1>k, <1>n
     DEF ConfirmRecovery, Trusted, Running, Role, Merging, Finalizing, ResumeWith, ResumeWith
<1>11. ASSUME Recover PROVE TrustedTree'
  BY <1>11, <1>k, <1>n DEF Recover, Trusted, Running, Role, Merging, Finalizing, Recovering
<1>12. ASSUME Select PROVE TrustedTree'
  BY <1>12, <1>k, <1>n DEF Select, Trusted, Running, Role, Merging, Finalizing
<1>13. ASSUME Sleep PROVE TrustedTree'
  BY <1>13, <1>k, <1>n DEF Sleep, Trusted, Running, Role, Merging, Finalizing
<1>14. ASSUME LabelRunning PROVE TrustedTree'
  BY <1>14, <1>k, <1>n DEF LabelRunning, Trusted, Running, Role, Merging, Finalizing
<1>15. ASSUME SyncMain PROVE TrustedTree'
  <2>1. repo'.head = << >> /\ repo'.tree = {}
    BY <1>15 DEF SyncMain, OnMain
  <2> QED BY <2>1, NoHandCommits, StrayOfNothing DEF TrustedTree, Clean
<1>16. ASSUME CheckoutTask PROVE TrustedTree'
  BY <1>16, <1>k, <1>n
     DEF CheckoutTask, Trusted, Running, Role, Merging, Finalizing, TypeOK, RepoType
<1>17. ASSUME Launch PROVE TrustedTree'
  BY <1>17, <1>k, <1>n DEF Launch, Trusted, Running, Role, Merging, Finalizing
<1>18. ASSUME Spawn PROVE TrustedTree'
  BY <1>18, <1>k, <1>n DEF Spawn, Trusted, Running, Role, Merging, Finalizing
<1>19. ASSUME RecordChild PROVE TrustedTree'
  BY <1>19, <1>k, <1>n DEF RecordChild, Trusted, Running, Role, Merging, Finalizing
<1>20. ASSUME OpenGate PROVE TrustedTree'
  BY <1>20, <1>k, <1>n DEF OpenGate, Trusted, Running, Role, Merging, Finalizing
<1>21. ASSUME Await PROVE TrustedTree'
  BY <1>21, <1>k, <1>n DEF Await, Trusted, Running, Role, Merging, Finalizing, NoChild
<1>22. ASSUME Reaped PROVE TrustedTree'
  <2>1. Trusted /\ repo' = repo
    BY <1>22 DEF Reaped, Trusted, Running
  <2> QED BY <2>1, <1>k
<1>23. ASSUME ImplResult PROVE TrustedTree'
  <2>1. \/ Trusted /\ repo' = repo
        \/ ~Trusted'
    BY <1>23 DEF ImplResult, Preserve, Trusted, Running, Role, Merging, Finalizing
  <2> QED BY <2>1, <1>k, <1>n
<1>24. ASSUME ReviewResult PROVE TrustedTree'
  BY <1>24, <1>k, <1>n DEF ReviewResult, Trusted, Running, Role, Merging, Finalizing
<1>25. ASSUME FixResult PROVE TrustedTree'
  BY <1>25, <1>k, <1>n DEF FixResult, Trusted, Running, Role, Merging, Finalizing, Preserve
<1>26. ASSUME Begin PROVE TrustedTree'
  <2>1. Trusted' => Trusted
    BY <1>26 DEF Begin, TypeOK, CtlType, Recovering, Trusted, Running, Role, Merging, Finalizing
  <2>2. repo' = repo
    BY <1>26 DEF Begin
  <2> QED BY <1>k, <1>n, <2>1, <2>2
<1>27. ASSUME Verify PROVE TrustedTree'
  BY <1>27, <1>k, <1>n DEF Verify, Trusted, Running, Role, Merging, Finalizing
<1>28. ASSUME Gates PROVE TrustedTree'
  <2>1. CASE Trusted
    <3>1. repo'.head = repo.head /\ Stray(repo'.tree) = Stray(repo.tree)
      BY <1>28, <2>1
         DEF Gates, TypeOK, RepoType, GateWrites, GATE, Trusted, Running, Role, Merging,
             Finalizing, Stray
    <3> QED BY <1>c, <2>1, <3>1, CleanStays DEF TrustedTree, Clean
  <2>2. CASE ~Trusted
    BY <1>28, <2>2, <1>n DEF Gates, Trusted, Running, Role, Merging, Finalizing
  <2> QED BY <2>1, <2>2
<1>29. ASSUME Verified PROVE TrustedTree'
  <2>1. CASE Trusted \/ ~StillValid
    BY <1>29, <2>1, <1>k, <1>n DEF Verified, Trusted, Running, Role, Merging, Finalizing
  <2>2. CASE ~Trusted /\ StillValid
    <3>1. ctl.rec /\ ctl.round = 0 /\ (IF ctl.done = 0 THEN ValidScope ELSE ~Dirty)
      BY <1>29, <2>2 DEF Verified, StillValid, Trusted
    <3>2. TrustedFile /\ RecoveredHead
      BY DEF Attributed
    <3>3. ASSUME ctl.done = 0, st.snap = Snapshot PROVE Clean(repo.head, repo.tree)
      <4>1. st.snap # None
        BY <3>3, ScopeType, NoneAssumption
      <4>2. st.snap.head = repo.head /\ st.snap.tree = repo.tree
        BY <3>3 DEF Snapshot
      <4> QED BY <3>2, <4>1, <4>2 DEF TrustedFile
    <3>4. ASSUME ctl.done = 0, st.snap # Snapshot PROVE Clean(repo.head, repo.tree)
      <4>1. /\ st.ckpt \in {"STAGING", "STAGED"} /\ st.base = repo.head /\ st.content = repo.tree
        BY <3>1, <3>4 DEF ValidScope
      <4> QED BY <3>2, <4>1 DEF TrustedFile, Clean
    <3>5. ASSUME ctl.done # 0 PROVE Clean(repo.head, repo.tree)
      <4>1. repo.tree = HeadTree /\ st.commit = repo.head
        BY <1>29, <3>1, <3>2, <3>5 DEF Dirty, RecoveredHead, Verified, TypeOK, CtlType
      <4>2. st.commit # None
        BY <4>1, NoneAssumption DEF TypeOK, RepoType, Commits
      <4> QED BY <3>2, <4>1, <4>2 DEF TrustedFile, HeadTree, TreeOf
    <3>6. Clean(repo.head, repo.tree)
      BY <3>3, <3>4, <3>5
    <3>7. repo' = repo
      BY <1>29 DEF Verified
    <3> QED BY <3>6, <3>7, CleanStays DEF TrustedTree, Clean
  <2> QED BY <2>1, <2>2
<1>30. ASSUME Stage PROVE TrustedTree'
  BY <1>30, <1>k, <1>n DEF Stage, Trusted, Running, Role, Merging, Finalizing
<1>31. ASSUME GitAdd PROVE TrustedTree'
  BY <1>31, <1>k, <1>n DEF GitAdd, Trusted, Running, Role, Merging, Finalizing, TypeOK, RepoType
<1>32. ASSUME Staged PROVE TrustedTree'
  BY <1>32, <1>k, <1>n DEF Staged, Trusted, Running, Role, Merging, Finalizing
<1>33. ASSUME GitCommit PROVE TrustedTree'
  <2>1. Clean(repo.head, repo.tree)
    BY <1>33, <1>c DEF GitCommit, Trusted, Finalizing
  <2> DEFINE x == [subject |-> ctl.round, tree |-> repo.index]
  <2>2. x \in Commit /\ x.subject # HAND /\ repo.head \in Commits
    BY DEF TypeOK, CtlType, RepoType, Commit, HAND
  <2>3. repo'.head = Append(repo.head, x) /\ repo'.tree = repo.tree
    BY <1>33 DEF GitCommit, TypeOK, RepoType
  <2>4. HandCommits(repo'.head) = HandCommits(repo.head)
    BY <2>2, <2>3, OwnCommit
  <2> QED BY <2>1, <2>3, <2>4, CleanStays DEF TrustedTree, Clean
<1>34. ASSUME Committed PROVE TrustedTree'
  BY <1>34, <1>k, <1>n DEF Committed, Trusted, Running, Role, Merging, Finalizing
<1>35. ASSUME Push PROVE TrustedTree'
  BY <1>35, <1>k, <1>n DEF Push, Trusted, Running, Role, Merging, Finalizing
<1>36. ASSUME GitPush PROVE TrustedTree'
  BY <1>36, <1>k, <1>n DEF GitPush, Trusted, Running, Role, Merging, Finalizing
<1>37. ASSUME Pushed PROVE TrustedTree'
  BY <1>37, <1>k, <1>n DEF Pushed, Trusted, Running, Role, Merging, Finalizing
<1>38. ASSUME OpenPr PROVE TrustedTree'
  BY <1>38, <1>k, <1>n DEF OpenPr, Trusted, Running, Role, Merging, Finalizing
<1>39. ASSUME PrCreated PROVE TrustedTree'
  BY <1>39, <1>k, <1>n DEF PrCreated, Trusted, Running, Role, Merging, Finalizing
<1>40. ASSUME ReviewPassed PROVE TrustedTree'
  BY <1>40, <1>k, <1>n DEF ReviewPassed, Trusted, Running, Role, Merging, Finalizing
<1>41. ASSUME MergeCheck PROVE TrustedTree'
  BY <1>41, <1>k, <1>n DEF MergeCheck, Trusted, Running, Role, Merging, Finalizing
<1>42. ASSUME MarkReady PROVE TrustedTree'
  BY <1>42, <1>k, <1>n DEF MarkReady, Trusted, Running, Role, Merging, Finalizing
<1>43. ASSUME Recheck PROVE TrustedTree'
  BY <1>43, <1>k, <1>n DEF Recheck, Trusted, Running, Role, Merging, Finalizing
<1>44. ASSUME Merge PROVE TrustedTree'
  BY <1>44, <1>k, <1>n DEF Merge, Trusted, Running, Role, Merging, Finalizing
<1>45. ASSUME RecordOutcome PROVE TrustedTree'
  BY <1>45, <1>k, <1>n DEF RecordOutcome, Trusted, Running, Role, Merging, Finalizing
<1>46. ASSUME Finish PROVE TrustedTree'
  BY <1>46, <1>k, <1>n DEF Finish, Trusted, Running, Role, Merging, Finalizing
<1>47. ASSUME Crash PROVE TrustedTree'
  BY <1>47, <1>k, <1>n DEF Crash, Trusted, Running, Role, Merging, Finalizing, NoChild
<1>48. ASSUME Error PROVE TrustedTree'
  BY <1>48, <1>k, <1>n
     DEF Error, Trusted, Running, Role, Merging, Finalizing, StopChild, NoChild
<1>49. ASSUME HandleError PROVE TrustedTree'
  BY <1>49, <1>k, <1>n DEF HandleError, Trusted, Running, Role, Merging, Finalizing
<1>50. ASSUME Interrupt PROVE TrustedTree'
  <2>1. Trusted' => Trusted
    BY <1>50
       DEF Interrupt, TypeOK, CtlType, Trusted, NoCtl, ChildSteps, LaunchSteps, HandlerSteps,
           Running, Role, Merging, Finalizing
  <2>2. repo' = repo
    BY <1>50 DEF Interrupt
  <2> QED BY <1>k, <1>n, <2>1, <2>2
<1>51. ASSUME HandleInterrupt PROVE TrustedTree'
  BY <1>51, <1>k, <1>n DEF HandleInterrupt, Trusted, Running, Role, Merging, Finalizing
<1>52. ASSUME ChildWrites PROVE TrustedTree'
  <2>1. repo'.head = repo.head /\ Stray(repo'.tree) = Stray(repo.tree)
    BY <1>52 DEF ChildWrites, ChildMark, TypeOK, RepoType, Commits, Stray
  <2>2. Trusted' => Trusted
    BY <1>52 DEF ChildWrites, Trusted
  <2> QED BY <1>c, <1>n, <2>1, <2>2, CleanStays DEF TrustedTree, Clean
<1>53. ASSUME OrphanEnds PROVE TrustedTree'
  BY <1>53, <1>k, <1>n DEF OrphanEnds, Trusted, Running, Role, Merging, Finalizing
<1>54. ASSUME StrayEdit PROVE TrustedTree'
  BY <1>54, <1>k, <1>n DEF StrayEdit, Trusted, Running, Role, Merging, Finalizing
<1>55. ASSUME HandCommit PROVE TrustedTree'
  BY <1>55, <1>k, <1>n DEF HandCommit, Trusted, Running, Role, Merging, Finalizing
<1>56. ASSUME ForeignPush PROVE TrustedTree'
  BY <1>56, <1>k, <1>n DEF ForeignPush, Trusted, Running, Role, Merging, Finalizing
<1>57. ASSUME CloseIssue PROVE TrustedTree'
  BY <1>57, <1>k, <1>n DEF CloseIssue, Trusted, Running, Role, Merging, Finalizing
<1>58. ASSUME Requeue PROVE TrustedTree'
  BY <1>58, <1>k, <1>n DEF Requeue, Trusted, Running, Role, Merging, Finalizing
<1>59. CASE UNCHANGED vars
  BY <1>59, <1>k, <1>n DEF vars, Trusted, Running, Role, Merging, Finalizing
<1> QED BY <1>1, <1>2, <1>3, <1>4, <1>5, <1>6, <1>7, <1>8, <1>9, <1>10, <1>11, <1>12, <1>13,
           <1>14, <1>15, <1>16, <1>17, <1>18, <1>19, <1>20, <1>21, <1>22, <1>23, <1>24, <1>25,
           <1>26, <1>27, <1>28, <1>29, <1>30, <1>31, <1>32, <1>33, <1>34, <1>35, <1>36, <1>37,
           <1>38, <1>39, <1>40, <1>41, <1>42, <1>43, <1>44, <1>45, <1>46, <1>47, <1>48, <1>49,
           <1>50, <1>51, <1>52, <1>53, <1>54, <1>55, <1>56, <1>57, <1>58, <1>59
           DEF Next, Step, Startup, RunChild, Finalize, Handle, World

\* The last commit and its parent, after a commit.
LEMMA LastAppended ==
  ASSUME NEW c \in Commits, NEW x \in Commit
  PROVE  Append(c, x) # << >> /\ Last(Append(c, x)) = x
<1>1. Len(Append(c, x)) = Len(c) + 1 /\ Append(c, x)[Len(c) + 1] = x /\ Len(c) \in Nat
  BY DEF Commits
<1>2. Append(c, x) # << >>
  BY <1>1
<1> QED BY <1>1, <1>2 DEF Last

\* Every action keeps the index clean between staging and the pull request.
LEMMA StagedStep ==
  ASSUME TypeOK, RoleFits, Recovering, Attributed, [Next]_vars
  PROVE  StagedTree'
<1>a. StagedTree
  BY DEF Attributed
<1>g. ghost.blessed \subseteq ghost'.blessed
  BY GhostGrows
<1>1. ASSUME NEW m \in Modes, Start(m) PROVE StagedTree'
  BY <1>1 DEF Start, StagedTree
<1>2. ASSUME Reconcile PROVE StagedTree'
  BY <1>2 DEF Reconcile, StagedTree
<1>3. ASSUME MeetOrphan PROVE StagedTree'
  BY <1>3 DEF MeetOrphan, StagedTree, NoChild
<1>4. ASSUME InspectUnprovenBranch PROVE StagedTree'
  BY <1>4 DEF InspectUnprovenBranch, StagedTree
<1>5. ASSUME InspectCommit PROVE StagedTree'
  BY <1>5 DEF InspectCommit, StagedTree, ResumeWith
<1>6. ASSUME InspectNoChanges PROVE StagedTree'
  BY <1>6 DEF InspectNoChanges, StagedTree
<1>7. ASSUME NoChanges PROVE StagedTree'
  BY <1>7 DEF NoChanges, StagedTree
<1>8. ASSUME InspectUnattributed PROVE StagedTree'
  BY <1>8 DEF InspectUnattributed, StagedTree
<1>9. ASSUME InspectRecoverable PROVE StagedTree'
  BY <1>9 DEF InspectRecoverable, StagedTree, ResumeWith
<1>10. ASSUME ConfirmRecovery PROVE StagedTree'
  BY <1>10 DEF ConfirmRecovery, StagedTree, ResumeWith
<1>11. ASSUME Recover PROVE StagedTree'
  BY <1>11 DEF Recover, StagedTree
<1>12. ASSUME Select PROVE StagedTree'
  BY <1>12 DEF Select, StagedTree
<1>13. ASSUME Sleep PROVE StagedTree'
  BY <1>13 DEF Sleep, StagedTree
<1>14. ASSUME LabelRunning PROVE StagedTree'
  BY <1>14 DEF LabelRunning, StagedTree
<1>15. ASSUME SyncMain PROVE StagedTree'
  BY <1>15 DEF SyncMain, StagedTree
<1>16. ASSUME CheckoutTask PROVE StagedTree'
  BY <1>16 DEF CheckoutTask, StagedTree
<1>17. ASSUME Launch PROVE StagedTree'
  BY <1>17 DEF Launch, StagedTree
<1>18. ASSUME Spawn PROVE StagedTree'
  BY <1>18 DEF Spawn, StagedTree
<1>19. ASSUME RecordChild PROVE StagedTree'
  BY <1>19 DEF RecordChild, StagedTree
<1>20. ASSUME OpenGate PROVE StagedTree'
  BY <1>20 DEF OpenGate, StagedTree
<1>21. ASSUME Await PROVE StagedTree'
  BY <1>21 DEF Await, StagedTree, NoChild
<1>22. ASSUME Reaped PROVE StagedTree'
  <2>1. pc' \in Role
    BY <1>22 DEF Reaped, RoleFits, Running
  <2> QED BY <2>1 DEF StagedTree, Role
<1>23. ASSUME ImplResult PROVE StagedTree'
  BY <1>23 DEF ImplResult, StagedTree, Preserve
<1>24. ASSUME ReviewResult PROVE StagedTree'
  BY <1>24 DEF ReviewResult, StagedTree
<1>25. ASSUME FixResult PROVE StagedTree'
  BY <1>25 DEF FixResult, StagedTree, Preserve
<1>26. ASSUME Begin PROVE StagedTree'
  BY <1>26 DEF Begin, StagedTree
<1>27. ASSUME Verify PROVE StagedTree'
  BY <1>27 DEF Verify, StagedTree
<1>28. ASSUME Gates PROVE StagedTree'
  BY <1>28 DEF Gates, StagedTree
<1>29. ASSUME Verified PROVE StagedTree'
  <2>1. CASE pc' \in {"push", "pr"}
    <3>1. ctl.rec /\ ctl.round = 0 /\ ctl.done # 0 /\ repo' = repo
      BY <1>29, <2>1 DEF Verified, Recovering, TypeOK, CtlType
    <3>2. st.commit = repo.head
      BY <1>29, <3>1 DEF Verified, Attributed, RecoveredHead, TypeOK, CtlType
    <3>3. st.commit # None
      BY <3>2, NoneAssumption DEF TypeOK, RepoType, Commits
    <3>4. Stray(HeadTree) \subseteq ghost.blessed
      BY <3>2, <3>3 DEF Attributed, TrustedFile, Clean, TreeOf, HeadTree
    <3>5. HeadTree' = HeadTree
      BY <3>1 DEF HeadTree
    <3> QED BY <1>g, <2>1, <3>4, <3>5 DEF StagedTree
  <2>2. CASE pc' \notin {"push", "pr"}
    BY <1>29, <2>2 DEF Verified, StagedTree
  <2> QED BY <2>1, <2>2
<1>30. ASSUME Stage PROVE StagedTree'
  <2>1. CASE pc' = "add"
    <3>1. WriteStatus("COMMITTING",
            [ckpt |-> "STAGING", pre |-> repo.head, subject |-> ctl.round,
             paths |-> Paths, content |-> repo.tree, base |-> repo.head])
      BY <1>30, <2>1 DEF Stage
    <3>2. st'.ckpt = "STAGING"
      BY <3>1 DEF TypeOK, StatusType, WriteStatus, Over
    <3> QED BY <2>1, <3>2 DEF StagedTree
  <2>2. CASE pc' # "add"
    BY <1>30, <2>2 DEF Stage, StagedTree
  <2> QED BY <2>1, <2>2
<1>31. ASSUME GitAdd PROVE StagedTree'
  <2>1. st' = st /\ repo'.index = repo.tree /\ pc' = "staged"
    BY <1>31 DEF GitAdd, TypeOK, RepoType
  <2>2. Stray(repo.tree) \subseteq ghost.blessed
    BY <1>31 DEF GitAdd, Attributed, TrustedTree, Trusted, Finalizing, Clean
  <2> QED BY <1>31, <1>a, <1>g, <2>1, <2>2 DEF GitAdd, StagedTree
<1>32. ASSUME Staged PROVE StagedTree'
  <2>1. pc' = "commit" /\ repo' = repo
    BY <1>32 DEF Staged
  <2> QED BY <1>32, <1>a, <1>g, <2>1 DEF Staged, StagedTree
<1>33. ASSUME GitCommit PROVE StagedTree'
  <2> DEFINE x == [subject |-> ctl.round, tree |-> repo.index]
  <2>1. x \in Commit /\ repo.head \in Commits
    BY DEF TypeOK, CtlType, RepoType, Commit
  <2>2. repo'.head = Append(repo.head, x)
    BY <1>33 DEF GitCommit, TypeOK, RepoType
  <2>3. repo'.head # << >> /\ Last(repo'.head) = x
    BY <2>1, <2>2, LastAppended
  <2>4. HeadTree' = repo.index
    BY <2>3 DEF HeadTree
  <2> QED BY <1>33, <1>a, <1>g, <2>4 DEF GitCommit, StagedTree
<1>34. ASSUME Committed PROVE StagedTree'
  <2>1. HeadTree' = HeadTree
    BY <1>34 DEF Committed, HeadTree
  <2> QED BY <1>34, <1>a, <1>g, <2>1 DEF Committed, StagedTree
<1>35. ASSUME Push PROVE StagedTree'
  <2>1. HeadTree' = HeadTree
    BY <1>35 DEF Push, HeadTree
  <2> QED BY <1>35, <1>a, <1>g, <2>1 DEF Push, StagedTree
<1>36. ASSUME GitPush PROVE StagedTree'
  <2>1. HeadTree' = HeadTree
    BY <1>36 DEF GitPush, HeadTree
  <2> QED BY <1>36, <1>a, <1>g, <2>1 DEF GitPush, StagedTree
<1>37. ASSUME Pushed PROVE StagedTree'
  <2>1. HeadTree' = HeadTree
    BY <1>37 DEF Pushed, HeadTree
  <2> QED BY <1>37, <1>a, <1>g, <2>1 DEF Pushed, StagedTree
<1>38. ASSUME OpenPr PROVE StagedTree'
  <2>1. HeadTree' = HeadTree
    BY <1>38 DEF OpenPr, HeadTree
  <2> QED BY <1>38, <1>a, <1>g, <2>1 DEF OpenPr, StagedTree
<1>39. ASSUME PrCreated PROVE StagedTree'
  BY <1>39 DEF PrCreated, StagedTree
<1>40. ASSUME ReviewPassed PROVE StagedTree'
  BY <1>40 DEF ReviewPassed, StagedTree
<1>41. ASSUME MergeCheck PROVE StagedTree'
  BY <1>41 DEF MergeCheck, StagedTree
<1>42. ASSUME MarkReady PROVE StagedTree'
  BY <1>42 DEF MarkReady, StagedTree
<1>43. ASSUME Recheck PROVE StagedTree'
  BY <1>43 DEF Recheck, StagedTree
<1>44. ASSUME Merge PROVE StagedTree'
  BY <1>44 DEF Merge, StagedTree
<1>45. ASSUME RecordOutcome PROVE StagedTree'
  BY <1>45 DEF RecordOutcome, StagedTree
<1>46. ASSUME Finish PROVE StagedTree'
  BY <1>46 DEF Finish, StagedTree
<1>47. ASSUME Crash PROVE StagedTree'
  BY <1>47 DEF Crash, StagedTree, NoChild
<1>48. ASSUME Error PROVE StagedTree'
  BY <1>48 DEF Error, StagedTree, StopChild, NoChild
<1>49. ASSUME HandleError PROVE StagedTree'
  BY <1>49 DEF HandleError, StagedTree
<1>50. ASSUME Interrupt PROVE StagedTree'
  BY <1>50 DEF Interrupt, StagedTree, StopChild, NoChild
<1>51. ASSUME HandleInterrupt PROVE StagedTree'
  BY <1>51 DEF HandleInterrupt, StagedTree
<1>52. ASSUME ChildWrites PROVE StagedTree'
  <2>1. /\ repo'.head = repo.head /\ repo'.index = repo.index
        /\ HeadTree' = HeadTree
    BY <1>52 DEF ChildWrites, TypeOK, RepoType, HeadTree
  <2> QED BY <1>52, <1>a, <1>g, <2>1 DEF ChildWrites, StagedTree
<1>53. ASSUME OrphanEnds PROVE StagedTree'
  <2>1. HeadTree' = HeadTree
    BY <1>53 DEF OrphanEnds, HeadTree
  <2> QED BY <1>53, <1>a, <1>g, <2>1 DEF OrphanEnds, StagedTree
<1>54. ASSUME StrayEdit PROVE StagedTree'
  BY <1>54 DEF StrayEdit, StagedTree
<1>55. ASSUME HandCommit PROVE StagedTree'
  BY <1>55 DEF HandCommit, StagedTree
<1>56. ASSUME ForeignPush PROVE StagedTree'
  <2>1. HeadTree' = HeadTree
    BY <1>56 DEF ForeignPush, HeadTree
  <2> QED BY <1>56, <1>a, <1>g, <2>1 DEF ForeignPush, StagedTree
<1>57. ASSUME CloseIssue PROVE StagedTree'
  <2>1. HeadTree' = HeadTree
    BY <1>57 DEF CloseIssue, HeadTree
  <2> QED BY <1>57, <1>a, <1>g, <2>1 DEF CloseIssue, StagedTree
<1>58. ASSUME Requeue PROVE StagedTree'
  BY <1>58 DEF Requeue, StagedTree
<1>59. CASE UNCHANGED vars
  BY <1>59, <1>a DEF vars, StagedTree, HeadTree
<1> QED BY <1>1, <1>2, <1>3, <1>4, <1>5, <1>6, <1>7, <1>8, <1>9, <1>10, <1>11, <1>12, <1>13,
           <1>14, <1>15, <1>16, <1>17, <1>18, <1>19, <1>20, <1>21, <1>22, <1>23, <1>24, <1>25,
           <1>26, <1>27, <1>28, <1>29, <1>30, <1>31, <1>32, <1>33, <1>34, <1>35, <1>36, <1>37,
           <1>38, <1>39, <1>40, <1>41, <1>42, <1>43, <1>44, <1>45, <1>46, <1>47, <1>48, <1>49,
           <1>50, <1>51, <1>52, <1>53, <1>54, <1>55, <1>56, <1>57, <1>58, <1>59
           DEF Next, Step, Startup, RunChild, Finalize, Handle, World

\* Every action keeps recovered commits those of the checkpoint.
LEMMA RecoveredStep ==
  ASSUME TypeOK, RoleFits, RoundFits, Attributed, [Next]_vars
  PROVE  RecoveredHead'
<1>a. RecoveredHead
  BY DEF Attributed
<1>1. ASSUME NEW m \in Modes, Start(m) PROVE RecoveredHead'
  BY <1>1 DEF Start, RecoveredHead
<1>2. ASSUME Reconcile PROVE RecoveredHead'
  BY <1>2 DEF Reconcile, RecoveredHead
<1>3. ASSUME MeetOrphan PROVE RecoveredHead'
  BY <1>3 DEF MeetOrphan, RecoveredHead, NoChild
<1>4. ASSUME InspectUnprovenBranch PROVE RecoveredHead'
  BY <1>4 DEF InspectUnprovenBranch, RecoveredHead
<1>5. ASSUME InspectCommit PROVE RecoveredHead'
  BY <1>5 DEF InspectCommit, RecoveredHead, ResumeWith, ResumeWith
<1>6. ASSUME InspectNoChanges PROVE RecoveredHead'
  BY <1>6 DEF InspectNoChanges, RecoveredHead
<1>7. ASSUME NoChanges PROVE RecoveredHead'
  BY <1>7 DEF NoChanges, RecoveredHead
<1>8. ASSUME InspectUnattributed PROVE RecoveredHead'
  BY <1>8 DEF InspectUnattributed, RecoveredHead
<1>9. ASSUME InspectRecoverable PROVE RecoveredHead'
  BY <1>9 DEF InspectRecoverable, RecoveredHead, ResumeWith, ResumeWith
<1>10. ASSUME ConfirmRecovery PROVE RecoveredHead'
  BY <1>10 DEF ConfirmRecovery, RecoveredHead, ResumeWith, ResumeWith
<1>11. ASSUME Recover PROVE RecoveredHead'
  BY <1>11 DEF Recover, RecoveredHead
<1>12. ASSUME Select PROVE RecoveredHead'
  BY <1>12 DEF Select, RecoveredHead
<1>13. ASSUME Sleep PROVE RecoveredHead'
  BY <1>13 DEF Sleep, RecoveredHead
<1>14. ASSUME LabelRunning PROVE RecoveredHead'
  BY <1>14 DEF LabelRunning, RecoveredHead
<1>15. ASSUME SyncMain PROVE RecoveredHead'
  BY <1>15 DEF SyncMain, RecoveredHead
<1>16. ASSUME CheckoutTask PROVE RecoveredHead'
  BY <1>16 DEF CheckoutTask, RecoveredHead
<1>17. ASSUME Launch PROVE RecoveredHead'
  BY <1>17 DEF Launch, RecoveredHead
<1>18. ASSUME Spawn PROVE RecoveredHead'
  BY <1>18 DEF Spawn, RecoveredHead
<1>19. ASSUME RecordChild PROVE RecoveredHead'
  BY <1>19 DEF RecordChild, RecoveredHead
<1>20. ASSUME OpenGate PROVE RecoveredHead'
  BY <1>20 DEF OpenGate, RecoveredHead
<1>21. ASSUME Await PROVE RecoveredHead'
  BY <1>21 DEF Await, RecoveredHead, NoChild
<1>22. ASSUME Reaped PROVE RecoveredHead'
  <2>1. pc' \in Role
    BY <1>22 DEF Reaped, RoleFits, Running
  <2> QED BY <2>1 DEF RecoveredHead, Role
<1>23. ASSUME ImplResult PROVE RecoveredHead'
  BY <1>23 DEF ImplResult, RecoveredHead, Preserve
<1>24. ASSUME ReviewResult PROVE RecoveredHead'
  BY <1>24 DEF ReviewResult, RecoveredHead
<1>25. ASSUME FixResult PROVE RecoveredHead'
  <2>1. pc' = "verify" => ctl'.round > 0
    BY <1>25 DEF FixResult, Preserve, TypeOK, CtlType, RoundFits
  <2> QED BY <1>25, <2>1 DEF FixResult, Preserve, RecoveredHead
<1>26. ASSUME Begin PROVE RecoveredHead'
  <2>1. pc' = "verify" /\ ctl'.done > 0 => st.commit = repo.head
    BY <1>26 DEF Begin, ValidCheckpoint, TypeOK, CtlType
  <2>2. pc' \in {"verify", "handle_error"} /\ st' = st /\ repo' = repo
    BY <1>26 DEF Begin
  <2> QED BY <2>1, <2>2 DEF RecoveredHead
<1>27. ASSUME Verify PROVE RecoveredHead'
  <2>1. st'.commit = st.commit
    BY <1>27, PlainWrite DEF Verify, TypeOK, States
  <2> QED BY <1>27, <1>a, <2>1 DEF Verify, RecoveredHead
<1>28. ASSUME Gates PROVE RecoveredHead'
  <2>1. repo'.head = repo.head
    BY <1>28 DEF Gates, TypeOK, RepoType
  <2> QED BY <1>28, <1>a, <2>1 DEF Gates, RecoveredHead
<1>29. ASSUME Verified PROVE RecoveredHead'
  BY <1>29 DEF Verified, RecoveredHead
<1>30. ASSUME Stage PROVE RecoveredHead'
  BY <1>30 DEF Stage, RecoveredHead
<1>31. ASSUME GitAdd PROVE RecoveredHead'
  BY <1>31 DEF GitAdd, RecoveredHead
<1>32. ASSUME Staged PROVE RecoveredHead'
  BY <1>32 DEF Staged, RecoveredHead
<1>33. ASSUME GitCommit PROVE RecoveredHead'
  BY <1>33 DEF GitCommit, RecoveredHead
<1>34. ASSUME Committed PROVE RecoveredHead'
  BY <1>34 DEF Committed, RecoveredHead
<1>35. ASSUME Push PROVE RecoveredHead'
  BY <1>35 DEF Push, RecoveredHead
<1>36. ASSUME GitPush PROVE RecoveredHead'
  BY <1>36 DEF GitPush, RecoveredHead
<1>37. ASSUME Pushed PROVE RecoveredHead'
  BY <1>37 DEF Pushed, RecoveredHead
<1>38. ASSUME OpenPr PROVE RecoveredHead'
  BY <1>38 DEF OpenPr, RecoveredHead
<1>39. ASSUME PrCreated PROVE RecoveredHead'
  BY <1>39 DEF PrCreated, RecoveredHead
<1>40. ASSUME ReviewPassed PROVE RecoveredHead'
  BY <1>40 DEF ReviewPassed, RecoveredHead
<1>41. ASSUME MergeCheck PROVE RecoveredHead'
  BY <1>41 DEF MergeCheck, RecoveredHead
<1>42. ASSUME MarkReady PROVE RecoveredHead'
  BY <1>42 DEF MarkReady, RecoveredHead
<1>43. ASSUME Recheck PROVE RecoveredHead'
  BY <1>43 DEF Recheck, RecoveredHead
<1>44. ASSUME Merge PROVE RecoveredHead'
  BY <1>44 DEF Merge, RecoveredHead
<1>45. ASSUME RecordOutcome PROVE RecoveredHead'
  BY <1>45 DEF RecordOutcome, RecoveredHead
<1>46. ASSUME Finish PROVE RecoveredHead'
  BY <1>46 DEF Finish, RecoveredHead
<1>47. ASSUME Crash PROVE RecoveredHead'
  BY <1>47 DEF Crash, RecoveredHead, NoChild
<1>48. ASSUME Error PROVE RecoveredHead'
  BY <1>48 DEF Error, RecoveredHead, StopChild, NoChild
<1>49. ASSUME HandleError PROVE RecoveredHead'
  BY <1>49 DEF HandleError, RecoveredHead
<1>50. ASSUME Interrupt PROVE RecoveredHead'
  BY <1>50 DEF Interrupt, RecoveredHead, StopChild, NoChild
<1>51. ASSUME HandleInterrupt PROVE RecoveredHead'
  BY <1>51 DEF HandleInterrupt, RecoveredHead
<1>52. ASSUME ChildWrites PROVE RecoveredHead'
  <2>1. repo'.head = repo.head
    BY <1>52 DEF ChildWrites, TypeOK, RepoType
  <2> QED BY <1>52, <1>a, <2>1 DEF ChildWrites, RecoveredHead
<1>53. ASSUME OrphanEnds PROVE RecoveredHead'
  BY <1>53, <1>a DEF OrphanEnds, RecoveredHead
<1>54. ASSUME StrayEdit PROVE RecoveredHead'
  BY <1>54 DEF StrayEdit, RecoveredHead
<1>55. ASSUME HandCommit PROVE RecoveredHead'
  BY <1>55 DEF HandCommit, RecoveredHead
<1>56. ASSUME ForeignPush PROVE RecoveredHead'
  BY <1>56, <1>a DEF ForeignPush, RecoveredHead
<1>57. ASSUME CloseIssue PROVE RecoveredHead'
  BY <1>57, <1>a DEF CloseIssue, RecoveredHead
<1>58. ASSUME Requeue PROVE RecoveredHead'
  BY <1>58 DEF Requeue, RecoveredHead
<1>59. CASE UNCHANGED vars
  BY <1>59, <1>a DEF vars, RecoveredHead
<1> QED BY <1>1, <1>2, <1>3, <1>4, <1>5, <1>6, <1>7, <1>8, <1>9, <1>10, <1>11, <1>12, <1>13,
           <1>14, <1>15, <1>16, <1>17, <1>18, <1>19, <1>20, <1>21, <1>22, <1>23, <1>24, <1>25,
           <1>26, <1>27, <1>28, <1>29, <1>30, <1>31, <1>32, <1>33, <1>34, <1>35, <1>36, <1>37,
           <1>38, <1>39, <1>40, <1>41, <1>42, <1>43, <1>44, <1>45, <1>46, <1>47, <1>48, <1>49,
           <1>50, <1>51, <1>52, <1>53, <1>54, <1>55, <1>56, <1>57, <1>58, <1>59
           DEF Next, Step, Startup, RunChild, Finalize, Handle, World

\* The parts together.
LEMMA AttributedStep ==
  ASSUME TypeOK, RoleFits, RemoteFits, RoundFits, Recovering, Attributed, [Next]_vars
  PROVE  Attributed'
  BY OwnHeadStep, OwnRemoteStep, TreeStep, StagedStep, RecoveredStep, FileStep DEF Attributed

-------------------------------------------------------------------------------
(* Committed work is found again *)

\* Every action keeps commits on the task branch.
LEMMA OnTaskStep ==
  ASSUME TypeOK, RoleFits, Recorded, OnTask, [Next]_vars
  PROVE  OnTask'
<1>1. ASSUME NEW m \in Modes, Start(m) PROVE OnTask'
  BY <1>1 DEF Start, OnTask, Running, Role, Finalizing, Merging, NoCtl
<1>2. ASSUME Reconcile PROVE OnTask'
  BY <1>2 DEF Reconcile, OnTask, Running, Role, Finalizing, Merging, NoCtl
<1>3. ASSUME MeetOrphan PROVE OnTask'
  BY <1>3 DEF MeetOrphan, OnTask, Running, Role, Finalizing, Merging, NoCtl, NoChild
<1>4. ASSUME InspectUnprovenBranch PROVE OnTask'
  BY <1>4 DEF InspectUnprovenBranch, OnTask, Running, Role, Finalizing, Merging, NoCtl
<1>5. ASSUME InspectCommit PROVE OnTask'
  BY <1>5
     DEF InspectCommit, OnTask, Running, Role, Finalizing, Merging, NoCtl, ResumeWith,
         ResumeWith, BranchAndBaseProven, TypeOK, CtlType
<1>6. ASSUME InspectNoChanges PROVE OnTask'
  BY <1>6 DEF InspectNoChanges, OnTask, Running, Role, Finalizing, Merging, NoCtl
<1>7. ASSUME NoChanges PROVE OnTask'
  BY <1>7 DEF NoChanges, OnTask, Running, Role, Finalizing, Merging, NoCtl
<1>8. ASSUME InspectUnattributed PROVE OnTask'
  BY <1>8 DEF InspectUnattributed, OnTask, Running, Role, Finalizing, Merging, NoCtl
<1>9. ASSUME InspectRecoverable PROVE OnTask'
  BY <1>9
     DEF InspectRecoverable, OnTask, Running, Role, Finalizing, Merging, NoCtl, ResumeWith,
         ResumeWith, BranchAndBaseProven, TypeOK, CtlType
<1>10. ASSUME ConfirmRecovery PROVE OnTask'
  BY <1>10
     DEF ConfirmRecovery, OnTask, Running, Role, Finalizing, Merging, NoCtl, ResumeWith,
         ResumeWith, BranchAndBaseProven, TypeOK, CtlType
<1>11. ASSUME Recover PROVE OnTask'
  BY <1>11 DEF Recover, OnTask, Running, Role, Finalizing, Merging, NoCtl
<1>12. ASSUME Select PROVE OnTask'
  BY <1>12 DEF Select, OnTask, Running, Role, Finalizing, Merging, NoCtl
<1>13. ASSUME Sleep PROVE OnTask'
  BY <1>13 DEF Sleep, OnTask, Running, Role, Finalizing, Merging, NoCtl
<1>14. ASSUME LabelRunning PROVE OnTask'
  BY <1>14 DEF LabelRunning, OnTask, Running, Role, Finalizing, Merging, NoCtl, TypeOK, HubType
<1>15. ASSUME SyncMain PROVE OnTask'
  BY <1>15
     DEF SyncMain, OnTask, Running, Role, Finalizing, Merging, NoCtl, OnMain, CtlType, TypeOK
<1>16. ASSUME CheckoutTask PROVE OnTask'
  BY <1>16
     DEF CheckoutTask, OnTask, Running, Role, Finalizing, Merging, NoCtl, TypeOK, RepoType,
         CtlType
<1>17. ASSUME Launch PROVE OnTask'
  BY <1>17 DEF Launch, OnTask, Running, Role, Finalizing, Merging, NoCtl
<1>18. ASSUME Spawn PROVE OnTask'
  BY <1>18 DEF Spawn, OnTask, Running, Role, Finalizing, Merging, NoCtl
<1>19. ASSUME RecordChild PROVE OnTask'
  BY <1>19 DEF RecordChild, OnTask, Running, Role, Finalizing, Merging, NoCtl
<1>20. ASSUME OpenGate PROVE OnTask'
  BY <1>20 DEF OpenGate, OnTask, Running, Role, Finalizing, Merging, NoCtl
<1>21. ASSUME Await PROVE OnTask'
  BY <1>21
     DEF Await, OnTask, Running, Role, Finalizing, Merging, NoCtl, NoChild, TypeOK, CtlType
<1>22. ASSUME Reaped PROVE OnTask'
  <2>1. pc' \in Role /\ pc \in Running
    BY <1>22 DEF Reaped, RoleFits, Running
  <2> QED BY <1>22, <2>1 DEF Reaped, OnTask
<1>23. ASSUME ImplResult PROVE OnTask'
  <2>1. ctl'.round = ctl.round \/ ctl'.round = 0
    BY <1>23 DEF ImplResult, Preserve, NoCtl, TypeOK, CtlType
  <2>2. repo' = repo \/ (repo' = OnMain /\ pc' = "handle_error")
    BY <1>23 DEF ImplResult
  <2> QED BY <1>23, <2>1, <2>2
             DEF ImplResult, Preserve, OnTask, OnMain, Running, Role, Finalizing, Merging
<1>24. ASSUME ReviewResult PROVE OnTask'
  BY <1>24 DEF ReviewResult, OnTask, Running, Role, Finalizing, Merging, NoCtl, TypeOK, CtlType
<1>25. ASSUME FixResult PROVE OnTask'
  BY <1>25
     DEF FixResult, OnTask, Running, Role, Finalizing, Merging, NoCtl, Preserve, TypeOK,
         CtlType, Preserve
<1>26. ASSUME Begin PROVE OnTask'
  BY <1>26 DEF Begin, OnTask, Running, Role, Finalizing, Merging, NoCtl, TypeOK, CtlType
<1>27. ASSUME Verify PROVE OnTask'
  BY <1>27 DEF Verify, OnTask, Running, Role, Finalizing, Merging, NoCtl
<1>28. ASSUME Gates PROVE OnTask'
  BY <1>28 DEF Gates, OnTask, Running, Role, Finalizing, Merging, NoCtl, TypeOK, RepoType
<1>29. ASSUME Verified PROVE OnTask'
  BY <1>29 DEF Verified, OnTask, Running, Role, Finalizing, Merging, NoCtl
<1>30. ASSUME Stage PROVE OnTask'
  BY <1>30 DEF Stage, OnTask, Running, Role, Finalizing, Merging, NoCtl
<1>31. ASSUME GitAdd PROVE OnTask'
  BY <1>31 DEF GitAdd, OnTask, Running, Role, Finalizing, Merging, NoCtl, TypeOK, RepoType
<1>32. ASSUME Staged PROVE OnTask'
  BY <1>32 DEF Staged, OnTask, Running, Role, Finalizing, Merging, NoCtl
<1>33. ASSUME GitCommit PROVE OnTask'
  BY <1>33 DEF GitCommit, OnTask, Running, Role, Finalizing, Merging, NoCtl, TypeOK, RepoType
<1>34. ASSUME Committed PROVE OnTask'
  BY <1>34 DEF Committed, OnTask, Running, Role, Finalizing, Merging, NoCtl
<1>35. ASSUME Push PROVE OnTask'
  BY <1>35 DEF Push, OnTask, Running, Role, Finalizing, Merging, NoCtl
<1>36. ASSUME GitPush PROVE OnTask'
  BY <1>36 DEF GitPush, OnTask, Running, Role, Finalizing, Merging, NoCtl, TypeOK, HubType
<1>37. ASSUME Pushed PROVE OnTask'
  <2>1. hub' = hub /\ repo' = repo
    BY <1>37 DEF Pushed
  <2>2. ctl' = ctl \/ ctl.round > 0
    BY <1>37 DEF Pushed, TypeOK, CtlType
  <2> QED BY <1>37, <2>1, <2>2 DEF Pushed, OnTask, Finalizing
<1>38. ASSUME OpenPr PROVE OnTask'
  BY <1>38
     DEF OpenPr, OnTask, Running, Role, Finalizing, Merging, NoCtl, TypeOK, HubType,
         FindsDraftPr
<1>39. ASSUME PrCreated PROVE OnTask'
  <2>1. hub' = hub /\ repo' = repo /\ hub.pr # "none"
    BY <1>39 DEF PrCreated, Recorded, Reached
  <2> QED BY <1>39, <2>1 DEF PrCreated, OnTask, Finalizing
<1>40. ASSUME ReviewPassed PROVE OnTask'
  BY <1>40 DEF ReviewPassed, OnTask, Running, Role, Finalizing, Merging, NoCtl
<1>41. ASSUME MergeCheck PROVE OnTask'
  BY <1>41 DEF MergeCheck, OnTask, Running, Role, Finalizing, Merging, NoCtl
<1>42. ASSUME MarkReady PROVE OnTask'
  BY <1>42 DEF MarkReady, OnTask, Running, Role, Finalizing, Merging, NoCtl, TypeOK, HubType
<1>43. ASSUME Recheck PROVE OnTask'
  BY <1>43 DEF Recheck, OnTask, Running, Role, Finalizing, Merging, NoCtl
<1>44. ASSUME Merge PROVE OnTask'
  BY <1>44 DEF Merge, OnTask, Running, Role, Finalizing, Merging, NoCtl, TypeOK, HubType
<1>45. ASSUME RecordOutcome PROVE OnTask'
  BY <1>45 DEF RecordOutcome, OnTask, Running, Role, Finalizing, Merging, NoCtl
<1>46. ASSUME Finish PROVE OnTask'
  BY <1>46 DEF Finish, OnTask, Running, Role, Finalizing, Merging, NoCtl, TypeOK, CtlType
<1>47. ASSUME Crash PROVE OnTask'
  BY <1>47 DEF Crash, OnTask, Running, Role, Finalizing, Merging, NoCtl, NoChild
<1>48. ASSUME Error PROVE OnTask'
  BY <1>48 DEF Error, OnTask, Running, Role, Finalizing, Merging, NoCtl, StopChild, NoChild
<1>49. ASSUME HandleError PROVE OnTask'
  BY <1>49 DEF HandleError, OnTask, Running, Role, Finalizing, Merging, NoCtl
<1>50. ASSUME Interrupt PROVE OnTask'
  BY <1>50
     DEF Interrupt, OnTask, Running, Role, Finalizing, Merging, NoCtl, StopChild, NoChild,
         TypeOK, CtlType
<1>51. ASSUME HandleInterrupt PROVE OnTask'
  BY <1>51 DEF HandleInterrupt, OnTask, Running, Role, Finalizing, Merging, NoCtl
<1>52. ASSUME ChildWrites PROVE OnTask'
  BY <1>52 DEF ChildWrites, OnTask, Running, Role, Finalizing, Merging, NoCtl, TypeOK, RepoType
<1>53. ASSUME OrphanEnds PROVE OnTask'
  BY <1>53 DEF OrphanEnds, OnTask, Running, Role, Finalizing, Merging, NoCtl
<1>54. ASSUME StrayEdit PROVE OnTask'
  BY <1>54 DEF StrayEdit, OnTask, Running, Role, Finalizing, Merging, NoCtl, TypeOK, RepoType
<1>55. ASSUME HandCommit PROVE OnTask'
  BY <1>55 DEF HandCommit, OnTask, Running, Role, Finalizing, Merging, NoCtl, TypeOK, RepoType
<1>56. ASSUME ForeignPush PROVE OnTask'
  BY <1>56 DEF ForeignPush, OnTask, Running, Role, Finalizing, Merging, NoCtl, TypeOK, HubType
<1>57. ASSUME CloseIssue PROVE OnTask'
  BY <1>57 DEF CloseIssue, OnTask, Running, Role, Finalizing, Merging, NoCtl, TypeOK, HubType
<1>58. ASSUME Requeue PROVE OnTask'
  BY <1>58 DEF Requeue, OnTask, Running, Role, Finalizing, Merging, NoCtl, TypeOK, HubType
<1>59. CASE UNCHANGED vars
  BY <1>59 DEF vars, OnTask, Running, Role, Finalizing, Merging, NoCtl
<1> QED BY <1>1, <1>2, <1>3, <1>4, <1>5, <1>6, <1>7, <1>8, <1>9, <1>10, <1>11, <1>12, <1>13,
           <1>14, <1>15, <1>16, <1>17, <1>18, <1>19, <1>20, <1>21, <1>22, <1>23, <1>24, <1>25,
           <1>26, <1>27, <1>28, <1>29, <1>30, <1>31, <1>32, <1>33, <1>34, <1>35, <1>36, <1>37,
           <1>38, <1>39, <1>40, <1>41, <1>42, <1>43, <1>44, <1>45, <1>46, <1>47, <1>48, <1>49,
           <1>50, <1>51, <1>52, <1>53, <1>54, <1>55, <1>56, <1>57, <1>58, <1>59
           DEF Next, Step, Startup, RunChild, Finalize, Handle, World

\* Crashes and what happens on GitHub are not these faults.
LEMMA QuietFaults ==
  ASSUME Faults \subseteq {"crash", "foreign_push", "close"}
  PROVE  ~Error /\ ~Interrupt /\ ~StrayEdit /\ ~HandCommit
  BY DEF Error, Interrupt, StrayEdit, HandCommit, Fault

\* Every action keeps what is to be committed the same as what was recorded.
LEMMA PipelineStep ==
  ASSUME Faults \subseteq {"crash", "foreign_push", "close"},
         TypeOK, RoleFits, Accounted, Pipeline, [Next]_vars
  PROVE  Pipeline'
<1>1. ASSUME NEW m \in Modes, Start(m) PROVE Pipeline'
  BY <1>1 DEF Start, Pipeline
<1>2. ASSUME Reconcile PROVE Pipeline'
  BY <1>2 DEF Reconcile, Pipeline
<1>3. ASSUME MeetOrphan PROVE Pipeline'
  BY <1>3 DEF MeetOrphan, Pipeline, NoChild
<1>4. ASSUME InspectUnprovenBranch PROVE Pipeline'
  BY <1>4 DEF InspectUnprovenBranch, Pipeline
<1>5. ASSUME InspectCommit PROVE Pipeline'
  BY <1>5 DEF InspectCommit, Pipeline, ResumeWith
<1>6. ASSUME InspectNoChanges PROVE Pipeline'
  BY <1>6 DEF InspectNoChanges, Pipeline
<1>7. ASSUME NoChanges PROVE Pipeline'
  BY <1>7 DEF NoChanges, Pipeline
<1>8. ASSUME InspectUnattributed PROVE Pipeline'
  BY <1>8 DEF InspectUnattributed, Pipeline
<1>9. ASSUME InspectRecoverable PROVE Pipeline'
  BY <1>9 DEF InspectRecoverable, Pipeline, ResumeWith
<1>10. ASSUME ConfirmRecovery PROVE Pipeline'
  BY <1>10 DEF ConfirmRecovery, Pipeline, ResumeWith
<1>11. ASSUME Recover PROVE Pipeline'
  BY <1>11 DEF Recover, Pipeline
<1>12. ASSUME Select PROVE Pipeline'
  BY <1>12 DEF Select, Pipeline
<1>13. ASSUME Sleep PROVE Pipeline'
  BY <1>13 DEF Sleep, Pipeline
<1>14. ASSUME LabelRunning PROVE Pipeline'
  BY <1>14 DEF LabelRunning, Pipeline
<1>15. ASSUME SyncMain PROVE Pipeline'
  BY <1>15 DEF SyncMain, Pipeline
<1>16. ASSUME CheckoutTask PROVE Pipeline'
  BY <1>16 DEF CheckoutTask, Pipeline
<1>17. ASSUME Launch PROVE Pipeline'
  BY <1>17 DEF Launch, Pipeline
<1>18. ASSUME Spawn PROVE Pipeline'
  BY <1>18 DEF Spawn, Pipeline
<1>19. ASSUME RecordChild PROVE Pipeline'
  BY <1>19 DEF RecordChild, Pipeline
<1>20. ASSUME OpenGate PROVE Pipeline'
  BY <1>20 DEF OpenGate, Pipeline
<1>21. ASSUME Await PROVE Pipeline'
  BY <1>21 DEF Await, Pipeline, NoChild
<1>22. ASSUME Reaped PROVE Pipeline'
  <2>1. pc' \in Role
    BY <1>22 DEF Reaped, RoleFits, Running
  <2> QED BY <2>1 DEF Pipeline, Role
<1>23. ASSUME ImplResult PROVE Pipeline'
  BY <1>23 DEF ImplResult, Pipeline, Preserve
<1>24. ASSUME ReviewResult PROVE Pipeline'
  BY <1>24 DEF ReviewResult, Pipeline
<1>25. ASSUME FixResult PROVE Pipeline'
  BY <1>25 DEF FixResult, Pipeline, Preserve
<1>26. ASSUME Begin PROVE Pipeline'
  BY <1>26 DEF Begin, Pipeline
<1>27. ASSUME Verify PROVE Pipeline'
  BY <1>27 DEF Verify, Pipeline
<1>28. ASSUME Gates PROVE Pipeline'
  BY <1>28 DEF Gates, Pipeline
<1>29. ASSUME Verified PROVE Pipeline'
  BY <1>29 DEF Verified, Pipeline
<1>30. ASSUME Stage PROVE Pipeline'
  <2>1. CASE pc' = "add"
    <3>1. WriteStatus("COMMITTING",
            [ckpt |-> "STAGING", pre |-> repo.head, subject |-> ctl.round,
             paths |-> Paths, content |-> repo.tree, base |-> repo.head])
      BY <1>30, <2>1 DEF Stage
    <3>2. st'.state = "COMMITTING" /\ st'.pre = repo.head /\ st'.subject = ctl.round
      BY <3>1 DEF TypeOK, StatusType, WriteStatus, Over
    <3> QED BY <1>30, <2>1, <3>2 DEF Stage, Pipeline
  <2>2. CASE pc' # "add"
    BY <1>30, <2>2 DEF Stage, Pipeline
  <2> QED BY <2>1, <2>2
<1>31. ASSUME GitAdd PROVE Pipeline'
  BY <1>31 DEF GitAdd, Pipeline, TypeOK, RepoType
<1>32. ASSUME Staged PROVE Pipeline'
  <2>1. /\ st'.state = "COMMITTING" /\ st'.pre = st.pre /\ st'.subject = st.subject
        /\ st'.ckpt = "STAGED" /\ st'.ptree = repo.index
    <3>1. st \in StatusType /\ repo.index \in Tree
      BY DEF TypeOK, RepoType
    <3>2. WriteStatus("COMMITTING", [ckpt |-> "STAGED", ptree |-> repo.index])
      BY <1>32 DEF Staged
    <3> QED BY <3>1, <3>2, Names, StagedWrite
  <2> QED BY <1>32, <2>1 DEF Staged, Pipeline
<1>33. ASSUME GitCommit PROVE Pipeline'
  BY <1>33 DEF GitCommit, Pipeline
<1>34. ASSUME Committed PROVE Pipeline'
  BY <1>34 DEF Committed, Pipeline
<1>35. ASSUME Push PROVE Pipeline'
  BY <1>35 DEF Push, Pipeline
<1>36. ASSUME GitPush PROVE Pipeline'
  BY <1>36 DEF GitPush, Pipeline
<1>37. ASSUME Pushed PROVE Pipeline'
  BY <1>37 DEF Pushed, Pipeline
<1>38. ASSUME OpenPr PROVE Pipeline'
  BY <1>38 DEF OpenPr, Pipeline
<1>39. ASSUME PrCreated PROVE Pipeline'
  BY <1>39 DEF PrCreated, Pipeline
<1>40. ASSUME ReviewPassed PROVE Pipeline'
  BY <1>40 DEF ReviewPassed, Pipeline
<1>41. ASSUME MergeCheck PROVE Pipeline'
  BY <1>41 DEF MergeCheck, Pipeline
<1>42. ASSUME MarkReady PROVE Pipeline'
  BY <1>42 DEF MarkReady, Pipeline
<1>43. ASSUME Recheck PROVE Pipeline'
  BY <1>43 DEF Recheck, Pipeline
<1>44. ASSUME Merge PROVE Pipeline'
  BY <1>44 DEF Merge, Pipeline
<1>45. ASSUME RecordOutcome PROVE Pipeline'
  BY <1>45 DEF RecordOutcome, Pipeline
<1>46. ASSUME Finish PROVE Pipeline'
  BY <1>46 DEF Finish, Pipeline
<1>47. ASSUME Crash PROVE Pipeline'
  BY <1>47 DEF Crash, Pipeline, NoChild
<1>48. ASSUME Error PROVE Pipeline'
  BY <1>48, QuietFaults
<1>49. ASSUME HandleError PROVE Pipeline'
  BY <1>49 DEF HandleError, Pipeline
<1>50. ASSUME Interrupt PROVE Pipeline'
  BY <1>50, QuietFaults
<1>51. ASSUME HandleInterrupt PROVE Pipeline'
  BY <1>51 DEF HandleInterrupt, Pipeline
<1>52. ASSUME ChildWrites PROVE Pipeline'
  BY <1>52 DEF ChildWrites, Pipeline, Accounted, ChildrenAccounted
<1>53. ASSUME OrphanEnds PROVE Pipeline'
  BY <1>53 DEF OrphanEnds, Pipeline
<1>54. ASSUME StrayEdit PROVE Pipeline'
  BY <1>54, QuietFaults
<1>55. ASSUME HandCommit PROVE Pipeline'
  BY <1>55, QuietFaults
<1>56. ASSUME ForeignPush PROVE Pipeline'
  BY <1>56 DEF ForeignPush, Pipeline
<1>57. ASSUME CloseIssue PROVE Pipeline'
  BY <1>57 DEF CloseIssue, Pipeline
<1>58. ASSUME Requeue PROVE Pipeline'
  BY <1>58 DEF Requeue, Pipeline
<1>59. CASE UNCHANGED vars
  BY <1>59 DEF vars, Pipeline
<1> QED BY <1>1, <1>2, <1>3, <1>4, <1>5, <1>6, <1>7, <1>8, <1>9, <1>10, <1>11, <1>12, <1>13,
           <1>14, <1>15, <1>16, <1>17, <1>18, <1>19, <1>20, <1>21, <1>22, <1>23, <1>24, <1>25,
           <1>26, <1>27, <1>28, <1>29, <1>30, <1>31, <1>32, <1>33, <1>34, <1>35, <1>36, <1>37,
           <1>38, <1>39, <1>40, <1>41, <1>42, <1>43, <1>44, <1>45, <1>46, <1>47, <1>48, <1>49,
           <1>50, <1>51, <1>52, <1>53, <1>54, <1>55, <1>56, <1>57, <1>58, <1>59
           DEF Next, Step, Startup, RunChild, Finalize, Handle, World

\* Nothing on GitHub takes a published commit back.
LEMMA PublishedStays ==
  ASSUME TypeOK, RemoteFits, [Next]_vars, repo'.head = repo.head, ~Unpublished
  PROVE  ~Unpublished'
<1>1. CASE hub'.remote = hub.remote /\ (hub.pr # "none" => hub'.pr # "none")
  BY <1>1 DEF Unpublished, Published
<1>2. CASE GitPush
  <2>1. repo.head \in Commits /\ repo.head # None
    BY NoneAssumption DEF TypeOK, RepoType, Commits
  <2>2. hub'.remote \in {hub.remote, repo.head} /\ hub'.pr = hub.pr
    BY <1>2 DEF GitPush, TypeOK, HubType
  <2> QED BY <2>1, <2>2, PrefixSelf DEF Unpublished, Published
<1>3. CASE ForeignPush
  <2> DEFINE x == [subject |-> FOREIGN, tree |-> {}]
  <2>1. x \in Commit
    BY DEF Commit, FOREIGN, Tree
  <2>2. repo.head \in Commits /\ hub.remote \in Commits
    BY <1>3 DEF ForeignPush, RemoteFits, TypeOK, RepoType, HubType
  <2>3. hub'.remote = Append(hub.remote, x) /\ hub'.pr = hub.pr
    BY <1>3 DEF ForeignPush, TypeOK, HubType
  <2>4. IsPrefix(repo.head, hub.remote) => IsPrefix(repo.head, hub'.remote)
    BY <2>1, <2>2, <2>3, PrefixAppend
  <2>5. hub'.remote # None
    <3>1. Append(hub.remote, x) \in Seq(Commit)
      <4> HIDE DEF x
      <4> QED BY <2>1, <2>2 DEF Commits
    <3> QED BY <2>3, <3>1, NoneAssumption
  <2> QED BY <1>3, <2>3, <2>4, <2>5 DEF ForeignPush, Unpublished, Published
<1>4. CASE LabelRunning \/ MarkReady \/ Merge \/ CloseIssue \/ Requeue
  BY <1>1, <1>4 DEF LabelRunning, MarkReady, Merge, CloseIssue, Requeue, TypeOK, HubType
<1>5. CASE OpenPr
  BY <1>1, <1>5 DEF OpenPr, FindsDraftPr, TypeOK, HubType
<1> QED BY <1>1, <1>2, <1>3, <1>4, <1>5, HubSteps

\* Every action keeps no commit unpublished where an ordinary task stands.
LEMMA SettledStep ==
  ASSUME Faults \subseteq {"crash", "foreign_push", "close"},
         TypeOK, RoleFits, RemoteFits, Recovering, Recorded, OnTask, Found, Settled,
         [Next]_vars
  PROVE  Settled'
<1>u. repo'.head = repo.head /\ ~Unpublished => ~Unpublished'
  BY PublishedStays
<1>k. SettledPlace /\ repo'.head = repo.head => Settled'
  BY <1>u DEF Settled
<1>n. ~SettledPlace' => Settled'
  BY DEF Settled
<1>d. Completed(st.ckpt) \in 0..3
  BY DEF Completed
<1>1. ASSUME NEW m \in Modes, Start(m) PROVE Settled'
  BY <1>1, <1>k, <1>n DEF Start, SettledPlace, Preparing, Running, Role, Merging
<1>2. ASSUME Reconcile PROVE Settled'
  <2>1. CASE pc' = "select"
    <3>1. st.state \notin ReconcileStates /\ repo' = repo
      BY <1>2, <2>1 DEF Reconcile
    <3> QED BY <1>u, <3>1 DEF Found, Settled
  <2>2. CASE pc' # "select"
    BY <1>2, <1>n, <2>2 DEF Reconcile, SettledPlace, Preparing, Running, Role, Merging
  <2> QED BY <2>1, <2>2
<1>3. ASSUME MeetOrphan PROVE Settled'
  BY <1>3, <1>k, <1>n DEF MeetOrphan, SettledPlace, Preparing, Running, Role, Merging, NoChild
<1>4. ASSUME InspectUnprovenBranch PROVE Settled'
  BY <1>4, <1>k, <1>n DEF InspectUnprovenBranch, SettledPlace, Preparing, Running, Role, Merging
<1>5. ASSUME InspectCommit PROVE Settled'
  BY <1>5, <1>k, <1>n
     DEF InspectCommit, SettledPlace, Preparing, Running, Role, Merging, ResumeWith, ResumeWith
<1>6. ASSUME InspectNoChanges PROVE Settled'
  <2>1. ~Unpublished /\ repo' = repo
    BY <1>6, <1>d DEF InspectNoChanges, Found, InWindow, InterruptedCommit
  <2> QED BY <1>u, <2>1 DEF Settled
<1>7. ASSUME NoChanges PROVE Settled'
  BY <1>7, <1>k, <1>n DEF NoChanges, SettledPlace, Preparing, Running, Role, Merging
<1>8. ASSUME InspectUnattributed PROVE Settled'
  BY <1>8, <1>k, <1>n DEF InspectUnattributed, SettledPlace, Preparing, Running, Role, Merging
<1>9. ASSUME InspectRecoverable PROVE Settled'
  BY <1>9, <1>k, <1>n
     DEF InspectRecoverable, SettledPlace, Preparing, Running, Role, Merging, ResumeWith,
         ResumeWith
<1>10. ASSUME ConfirmRecovery PROVE Settled'
  BY <1>10, <1>k, <1>n
     DEF ConfirmRecovery, SettledPlace, Preparing, Running, Role, Merging, ResumeWith,
         ResumeWith
<1>11. ASSUME Recover PROVE Settled'
  <2>1. ctl.rec /\ ctl.round = 0 /\ pc' \in {"begin", "down"} /\ (pc' = "begin" => ctl' = ctl)
    BY <1>11 DEF Recover, Recovering, OutsideSteps
  <2> QED BY <1>n, <2>1 DEF SettledPlace, Preparing, Running, Role, Merging
<1>12. ASSUME Select PROVE Settled'
  BY <1>12, <1>k, <1>n DEF Select, SettledPlace, Preparing, Running, Role, Merging
<1>13. ASSUME Sleep PROVE Settled'
  BY <1>13, <1>k, <1>n DEF Sleep, SettledPlace, Preparing, Running, Role, Merging
<1>14. ASSUME LabelRunning PROVE Settled'
  BY <1>14, <1>k, <1>n DEF LabelRunning, SettledPlace, Preparing, Running, Role, Merging
<1>15. ASSUME SyncMain PROVE Settled'
  <2>1. repo'.head = << >>
    BY <1>15 DEF SyncMain, OnMain
  <2> QED BY <2>1 DEF Settled, Unpublished
<1>16. ASSUME CheckoutTask PROVE Settled'
  <2>1. repo'.head = repo.head
    BY <1>16 DEF CheckoutTask, TypeOK, RepoType
  <2>2. SettledPlace' => SettledPlace
    BY <1>16 DEF CheckoutTask, SettledPlace, Preparing, Running, Role, Merging
  <2> QED BY <1>k, <1>n, <2>1, <2>2
<1>17. ASSUME Launch PROVE Settled'
  BY <1>17, <1>k, <1>n DEF Launch, SettledPlace, Preparing, Running, Role, Merging
<1>18. ASSUME Spawn PROVE Settled'
  BY <1>18, <1>k, <1>n DEF Spawn, SettledPlace, Preparing, Running, Role, Merging
<1>19. ASSUME RecordChild PROVE Settled'
  BY <1>19, <1>k, <1>n DEF RecordChild, SettledPlace, Preparing, Running, Role, Merging
<1>20. ASSUME OpenGate PROVE Settled'
  BY <1>20, <1>k, <1>n DEF OpenGate, SettledPlace, Preparing, Running, Role, Merging
<1>21. ASSUME Await PROVE Settled'
  BY <1>21, <1>k, <1>n DEF Await, SettledPlace, Preparing, Running, Role, Merging, NoChild
<1>22. ASSUME Reaped PROVE Settled'
  <2>1. SettledPlace /\ repo' = repo
    BY <1>22 DEF Reaped, SettledPlace, Running
  <2> QED BY <1>k, <2>1
<1>23. ASSUME ImplResult PROVE Settled'
  <2>1. SettledPlace /\ (repo' = repo \/ repo' = OnMain)
    BY <1>23 DEF ImplResult, SettledPlace, Role
  <2>2. CASE repo' = OnMain
    BY <2>2 DEF OnMain, Settled, Unpublished
  <2> QED BY <1>k, <2>1, <2>2
<1>24. ASSUME ReviewResult PROVE Settled'
  BY <1>24, <1>k, <1>n DEF ReviewResult, SettledPlace, Preparing, Running, Role, Merging
<1>25. ASSUME FixResult PROVE Settled'
  <2>1. SettledPlace /\ repo' = repo
    BY <1>25 DEF FixResult, SettledPlace, Role
  <2> QED BY <1>k, <2>1
<1>26. ASSUME Begin PROVE Settled'
  <2>1. repo' = repo /\ (SettledPlace' => SettledPlace \/ ~Unpublished)
    <3>1. CASE pc' = "handle_error"
      BY <1>26, <3>1 DEF Begin, SettledPlace, Preparing, Running, Role, Merging
    <3>2. CASE pc' = "verify" /\ ctl.rec
      <4>1. ctl' = [ctl EXCEPT !.done = Completed(st.ckpt)] /\ repo' = repo
        BY <1>26, <3>2 DEF Begin
      <4>2. ctl'.rec /\ ctl'.round = 0 /\ ctl'.done = Completed(st.ckpt)
        BY <1>26, <3>2, <4>1 DEF Begin, Recovering, TypeOK, CtlType
      <4>3. SettledPlace' => Completed(st.ckpt) = 0
        BY <3>2, <4>2 DEF SettledPlace, Preparing, Running, Role, Merging
      <4>4. ~InWindow
        BY <1>26 DEF Begin, InWindow
      <4> QED BY <1>d, <4>1, <4>3, <4>4 DEF Found
    <3>3. CASE ~ctl.rec
      BY <1>26, <3>3 DEF Begin, SettledPlace
    <3> QED BY <1>26, <3>1, <3>2, <3>3 DEF Begin
  <2> QED BY <1>k, <1>n, <1>u, <2>1 DEF Settled
<1>27. ASSUME Verify PROVE Settled'
  BY <1>27, <1>k, <1>n DEF Verify, SettledPlace, Preparing, Running, Role, Merging
<1>28. ASSUME Gates PROVE Settled'
  <2>1. repo'.head = repo.head
    BY <1>28 DEF Gates, TypeOK, RepoType
  <2>2. SettledPlace' => SettledPlace
    BY <1>28 DEF Gates, SettledPlace, Preparing, Running, Role, Merging
  <2> QED BY <1>k, <1>n, <2>1, <2>2
<1>29. ASSUME Verified PROVE Settled'
  <2>1. SettledPlace' => SettledPlace
    BY <1>29 DEF Verified, SettledPlace, Preparing, Running, Role, Merging
  <2>2. repo' = repo
    BY <1>29 DEF Verified
  <2> QED BY <1>k, <1>n, <2>1, <2>2
<1>30. ASSUME Stage PROVE Settled'
  BY <1>30, <1>k, <1>n DEF Stage, SettledPlace, Preparing, Running, Role, Merging
<1>31. ASSUME GitAdd PROVE Settled'
  <2>1. repo'.head = repo.head
    BY <1>31 DEF GitAdd, TypeOK, RepoType
  <2>2. SettledPlace' => SettledPlace
    BY <1>31 DEF GitAdd, SettledPlace, Preparing, Running, Role, Merging
  <2> QED BY <1>k, <1>n, <2>1, <2>2
<1>32. ASSUME Staged PROVE Settled'
  BY <1>32, <1>k, <1>n DEF Staged, SettledPlace, Preparing, Running, Role, Merging
<1>33. ASSUME GitCommit PROVE Settled'
  BY <1>33, <1>k, <1>n DEF GitCommit, SettledPlace, Preparing, Running, Role, Merging
<1>34. ASSUME Committed PROVE Settled'
  BY <1>34, <1>k, <1>n DEF Committed, SettledPlace, Preparing, Running, Role, Merging
<1>35. ASSUME Push PROVE Settled'
  BY <1>35, <1>k, <1>n DEF Push, SettledPlace, Preparing, Running, Role, Merging
<1>36. ASSUME GitPush PROVE Settled'
  BY <1>36, <1>k, <1>n DEF GitPush, SettledPlace, Preparing, Running, Role, Merging
<1>37. ASSUME Pushed PROVE Settled'
  <2>1. CASE pc' = "launch"
    <3>1. ctl.round > 0 /\ repo' = repo
      BY <1>37, <2>1 DEF Pushed, TypeOK, CtlType
    <3>2. ~Unpublished
      BY <1>37, <3>1 DEF Pushed, Unpublished, Published, Recorded, Reached, Pushes, OnTask
    <3> QED BY <1>u, <3>1, <3>2 DEF Settled
  <2>2. CASE pc' # "launch"
    BY <1>37, <1>n, <2>2 DEF Pushed, SettledPlace, Preparing, Running, Role, Merging
  <2> QED BY <2>1, <2>2
<1>38. ASSUME OpenPr PROVE Settled'
  BY <1>38, <1>k, <1>n DEF OpenPr, SettledPlace, Preparing, Running, Role, Merging
<1>39. ASSUME PrCreated PROVE Settled'
  <2>1. ~Unpublished /\ repo' = repo
    BY <1>39 DEF PrCreated, Unpublished, Published, Recorded, Reached, Pushes
  <2> QED BY <1>u, <2>1 DEF Settled
<1>40. ASSUME ReviewPassed PROVE Settled'
  BY <1>40, <1>k, <1>n DEF ReviewPassed, SettledPlace, Preparing, Running, Role, Merging
<1>41. ASSUME MergeCheck PROVE Settled'
  BY <1>41, <1>k, <1>n DEF MergeCheck, SettledPlace, Preparing, Running, Role, Merging
<1>42. ASSUME MarkReady PROVE Settled'
  BY <1>42, <1>k, <1>n DEF MarkReady, SettledPlace, Preparing, Running, Role, Merging
<1>43. ASSUME Recheck PROVE Settled'
  BY <1>43, <1>k, <1>n DEF Recheck, SettledPlace, Preparing, Running, Role, Merging
<1>44. ASSUME Merge PROVE Settled'
  BY <1>44, <1>k, <1>n DEF Merge, SettledPlace, Preparing, Running, Role, Merging
<1>45. ASSUME RecordOutcome PROVE Settled'
  BY <1>45, <1>k, <1>n DEF RecordOutcome, SettledPlace, Preparing, Running, Role, Merging
<1>46. ASSUME Finish PROVE Settled'
  BY <1>46, <1>k, <1>n DEF Finish, SettledPlace, Preparing, Running, Role, Merging
<1>47. ASSUME Crash PROVE Settled'
  BY <1>47, <1>k, <1>n DEF Crash, SettledPlace, Preparing, Running, Role, Merging, NoChild
<1>48. ASSUME Error PROVE Settled'
  BY <1>48, QuietFaults
<1>49. ASSUME HandleError PROVE Settled'
  BY <1>49, <1>k, <1>n DEF HandleError, SettledPlace, Preparing, Running, Role, Merging
<1>50. ASSUME Interrupt PROVE Settled'
  BY <1>50, QuietFaults
<1>51. ASSUME HandleInterrupt PROVE Settled'
  BY <1>51, <1>k, <1>n DEF HandleInterrupt, SettledPlace, Preparing, Running, Role, Merging
<1>52. ASSUME ChildWrites PROVE Settled'
  <2>1. repo'.head = repo.head
    BY <1>52 DEF ChildWrites, TypeOK, RepoType
  <2>2. SettledPlace' => SettledPlace
    BY <1>52 DEF ChildWrites, SettledPlace, Preparing, Running, Role, Merging
  <2> QED BY <1>k, <1>n, <2>1, <2>2
<1>53. ASSUME OrphanEnds PROVE Settled'
  BY <1>53, <1>k, <1>n DEF OrphanEnds, SettledPlace, Preparing, Running, Role, Merging
<1>54. ASSUME StrayEdit PROVE Settled'
  BY <1>54, QuietFaults
<1>55. ASSUME HandCommit PROVE Settled'
  BY <1>55, QuietFaults
<1>56. ASSUME ForeignPush PROVE Settled'
  BY <1>56, <1>k, <1>n DEF ForeignPush, SettledPlace, Preparing, Running, Role, Merging
<1>57. ASSUME CloseIssue PROVE Settled'
  BY <1>57, <1>k, <1>n DEF CloseIssue, SettledPlace, Preparing, Running, Role, Merging
<1>58. ASSUME Requeue PROVE Settled'
  BY <1>58, <1>k, <1>n DEF Requeue, SettledPlace, Preparing, Running, Role, Merging
<1>59. CASE UNCHANGED vars
  BY <1>59, <1>k, <1>n DEF vars, SettledPlace, Preparing, Running, Role, Merging
<1> QED BY <1>1, <1>2, <1>3, <1>4, <1>5, <1>6, <1>7, <1>8, <1>9, <1>10, <1>11, <1>12, <1>13,
           <1>14, <1>15, <1>16, <1>17, <1>18, <1>19, <1>20, <1>21, <1>22, <1>23, <1>24, <1>25,
           <1>26, <1>27, <1>28, <1>29, <1>30, <1>31, <1>32, <1>33, <1>34, <1>35, <1>36, <1>37,
           <1>38, <1>39, <1>40, <1>41, <1>42, <1>43, <1>44, <1>45, <1>46, <1>47, <1>48, <1>49,
           <1>50, <1>51, <1>52, <1>53, <1>54, <1>55, <1>56, <1>57, <1>58, <1>59
           DEF Next, Step, Startup, RunChild, Finalize, Handle, World

\* A commit's parent is what the branch was.
LEMMA FrontAppended ==
  ASSUME NEW c \in Commits, NEW x \in Commit
  PROVE  Front(Append(c, x)) = c
<1> DEFINE d == Append(c, x)
<1>1. d \in Commits /\ d # << >> /\ Last(d) = x
  BY LastAppended DEF Commits
<1> HIDE DEF d
<1>2. Front(d) \in Commits /\ d = Append(Front(d), x)
  BY <1>1, FrontLast
<1>3. \A a, b \in Commits : Append(a, x) = Append(b, x) => a = b
  <2> SUFFICES ASSUME NEW a \in Commits, NEW b \in Commits, Append(a, x) = Append(b, x)
               PROVE  a = b
    OBVIOUS
  <2>1. /\ Len(a) \in Nat /\ Len(b) \in Nat
        /\ Len(Append(a, x)) = Len(a) + 1 /\ Len(Append(b, x)) = Len(b) + 1
        /\ \A i \in 1..Len(a) : Append(a, x)[i] = a[i]
        /\ \A i \in 1..Len(b) : Append(b, x)[i] = b[i]
    BY AppendProperties DEF Commits
  <2>2. Len(a) = Len(b) /\ \A i \in 1..Len(a) : a[i] = b[i]
    BY <2>1
  <2> QED BY <2>2, SeqEqual DEF Commits
<1> QED BY <1>2, <1>3 DEF d

\* Every action keeps the status file leading to unpublished commits.
LEMMA FoundStep ==
  ASSUME Faults \subseteq {"crash", "foreign_push", "close"},
         TypeOK, RoleFits, RemoteFits, Accounted, OnTask, Pipeline, Found, Settled,
         Resumable, [Next]_vars
  PROVE  Found'
<1>u. repo'.head = repo.head /\ ~Unpublished => Found'
  BY PublishedStays DEF Found
<1>z. SettledPlace /\ repo'.head = repo.head => Found'
  BY <1>u DEF Settled
<1>w. st' = st /\ repo' = repo /\ (InWindow => pc' \in {"committed", "down", "reconcile", "inspect"})
        => Found'
  <2> SUFFICES ASSUME st' = st, repo' = repo, Unpublished,
                      InWindow => pc' \in {"committed", "down", "reconcile", "inspect"}
               PROVE  Found'
    BY <1>u
  <2>1. InWindow => InWindow'
    BY DEF InWindow, ProvenCommit, Dirty, HeadTree
  <2> QED BY <2>1 DEF Found
<1>x. /\ repo'.head = repo.head /\ ~InWindow /\ st'.ckpt = st.ckpt
      /\ st'.state \in ReconcileStates \cup {st.state}
      => Found'
  BY <1>u DEF Found
<1>d. /\ Completed("COMMITTED") = 1 /\ Completed("PUSHED") = 2 /\ Completed("PR_CREATED") = 3
  BY DEF Completed
<1>c. st'.state \in ReconcileStates /\ st'.ckpt \in {"COMMITTED", "PUSHED", "PR_CREATED"} => Found'
  BY <1>d DEF Found
<1>t. st \in StatusType /\ repo.head \in Commits
  BY DEF TypeOK, RepoType
<1>v. \A s \in ReconcileStates : ~InWindow /\ WriteStatus(s, Nothing) /\ repo'.head = repo.head => Found'
  <2>1. ReconcileStates \subseteq States
    BY DEF ReconcileStates
  <2> QED BY <1>t, <1>x, <2>1, PlainWrite
<1>1. ASSUME NEW m \in Modes, Start(m) PROVE Found'
  <2>1. st' = st /\ repo' = repo /\ (InWindow => pc' = "reconcile")
    BY <1>1 DEF Start, InWindow
  <2> QED BY <1>w, <2>1
<1>2. ASSUME Reconcile PROVE Found'
  <2>1. CASE st.state \notin ReconcileStates
    BY <1>2, <1>u, <2>1 DEF Reconcile, Found
  <2>2. CASE st.state \in ReconcileStates
    BY <1>2, <1>w, <2>2 DEF Reconcile
  <2> QED BY <2>1, <2>2
<1>3. ASSUME MeetOrphan PROVE Found'
  <2>1. repo' = repo /\ ~InWindow
    BY <1>3 DEF MeetOrphan, InWindow, ChildStates
  <2>2. CASE Block
    <3>1. st'.ckpt = st.ckpt /\ st'.state = "RECOVERY_BLOCKED"
      BY <1>t, <2>2, PidWrite DEF Block, StatusType, States
    <3> QED BY <1>x, <2>1, <3>1 DEF ReconcileStates, States
  <2>3. CASE UNCHANGED st
    BY <1>w, <2>1, <2>3
  <2> QED BY <1>3, <2>2, <2>3 DEF MeetOrphan
<1>4. ASSUME InspectUnprovenBranch PROVE Found'
  <2>1. repo' = repo /\ ~InWindow
    BY <1>4
       DEF InspectUnprovenBranch, InWindow, ProvenCommit, BranchAndBaseProven, Proven,
           ChildStates, OnTask
  <2>2. st'.ckpt = st.ckpt /\ st'.state = "RECOVERY_BLOCKED"
    BY <1>4, <1>t, PidWrite DEF InspectUnprovenBranch, Block, StatusType, States
  <2> QED BY <1>x, <2>1, <2>2 DEF ReconcileStates, States
<1>5. ASSUME InspectCommit PROVE Found'
  <2>1. CASE ProvenCommit
    <3>1. st'.ckpt = "COMMITTED" /\ st'.state = "RECOVERABLE_CHANGES"
      BY <1>5, <1>t, <2>1, Names, CommitWrite DEF InspectCommit, ResumeWith
    <3> QED BY <1>c, <3>1 DEF ReconcileStates, States
  <2>2. CASE ~ProvenCommit
    BY <1>5, <1>w, <2>2 DEF InspectCommit, InWindow
  <2> QED BY <2>1, <2>2
<1>6. ASSUME InspectNoChanges PROVE Found'
  <2>1. ~Unpublished /\ repo' = repo
    <3>1. Completed(st.ckpt) \in 0..3
      BY DEF Completed
    <3> QED BY <1>6, <3>1 DEF InspectNoChanges, Found, InWindow, InterruptedCommit
  <2> QED BY <1>u, <2>1
<1>7. ASSUME NoChanges PROVE Found'
  <2>1. SettledPlace /\ repo'.head = repo.head
    BY <1>7 DEF NoChanges, SettledPlace, Preparing, Running, Role, Merging
  <2> QED BY <1>z, <2>1
<1>8. ASSUME InspectUnattributed PROVE Found'
  <2>1. repo' = repo /\ ~InWindow
    BY <1>8 DEF InspectUnattributed, InWindow
  <2>2. st'.ckpt = st.ckpt /\ st'.state = "RECOVERY_CONFIRMATION_REQUIRED"
    BY <1>8, <1>t, PidWrite DEF InspectUnattributed, Proven, States
  <2> QED BY <1>x, <2>1, <2>2 DEF ReconcileStates, States
<1>9. ASSUME InspectRecoverable PROVE Found'
  <2>1. repo' = repo /\ ~InWindow
    BY <1>9 DEF InspectRecoverable, InWindow, InterruptedCommit
  <2> QED BY <1>9, <1>v, <2>1 DEF InspectRecoverable, ResumeWith, ReconcileStates, States
<1>10. ASSUME ConfirmRecovery PROVE Found'
  <2>1. repo' = repo /\ ~InWindow
    BY <1>10 DEF ConfirmRecovery, InWindow
  <2>2. CASE WriteStatus("RECOVERABLE_CHANGES", Scope)
    <3>1. st'.ckpt = st.ckpt /\ st'.state = "RECOVERABLE_CHANGES"
      BY <1>t, <2>2, ScopeType, ScopeWrite DEF States
    <3> QED BY <1>x, <2>1, <3>1 DEF ReconcileStates, States
  <2>3. CASE UNCHANGED st
    BY <1>w, <2>1, <2>3
  <2> QED BY <1>10, <2>2, <2>3 DEF ConfirmRecovery, ResumeWith
<1>11. ASSUME Recover PROVE Found'
  BY <1>11, <1>w DEF Recover, InWindow
<1>12. ASSUME Select PROVE Found'
  <2>1. SettledPlace /\ repo'.head = repo.head
    BY <1>12 DEF Select, SettledPlace, Preparing, Running, Role, Merging
  <2> QED BY <1>z, <2>1
<1>13. ASSUME Sleep PROVE Found'
  BY <1>13, <1>w DEF Sleep, InWindow
<1>14. ASSUME LabelRunning PROVE Found'
  <2>1. SettledPlace /\ repo'.head = repo.head
    BY <1>14 DEF LabelRunning, SettledPlace, Preparing, Running, Role, Merging
  <2> QED BY <1>z, <2>1
<1>15. ASSUME SyncMain PROVE Found'
  <2>1. repo'.head = << >>
    BY <1>15 DEF SyncMain, OnMain
  <2> QED BY <2>1 DEF Found, Unpublished
<1>16. ASSUME CheckoutTask PROVE Found'
  <2>1. SettledPlace /\ repo'.head = repo.head
    BY <1>16 DEF CheckoutTask, SettledPlace, Preparing, Running, Role, Merging, TypeOK, RepoType
  <2> QED BY <1>z, <2>1
<1>17. ASSUME Launch PROVE Found'
  <2>1. SettledPlace /\ repo'.head = repo.head
    BY <1>17 DEF Launch, SettledPlace, Preparing, Running, Role, Merging
  <2> QED BY <1>z, <2>1
<1>18. ASSUME Spawn PROVE Found'
  <2>1. SettledPlace /\ repo'.head = repo.head
    BY <1>18 DEF Spawn, SettledPlace, Preparing, Running, Role, Merging
  <2> QED BY <1>z, <2>1
<1>19. ASSUME RecordChild PROVE Found'
  <2>1. SettledPlace /\ repo'.head = repo.head
    BY <1>19 DEF RecordChild, SettledPlace, Preparing, Running, Role, Merging
  <2> QED BY <1>z, <2>1
<1>20. ASSUME OpenGate PROVE Found'
  <2>1. SettledPlace /\ repo'.head = repo.head
    BY <1>20 DEF OpenGate, SettledPlace, Preparing, Running, Role, Merging
  <2> QED BY <1>z, <2>1
<1>21. ASSUME Await PROVE Found'
  <2>1. SettledPlace /\ repo'.head = repo.head
    BY <1>21 DEF Await, SettledPlace, Preparing, Running, Role, Merging
  <2> QED BY <1>z, <2>1
<1>22. ASSUME Reaped PROVE Found'
  <2>1. SettledPlace /\ repo'.head = repo.head
    BY <1>22 DEF Reaped, SettledPlace, Preparing, Running, Role, Merging
  <2> QED BY <1>z, <2>1
<1>23. ASSUME ImplResult PROVE Found'
  <2>1. SettledPlace /\ (repo' = repo \/ repo' = OnMain)
    BY <1>23 DEF ImplResult, SettledPlace, Role
  <2>2. CASE repo' = OnMain
    BY <2>2 DEF OnMain, Found, Unpublished
  <2> QED BY <1>z, <2>1, <2>2
<1>24. ASSUME ReviewResult PROVE Found'
  <2>1. SettledPlace /\ repo'.head = repo.head
    BY <1>24 DEF ReviewResult, SettledPlace, Preparing, Running, Role, Merging
  <2> QED BY <1>z, <2>1
<1>25. ASSUME FixResult PROVE Found'
  <2>1. SettledPlace /\ repo'.head = repo.head
    BY <1>25 DEF FixResult, SettledPlace, Preparing, Running, Role, Merging
  <2> QED BY <1>z, <2>1
<1>26. ASSUME Begin PROVE Found'
  BY <1>26, <1>w DEF Begin, InWindow
<1>27. ASSUME Verify PROVE Found'
  <2>1. repo' = repo /\ ~InWindow
    BY <1>27 DEF Verify, InWindow
  <2> QED BY <1>27, <1>v, <2>1 DEF Verify, ReconcileStates, States
<1>28. ASSUME Gates PROVE Found'
  <2>1. repo'.head = repo.head /\ ~InWindow /\ st' = st
    BY <1>28 DEF Gates, InWindow, TypeOK, RepoType
  <2> QED BY <1>x, <2>1
<1>29. ASSUME Verified PROVE Found'
  BY <1>29, <1>w DEF Verified, InWindow
<1>30. ASSUME Stage PROVE Found'
  <2>1. SettledPlace /\ repo'.head = repo.head
    BY <1>30 DEF Stage, SettledPlace, Preparing, Running, Role, Merging
  <2> QED BY <1>z, <2>1
<1>31. ASSUME GitAdd PROVE Found'
  <2>1. SettledPlace /\ repo'.head = repo.head
    BY <1>31 DEF GitAdd, SettledPlace, Preparing, Running, Role, Merging, TypeOK, RepoType
  <2> QED BY <1>z, <2>1
<1>32. ASSUME Staged PROVE Found'
  <2>1. SettledPlace /\ repo'.head = repo.head
    BY <1>32 DEF Staged, SettledPlace, Preparing, Running, Role, Merging
  <2> QED BY <1>z, <2>1
<1>33. ASSUME GitCommit PROVE Found'
  <2> DEFINE x == [subject |-> ctl.round, tree |-> repo.index]
  <2>1. x \in Commit
    BY DEF TypeOK, CtlType, RepoType, Commit
  <2>2. /\ repo'.head = Append(repo.head, x) /\ repo'.index = repo.index /\ repo'.tree = repo.tree
        /\ st' = st /\ pc' = "committed"
    BY <1>33 DEF GitCommit, TypeOK, RepoType
  <2>3. repo'.head # << >> /\ Front(repo'.head) = repo.head /\ Last(repo'.head) = x
    BY <1>t, <2>1, <2>2, LastAppended, FrontAppended
  <2>4. /\ st.state = "COMMITTING" /\ st.pre = repo.head /\ st.subject = ctl.round
        /\ repo.index = repo.tree /\ st.ckpt = "STAGED" /\ st.ptree = repo.index
    BY <1>33 DEF GitCommit, Pipeline
  <2>5. InWindow'
    BY <2>2, <2>3, <2>4 DEF InWindow, ProvenCommit, Dirty, HeadTree
  <2> QED BY <2>2, <2>4, <2>5 DEF Found, ReconcileStates, States
<1>34. ASSUME Committed PROVE Found'
  <2>1. st'.ckpt = "COMMITTED" /\ st'.state = "COMMITTED"
    BY <1>34, <1>t, Names, CommitWrite DEF Committed
  <2> QED BY <1>c, <2>1 DEF ReconcileStates, States
<1>35. ASSUME Push PROVE Found'
  <2>1. repo' = repo /\ ~InWindow
    BY <1>35 DEF Push, InWindow
  <2> QED BY <1>35, <1>v, <2>1 DEF Push, ReconcileStates, States
<1>36. ASSUME GitPush PROVE Found'
  BY <1>36, <1>w DEF GitPush, InWindow
<1>37. ASSUME Pushed PROVE Found'
  <2>1. st'.ckpt = "PUSHED" /\ st'.state = "PUSHED"
    <3>1. WriteStatus("PUSHED", [ckpt |-> "PUSHED", commit |-> repo.head])
      BY <1>37 DEF Pushed
    <3> QED BY <1>t, <3>1, Names, CommitWrite
  <2> QED BY <1>c, <2>1 DEF ReconcileStates, States
<1>38. ASSUME OpenPr PROVE Found'
  BY <1>38, <1>w DEF OpenPr, InWindow
<1>39. ASSUME PrCreated PROVE Found'
  <2>1. st'.ckpt = "PR_CREATED" /\ st'.state = "PR_CREATED"
    BY <1>39, <1>t, PrCreatedWrite DEF PrCreated, States, Checkpoint, Checkpoints
  <2> QED BY <1>c, <2>1 DEF ReconcileStates, States
<1>40. ASSUME ReviewPassed PROVE Found'
  <2>1. SettledPlace /\ repo'.head = repo.head
    BY <1>40 DEF ReviewPassed, SettledPlace, Preparing, Running, Role, Merging
  <2> QED BY <1>z, <2>1
<1>41. ASSUME MergeCheck PROVE Found'
  <2>1. SettledPlace /\ repo'.head = repo.head
    BY <1>41 DEF MergeCheck, SettledPlace, Preparing, Running, Role, Merging
  <2> QED BY <1>z, <2>1
<1>42. ASSUME MarkReady PROVE Found'
  <2>1. SettledPlace /\ repo'.head = repo.head
    BY <1>42 DEF MarkReady, SettledPlace, Preparing, Running, Role, Merging
  <2> QED BY <1>z, <2>1
<1>43. ASSUME Recheck PROVE Found'
  <2>1. SettledPlace /\ repo'.head = repo.head
    BY <1>43 DEF Recheck, SettledPlace, Preparing, Running, Role, Merging
  <2> QED BY <1>z, <2>1
<1>44. ASSUME Merge PROVE Found'
  <2>1. SettledPlace /\ repo'.head = repo.head
    BY <1>44 DEF Merge, SettledPlace, Preparing, Running, Role, Merging
  <2> QED BY <1>z, <2>1
<1>45. ASSUME RecordOutcome PROVE Found'
  <2>1. SettledPlace /\ repo'.head = repo.head
    BY <1>45 DEF RecordOutcome, SettledPlace, Preparing, Running, Role, Merging
  <2> QED BY <1>z, <2>1
<1>46. ASSUME Finish PROVE Found'
  <2>1. SettledPlace /\ repo'.head = repo.head
    BY <1>46 DEF Finish, SettledPlace, Preparing, Running, Role, Merging
  <2> QED BY <1>z, <2>1
<1>47. ASSUME Crash PROVE Found'
  BY <1>47, <1>w DEF Crash, InWindow
<1>48. ASSUME Error PROVE Found'
  BY <1>48, QuietFaults
<1>49. ASSUME HandleError PROVE Found'
  <2>1. repo' = repo /\ ~InWindow
    BY <1>49 DEF HandleError, InWindow
  <2>2. CASE ~Unpublished
    BY <1>u, <2>1, <2>2
  <2>3. CASE Unpublished
    <3>1. WriteStatus("RECOVERABLE_CHANGES", Nothing)
      BY <1>49, <2>1, <2>3 DEF HandleError, Found, Resumable
    <3> QED BY <1>v, <2>1, <3>1 DEF ReconcileStates, States
  <2> QED BY <2>2, <2>3
<1>50. ASSUME Interrupt PROVE Found'
  BY <1>50, QuietFaults
<1>51. ASSUME HandleInterrupt PROVE Found'
  BY <1>51 DEF HandleInterrupt, Resumable
<1>52. ASSUME ChildWrites PROVE Found'
  <2>1. repo'.head = repo.head /\ ~InWindow /\ st' = st
    BY <1>52
       DEF ChildWrites, InWindow, TypeOK, RepoType, Accounted, ChildrenAccounted, ChildStates
  <2> QED BY <1>x, <2>1
<1>53. ASSUME OrphanEnds PROVE Found'
  BY <1>53, <1>w DEF OrphanEnds, InWindow
<1>54. ASSUME StrayEdit PROVE Found'
  BY <1>54, QuietFaults
<1>55. ASSUME HandCommit PROVE Found'
  BY <1>55, QuietFaults
<1>56. ASSUME ForeignPush PROVE Found'
  BY <1>56, <1>w DEF ForeignPush, InWindow
<1>57. ASSUME CloseIssue PROVE Found'
  BY <1>57, <1>w DEF CloseIssue, InWindow
<1>58. ASSUME Requeue PROVE Found'
  BY <1>58, <1>w DEF Requeue, InWindow
<1>59. CASE UNCHANGED vars
  BY <1>59, <1>w DEF vars, InWindow
<1> QED BY <1>1, <1>2, <1>3, <1>4, <1>5, <1>6, <1>7, <1>8, <1>9, <1>10, <1>11, <1>12, <1>13,
           <1>14, <1>15, <1>16, <1>17, <1>18, <1>19, <1>20, <1>21, <1>22, <1>23, <1>24, <1>25,
           <1>26, <1>27, <1>28, <1>29, <1>30, <1>31, <1>32, <1>33, <1>34, <1>35, <1>36, <1>37,
           <1>38, <1>39, <1>40, <1>41, <1>42, <1>43, <1>44, <1>45, <1>46, <1>47, <1>48, <1>49,
           <1>50, <1>51, <1>52, <1>53, <1>54, <1>55, <1>56, <1>57, <1>58, <1>59
           DEF Next, Step, Startup, RunChild, Finalize, Handle, World

\* Every action keeps errors on the way to the pull request resumable.
LEMMA ResumableStep ==
  ASSUME Faults \subseteq {"crash", "foreign_push", "close"},
         TypeOK, RoleFits, RemoteFits, Pipeline, Settled, Resumable, [Next]_vars
  PROVE  Resumable'
<1>q. ~HandleInterrupt
  BY DEF HandleInterrupt, Resumable
<1>u. repo'.head = repo.head /\ ~Unpublished => ~Unpublished'
  BY PublishedStays
<1>z. SettledPlace => ~Unpublished
  BY DEF Settled
<1>1. ASSUME NEW m \in Modes, Start(m) PROVE Resumable'
  BY <1>1 DEF Start, Resumable
<1>2. ASSUME Reconcile PROVE Resumable'
  BY <1>2 DEF Reconcile, Resumable
<1>3. ASSUME MeetOrphan PROVE Resumable'
  BY <1>3 DEF MeetOrphan, Resumable, NoChild
<1>4. ASSUME InspectUnprovenBranch PROVE Resumable'
  BY <1>4 DEF InspectUnprovenBranch, Resumable
<1>5. ASSUME InspectCommit PROVE Resumable'
  BY <1>5 DEF InspectCommit, Resumable, ResumeWith, ResumeWith
<1>6. ASSUME InspectNoChanges PROVE Resumable'
  BY <1>6 DEF InspectNoChanges, Resumable
<1>7. ASSUME NoChanges PROVE Resumable'
  BY <1>7 DEF NoChanges, Resumable
<1>8. ASSUME InspectUnattributed PROVE Resumable'
  BY <1>8 DEF InspectUnattributed, Resumable
<1>9. ASSUME InspectRecoverable PROVE Resumable'
  BY <1>9 DEF InspectRecoverable, Resumable, ResumeWith, ResumeWith
<1>10. ASSUME ConfirmRecovery PROVE Resumable'
  BY <1>10 DEF ConfirmRecovery, Resumable, ResumeWith, ResumeWith
<1>11. ASSUME Recover PROVE Resumable'
  BY <1>11 DEF Recover, Resumable
<1>12. ASSUME Select PROVE Resumable'
  BY <1>12 DEF Select, Resumable
<1>13. ASSUME Sleep PROVE Resumable'
  BY <1>13 DEF Sleep, Resumable
<1>14. ASSUME LabelRunning PROVE Resumable'
  BY <1>14 DEF LabelRunning, Resumable
<1>15. ASSUME SyncMain PROVE Resumable'
  <2>1. ~Unpublished' /\ pc' \in {"handle_error", "branch"}
    BY <1>15 DEF SyncMain, OnMain, Unpublished
  <2> QED BY <2>1 DEF Resumable
<1>16. ASSUME CheckoutTask PROVE Resumable'
  BY <1>16 DEF CheckoutTask, Resumable
<1>17. ASSUME Launch PROVE Resumable'
  BY <1>17 DEF Launch, Resumable
<1>18. ASSUME Spawn PROVE Resumable'
  BY <1>18 DEF Spawn, Resumable
<1>19. ASSUME RecordChild PROVE Resumable'
  BY <1>19 DEF RecordChild, Resumable
<1>20. ASSUME OpenGate PROVE Resumable'
  BY <1>20 DEF OpenGate, Resumable
<1>21. ASSUME Await PROVE Resumable'
  BY <1>21 DEF Await, Resumable, NoChild
<1>22. ASSUME Reaped PROVE Resumable'
  <2>1. pc' \in Role
    BY <1>22 DEF Reaped, RoleFits, Running
  <2> QED BY <2>1 DEF Resumable, Role
<1>23. ASSUME ImplResult PROVE Resumable'
  <2>1. ~Unpublished' /\ pc' \in {"handle_error", "begin", "down"}
    <3>1. ~Unpublished
      BY <1>23, <1>z DEF ImplResult, SettledPlace, Role
    <3>2. CASE repo' = repo
      BY <1>23, <1>u, <3>1, <3>2 DEF ImplResult, Preserve
    <3>3. CASE repo' = OnMain
      BY <1>23, <3>3 DEF ImplResult, Preserve, OnMain, Unpublished
    <3> QED BY <1>23, <3>2, <3>3 DEF ImplResult
  <2> QED BY <2>1 DEF Resumable
<1>24. ASSUME ReviewResult PROVE Resumable'
  <2>1. ~Unpublished' /\ pc' \in {"passed", "launch", "handle_error"}
    BY <1>24, <1>u, <1>z DEF ReviewResult, SettledPlace, Role
  <2> QED BY <2>1 DEF Resumable
<1>25. ASSUME FixResult PROVE Resumable'
  <2>1. ~Unpublished' /\ pc' \in {"verify", "down", "handle_error"}
    BY <1>25, <1>u, <1>z DEF FixResult, SettledPlace, Role, Preserve
  <2> QED BY <2>1 DEF Resumable
<1>26. ASSUME Begin PROVE Resumable'
  <2>1. pc' \in {"verify", "handle_error"} /\ (pc' = "handle_error" => ctl'.rec)
    BY <1>26 DEF Begin
  <2> QED BY <2>1 DEF Resumable
<1>27. ASSUME Verify PROVE Resumable'
  <2>1. st'.state = "VERIFYING"
    BY <1>27, PlainWrite DEF Verify, TypeOK, RepoType, States, Checkpoint, Checkpoints
  <2> QED BY <1>27, <2>1 DEF Verify, Resumable, FinalizationStates
<1>28. ASSUME Gates PROVE Resumable'
  <2>1. st' = st /\ pc' \in {"verified", "handle_error"}
    BY <1>28 DEF Gates
  <2> QED BY <1>28, <2>1 DEF Gates, Resumable
<1>29. ASSUME Verified PROVE Resumable'
  <2>1. st' = st /\ pc' \in {"stage", "push", "pr", "handle_error"}
    BY <1>29 DEF Verified
  <2> QED BY <1>29, <2>1 DEF Verified, Resumable
<1>30. ASSUME Stage PROVE Resumable'
  <2>1. ~Unpublished' /\ pc' \in {"add", "handle_error"}
    BY <1>30, <1>u, <1>z DEF Stage, SettledPlace, Role
  <2> QED BY <2>1 DEF Resumable
<1>31. ASSUME GitAdd PROVE Resumable'
  BY <1>31 DEF GitAdd, Resumable
<1>32. ASSUME Staged PROVE Resumable'
  BY <1>32 DEF Staged, Resumable
<1>33. ASSUME GitCommit PROVE Resumable'
  BY <1>33 DEF GitCommit, Resumable, Pipeline, FinalizationStates
<1>34. ASSUME Committed PROVE Resumable'
  <2>1. st'.state = "COMMITTED"
    BY <1>34, CommitWrite DEF Committed, TypeOK, RepoType, States, Checkpoint, Checkpoints
  <2> QED BY <1>34, <2>1 DEF Committed, Resumable, FinalizationStates
<1>35. ASSUME Push PROVE Resumable'
  <2>1. st'.state = "PUSHING"
    BY <1>35, PlainWrite DEF Push, TypeOK, RepoType, States, Checkpoint, Checkpoints
  <2> QED BY <1>35, <2>1 DEF Push, Resumable, FinalizationStates
<1>36. ASSUME GitPush PROVE Resumable'
  BY <1>36 DEF GitPush, Resumable
<1>37. ASSUME Pushed PROVE Resumable'
  <2>1. st'.state = "PUSHED"
    BY <1>37, CommitWrite DEF Pushed, TypeOK, RepoType, States, Checkpoint, Checkpoints
  <2> QED BY <1>37, <2>1 DEF Pushed, Resumable, FinalizationStates
<1>38. ASSUME OpenPr PROVE Resumable'
  BY <1>38 DEF OpenPr, Resumable
<1>39. ASSUME PrCreated PROVE Resumable'
  BY <1>39 DEF PrCreated, Resumable
<1>40. ASSUME ReviewPassed PROVE Resumable'
  BY <1>40 DEF ReviewPassed, Resumable
<1>41. ASSUME MergeCheck PROVE Resumable'
  BY <1>41 DEF MergeCheck, Resumable
<1>42. ASSUME MarkReady PROVE Resumable'
  BY <1>42 DEF MarkReady, Resumable
<1>43. ASSUME Recheck PROVE Resumable'
  BY <1>43 DEF Recheck, Resumable
<1>44. ASSUME Merge PROVE Resumable'
  BY <1>44 DEF Merge, Resumable
<1>45. ASSUME RecordOutcome PROVE Resumable'
  BY <1>45 DEF RecordOutcome, Resumable
<1>46. ASSUME Finish PROVE Resumable'
  BY <1>46 DEF Finish, Resumable
<1>47. ASSUME Crash PROVE Resumable'
  BY <1>47 DEF Crash, Resumable, NoChild
<1>48. ASSUME Error PROVE Resumable'
  BY <1>48, QuietFaults
<1>49. ASSUME HandleError PROVE Resumable'
  BY <1>49 DEF HandleError, Resumable
<1>50. ASSUME Interrupt PROVE Resumable'
  BY <1>50, QuietFaults
<1>51. ASSUME HandleInterrupt PROVE Resumable'
  BY <1>51, <1>q
<1>52. ASSUME ChildWrites PROVE Resumable'
  <2>1. repo'.head = repo.head
    BY <1>52 DEF ChildWrites, TypeOK, RepoType
  <2> QED BY <1>52, <1>u, <2>1 DEF ChildWrites, Resumable
<1>53. ASSUME OrphanEnds PROVE Resumable'
  BY <1>53, <1>u DEF OrphanEnds, Resumable
<1>54. ASSUME StrayEdit PROVE Resumable'
  BY <1>54, QuietFaults
<1>55. ASSUME HandCommit PROVE Resumable'
  BY <1>55, QuietFaults
<1>56. ASSUME ForeignPush PROVE Resumable'
  BY <1>56, <1>u DEF ForeignPush, Resumable
<1>57. ASSUME CloseIssue PROVE Resumable'
  BY <1>57, <1>u DEF CloseIssue, Resumable
<1>58. ASSUME Requeue PROVE Resumable'
  BY <1>58, <1>u DEF Requeue, Resumable
<1>59. CASE UNCHANGED vars
  BY <1>59, <1>u DEF vars, Resumable
<1> QED BY <1>1, <1>2, <1>3, <1>4, <1>5, <1>6, <1>7, <1>8, <1>9, <1>10, <1>11, <1>12, <1>13,
           <1>14, <1>15, <1>16, <1>17, <1>18, <1>19, <1>20, <1>21, <1>22, <1>23, <1>24, <1>25,
           <1>26, <1>27, <1>28, <1>29, <1>30, <1>31, <1>32, <1>33, <1>34, <1>35, <1>36, <1>37,
           <1>38, <1>39, <1>40, <1>41, <1>42, <1>43, <1>44, <1>45, <1>46, <1>47, <1>48, <1>49,
           <1>50, <1>51, <1>52, <1>53, <1>54, <1>55, <1>56, <1>57, <1>58, <1>59
           DEF Next, Step, Startup, RunChild, Finalize, Handle, World

\* The parts together.
LEMMA KeptStep ==
  ASSUME Faults \subseteq {"crash", "foreign_push", "close"},
         TypeOK, RoleFits, RemoteFits, Recovering, Recorded, Accounted, Kept, [Next]_vars
  PROVE  Kept'
  BY OnTaskStep, PipelineStep, FoundStep, SettledStep, ResumableStep DEF Kept

-------------------------------------------------------------------------------
(* The invariant and the theorems *)

\* Inductive, whatever the faults.
Inv ==
  /\ TypeOK /\ RoleFits /\ RemoteFits /\ RoundFits /\ Recovering
  /\ Recorded /\ Reviewed /\ Attributed

\* The controller starts with nothing done.
LEMMA InvInit == Init => Inv
<1> SUFFICES ASSUME Init PROVE Inv
  OBVIOUS
<1> USE DEF Init
<1>1. TypeOK
  <2>1. st \in StatusType
    BY DEF NoStatus, StatusType, States, Checkpoint, Tree
  <2>2. ctl \in CtlType /\ repo \in RepoType
    BY NoCtlType, MainType
  <2>3. hub \in HubType /\ child \in ChildType /\ used \in UsedType /\ ghost \in GhostType
    BY DEF HubType, ChildType, NoChild, UsedType, GhostType, Tree
  <2> QED BY <2>1, <2>2, <2>3 DEF TypeOK, Place, Ending
<1>2. RoleFits /\ RemoteFits /\ RoundFits /\ Recovering
  BY DEF RoleFits, RemoteFits, RoundFits, Recovering, Running, Role, Preparing, OutsideSteps,
         NoCtl
<1>3. Recorded
  BY NoneAssumption
     DEF Recorded, CheckpointsTrue, Cleared, Reached, Completed, NoStatus, Checkpoints,
         Preparing, Running
<1>4. Reviewed
  BY DEF Reviewed, MergedWasReviewed, VerdictStands, MergeIsFinal, Merging
<1>5. Attributed
  <2>1. StrayNeverCommitted /\ OnlyOwnCommitsPublished
    BY DEF StrayNeverCommitted, OnlyOwnCommitsPublished, OnMain
  <2>2. TrustedTree /\ StagedTree /\ RecoveredHead
    BY DEF TrustedTree, Trusted, StagedTree, RecoveredHead, Running, Role, Merging, Finalizing
  <2>3. TrustedFile
    BY NoneAssumption DEF TrustedFile, NoStatus, Checkpoints
  <2> QED BY <2>1, <2>2, <2>3 DEF Attributed
<1> QED BY <1>1, <1>2, <1>3, <1>4, <1>5 DEF Inv

\* Inv is inductive.
LEMMA InvStep == Inv /\ [Next]_vars => Inv'
  BY TypeStep, RemoteStep, RoundStep, RecoveringStep, RecordedStep, ReviewedStep, AttributedStep
     DEF Inv

\* The controller's state, its status file, the checkout and GitHub fit together at
\* every step, whatever the faults and however many.
THEOREM Invariant == Spec => []Inv
  BY InvInit, InvStep, PTL DEF Spec

\* Whatever goes wrong, and however often, the status file claims no commit, push or
\* pull request that does not exist.
THEOREM StatusFileTruthful == Spec => []CheckpointsTrue
<1>1. Inv => CheckpointsTrue
  BY DEF Inv, Recorded
<1> QED BY <1>1, Invariant, PTL

\* What is merged is what the reviewer passed, for any pushes, restarts and number of
\* fix rounds.
THEOREM OnlyReviewedMerged == Spec => []MergedWasReviewed
<1>1. Inv => MergedWasReviewed
  BY DEF Inv, Reviewed
<1> QED BY <1>1, Invariant, PTL

\* The controller commits no change from elsewhere that an operator did not confirm.
THEOREM StrayKeptOut == Spec => []StrayNeverCommitted
<1>1. Inv => StrayNeverCommitted
  BY DEF Inv, Attributed
<1> QED BY <1>1, Invariant, PTL

\* It pushes no commit made by hand, unless an operator confirmed work on top of it.
THEOREM HandCommitsKeptOut == Spec => []OnlyOwnCommitsPublished
<1>1. Inv => OnlyOwnCommitsPublished
  BY DEF Inv, Attributed
<1> QED BY <1>1, Invariant, PTL

\* Without Ctrl-C, which makes --watch forget a recorded child, no Codex ever runs
\* unknown to the status file or beside the controller's own work on the tree.
THEOREM NoUnknownChild ==
  ASSUME "interrupt" \notin Faults
  PROVE  Spec => []ChildrenAccounted
<1> DEFINE I == TypeOK /\ RoleFits /\ RemoteFits /\ Accounted
<1>1. Init => I
  <2>1. ASSUME Init PROVE Accounted
    BY <2>1 DEF Init, Accounted, ChildrenAccounted, GateHolds, Alive, NoChild
  <2> QED BY <2>1, InvInit DEF Inv
<1>2. I /\ [Next]_vars => I'
  BY TypeStep, RemoteStep, AccountedStep
<1>3. I => ChildrenAccounted
  BY DEF Accounted
<1> QED BY <1>1, <1>2, <1>3, PTL DEF Spec

\* Whatever the step at which the controller is killed, and whatever GitHub is made to
\* do meanwhile, the next start finds the commits that are in no pull request yet.
THEOREM WorkSurvivesCrashes ==
  ASSUME Faults \subseteq {"crash", "foreign_push", "close"}
  PROVE  Spec => []CommittedWorkKept
<1> DEFINE I == Inv /\ Accounted /\ Kept
<1>1. Init => I
  <2>1. ASSUME Init PROVE Accounted
    BY <2>1 DEF Init, Accounted, ChildrenAccounted, GateHolds, Alive, NoChild
  <2>2. ASSUME Init PROVE Kept
    BY <2>2
       DEF Init, Kept, OnTask, Pipeline, Found, Settled, Resumable, Unpublished, OnMain, NoCtl,
           Running, Role, Finalizing, Merging
  <2> QED BY <2>1, <2>2, InvInit
<1>2. I /\ [Next]_vars => I'
  <2> SUFFICES ASSUME I, [Next]_vars PROVE I'
    OBVIOUS
  <2>1. Inv'
    BY InvStep
  <2>2. Accounted'
    BY AccountedStep DEF Inv
  <2>3. Kept'
    BY KeptStep DEF Inv
  <2> QED BY <2>1, <2>2, <2>3
<1>3. I => CommittedWorkKept
  BY DEF Kept, Found, CommittedWorkKept
<1> QED BY <1>1, <1>2, <1>3, PTL DEF Spec
===============================================================================
