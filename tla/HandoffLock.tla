------------------------------ MODULE HandoffLock ------------------------------
(***************************************************************************)
(* The single-controller lock (acquire_lock and release_lock of            *)
(* devtools/codex_handoff.py).  The lock is on the open file, an inode,    *)
(* while contenders find the file by its path; release unlinks the path    *)
(* before it unlocks the inode.                                            *)
(***************************************************************************)
EXTENDS Integers, FiniteSets

CONSTANTS
  Process,       \* controllers being started by operators
  Inode,         \* files that may come to stand at the path
  None           \* no file, no process

ASSUME LockAssumption ==
  /\ None \notin Process \cup Inode
  /\ Cardinality(Inode) > Cardinality(Process)

VARIABLES
  path,    \* the file at .git/codex-handoff.lock
  locked,  \* the process that holds the flock of each file
  text,    \* the PID written in each file
  fd,      \* the file each process has open
  pc,      \* where each process stands
  raced    \* history: a file was unlinked while another process had it open

vars == <<path, locked, text, fd, pc, raced>>

Labels == {"idle", "opened", "running", "releasing", "refused"}

\* Files that nothing refers to any more can come back as new, empty files.
FreeInodes == {i \in Inode : i # path /\ \A p \in Process : fd[p] # i}

CloseFile(p) ==
  /\ fd'     = [fd EXCEPT ![p] = None]
  /\ locked' = [i \in Inode |-> IF locked[i] = p THEN None ELSE locked[i]]

-------------------------------------------------------------------------------
\* Mutant: every controller makes a new file and moves it to the path.
OpenFresh(p) ==
  /\ pc[p] = "idle"
  /\ \E i \in FreeInodes :
       /\ path' = i
       /\ fd'   = [fd EXCEPT ![p] = i]
       /\ text' = [text EXCEPT ![i] = None]
  /\ pc' = [pc EXCEPT ![p] = "opened"]
  /\ UNCHANGED <<locked, raced>>

\* open("a+"): creates the file when the path is empty.
Open(p) ==
  /\ pc[p] = "idle"
  /\ \/ path # None /\ fd' = [fd EXCEPT ![p] = path] /\ UNCHANGED <<path, text>>
     \/ /\ path = None
        /\ \E i \in FreeInodes :
             /\ path' = i
             /\ fd'   = [fd EXCEPT ![p] = i]
             /\ text' = [text EXCEPT ![i] = None]
  /\ pc' = [pc EXCEPT ![p] = "opened"]
  /\ UNCHANGED <<locked, raced>>

\* Mutant: the PID in the file decides, as if a file that is locked by nobody but
\* names a process were held by it.
HeldByOtherText(p) == text[fd[p]] \notin {None, p}

\* LOCK_EX | LOCK_NB would block.
HeldByOther(p) == locked[fd[p]] # None

Acquire(p) ==
  /\ pc[p] = "opened"
  /\ ~HeldByOther(p)
  /\ locked' = [locked EXCEPT ![fd[p]] = p]
  /\ text'   = [text EXCEPT ![fd[p]] = p]
  /\ pc'     = [pc EXCEPT ![p] = "running"]
  /\ UNCHANGED <<path, fd, raced>>

Refuse(p) ==
  /\ pc[p] = "opened"
  /\ HeldByOther(p)
  /\ CloseFile(p)
  /\ pc' = [pc EXCEPT ![p] = "refused"]
  /\ UNCHANGED <<path, text, raced>>

\* release_lock removes whatever file stands at the path ...
Unlink(p) ==
  /\ pc[p] = "running"
  /\ path'  = None
  /\ pc'    = [pc EXCEPT ![p] = "releasing"]
  /\ raced' = (raced \/ \E q \in Process : pc[q] = "opened")
  /\ UNCHANGED <<locked, text, fd>>

\* ... and then unlocks and closes its own.
Unlock(p) ==
  /\ pc[p] = "releasing"
  /\ CloseFile(p)
  /\ pc' = [pc EXCEPT ![p] = "idle"]
  /\ UNCHANGED <<path, text, raced>>

\* A refused process ends; a killed one leaves the file and its text behind, and
\* the kernel drops its lock.
End(p) ==
  /\ pc[p] # "idle"
  /\ CloseFile(p)
  /\ pc' = [pc EXCEPT ![p] = "idle"]
  /\ UNCHANGED <<path, text, raced>>

Init ==
  /\ path   = None
  /\ locked = [i \in Inode |-> None]
  /\ text   = [i \in Inode |-> None]
  /\ fd     = [p \in Process |-> None]
  /\ pc     = [p \in Process |-> "idle"]
  /\ raced  = FALSE

Next == \E p \in Process :
  Open(p) \/ Acquire(p) \/ Refuse(p) \/ Unlink(p) \/ Unlock(p) \/ End(p)

Spec == Init /\ [][Next]_vars

-------------------------------------------------------------------------------
(* Properties *)

TypeOK ==
  /\ path \in Inode \cup {None}
  /\ locked \in [Inode -> Process \cup {None}]
  /\ text \in [Inode -> Process \cup {None}]
  /\ fd \in [Process -> Inode \cup {None}]
  /\ pc \in [Process -> Labels]
  /\ raced \in BOOLEAN

\* docs/DEV-HANDOFF.md: "Only one controller may run at a time.  The
\* operating-system file lock is authoritative".
OneController ==
  \A p, q \in Process : pc[p] = "running" /\ pc[q] = "running" => p = q

\* Crashes at any step and any number of orderly releases leave the exclusion
\* intact, as long as no release unlinks the path between another controller's open
\* and its attempt to lock.
OneUnlessRaced == ~raced => OneController

\* A controller is refused only while another one is alive and has the very file
\* open that it was refused on: what crashed controllers left behind, the file
\* and the PID text in it, never keeps a new one from starting.
RefusedByTheLiving ==
  [][\A p \in Process :
       pc[p] = "opened" /\ pc'[p] = "refused" =>
         \E q \in Process \ {p} : pc[q] \in {"running", "releasing"} /\ fd[q] = fd[p]]_vars
===============================================================================
