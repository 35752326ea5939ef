--------------------------- MODULE HandoffLockProofs ---------------------------
(***************************************************************************)
(* Proofs about the controller lock for any number of controllers and any  *)
(* number of files that come to stand at its path.                         *)
(***************************************************************************)
EXTENDS HandoffLock, TLAPS

\* A file is locked by a process that has it open and runs or releases.
LockedByHolder ==
  \A i \in Inode : \A q \in Process :
    locked[i] = q => fd[q] = i /\ pc[q] \in {"running", "releasing"}

OpenedHasFile == \A p \in Process : pc[p] = "opened" => fd[p] \in Inode

IInv == TypeOK /\ LockedByHolder /\ OpenedHasFile

\* While no release has raced with a start, everybody who opened the path still has
\* the file that stands there, and whoever runs has it locked.
SameFile ==
  ~raced => \A p \in Process :
    /\ pc[p] \in {"opened", "running"} => path # None /\ fd[p] = path
    /\ pc[p] = "running" => locked[fd[p]] = p

LEMMA InitIInv == Init => IInv
  BY LockAssumption DEF Init, IInv, TypeOK, LockedByHolder, OpenedHasFile, Labels

\* Each step keeps types and the two facts about who holds what.
LEMMA NextIInv == IInv /\ [Next]_vars => IInv'
<1> SUFFICES ASSUME IInv, [Next]_vars PROVE IInv'
  OBVIOUS
<1> USE LockAssumption DEF IInv, TypeOK, LockedByHolder, OpenedHasFile, Labels
<1>1. ASSUME NEW p \in Process, Open(p) PROVE IInv'
  BY <1>1 DEF Open, FreeInodes
<1>2. ASSUME NEW p \in Process, Acquire(p) PROVE IInv'
  BY <1>2 DEF Acquire, HeldByOther
<1>3. ASSUME NEW p \in Process, Refuse(p) PROVE IInv'
  BY <1>3 DEF Refuse, CloseFile
<1>4. ASSUME NEW p \in Process, Unlink(p) PROVE IInv'
  BY <1>4 DEF Unlink
<1>5. ASSUME NEW p \in Process, Unlock(p) PROVE IInv'
  BY <1>5 DEF Unlock, CloseFile
<1>6. ASSUME NEW p \in Process, End(p) PROVE IInv'
  BY <1>6 DEF End, CloseFile
<1>7. CASE UNCHANGED vars
  BY <1>7 DEF vars
<1> QED
  BY <1>1, <1>2, <1>3, <1>4, <1>5, <1>6, <1>7 DEF Next

\* The invariant of the lock.
THEOREM LockInvariant == Spec => []IInv
<1>1. Init => IInv
  BY InitIInv
<1>2. IInv /\ [Next]_vars => IInv'
  BY NextIInv
<1> QED
  BY <1>1, <1>2, PTL DEF Spec

-------------------------------------------------------------------------------
\* A refused controller was refused because of a live one that has the same file
\* open, never because of a file or a PID that a dead one left.
THEOREM RefusalsAreJustified == Spec => RefusedByTheLiving
<1> DEFINE Justified ==
      \A p \in Process :
        pc[p] = "opened" /\ pc'[p] = "refused" =>
          \E q \in Process \ {p} : pc[q] \in {"running", "releasing"} /\ fd[q] = fd[p]
<1>1. ASSUME IInv, [Next]_vars PROVE [Justified]_vars
  <2> SUFFICES ASSUME NEW p \in Process, pc[p] = "opened", pc'[p] = "refused"
               PROVE  \E q \in Process \ {p} :
                        pc[q] \in {"running", "releasing"} /\ fd[q] = fd[p]
    OBVIOUS
  <2>1. Refuse(p)
    BY <1>1 DEF IInv, TypeOK, Next, vars, Open, Acquire, Refuse, Unlink, Unlock, End
  <2>2. fd[p] \in Inode
    BY <1>1 DEF IInv, OpenedHasFile
  <2>3. PICK q \in Process : locked[fd[p]] = q
    BY <1>1, <2>1, <2>2 DEF Refuse, HeldByOther, IInv, TypeOK
  <2>4. fd[q] = fd[p] /\ pc[q] \in {"running", "releasing"}
    BY <1>1, <2>2, <2>3 DEF IInv, LockedByHolder
  <2> QED
    BY <2>4
<1>2. Spec => [][Justified]_vars
  BY <1>1, LockInvariant, PTL DEF Spec
<1> QED
  BY <1>2 DEF RefusedByTheLiving

-------------------------------------------------------------------------------
LEMMA NextSameFile ==
  ASSUME IInv, SameFile, [Next]_vars PROVE SameFile'
<1> USE LockAssumption DEF IInv, TypeOK, LockedByHolder, OpenedHasFile, SameFile, Labels
<1>1. ASSUME NEW p \in Process, Open(p) PROVE SameFile'
  BY <1>1 DEF Open, FreeInodes
<1>2. ASSUME NEW p \in Process, Acquire(p) PROVE SameFile'
  BY <1>2 DEF Acquire, HeldByOther
<1>3. ASSUME NEW p \in Process, Refuse(p) PROVE SameFile'
  BY <1>3 DEF Refuse, CloseFile
<1>4. ASSUME NEW p \in Process, Unlink(p) PROVE SameFile'
  <2> SUFFICES ASSUME ~raced', NEW q \in Process, pc'[q] \in {"opened", "running"}
               PROVE  FALSE
    OBVIOUS
  <2>1. ~raced /\ \A o \in Process : pc[o] # "opened"
    BY <1>4 DEF Unlink
  <2>2. pc[p] = "running" /\ pc' = [pc EXCEPT ![p] = "releasing"]
    BY <1>4 DEF Unlink
  <2>3. q # p /\ pc[q] = "running"
    BY <2>1, <2>2
  <2>4. fd[q] = path /\ fd[p] = path /\ locked[path] = q /\ locked[path] = p
    BY <2>1, <2>2, <2>3
  <2> QED
    BY <2>3, <2>4
<1>5. ASSUME NEW p \in Process, Unlock(p) PROVE SameFile'
  BY <1>5 DEF Unlock, CloseFile
<1>6. ASSUME NEW p \in Process, End(p) PROVE SameFile'
  BY <1>6 DEF End, CloseFile
<1>7. CASE UNCHANGED vars
  BY <1>7 DEF vars
<1> QED
  BY <1>1, <1>2, <1>3, <1>4, <1>5, <1>6, <1>7 DEF Next

\* At most one controller runs unless a release raced with a start: neither crashes
\* nor releases alone break the exclusion.
THEOREM RacesAloneBreakExclusion == Spec => []OneUnlessRaced
<1>1. Init => SameFile
  BY DEF Init, SameFile
<1>2. IInv /\ SameFile /\ [Next]_vars => SameFile'
  BY NextSameFile
<1>3. IInv /\ SameFile => OneUnlessRaced
  BY DEF IInv, TypeOK, SameFile, OneUnlessRaced, OneController
<1> QED
  BY <1>1, <1>2, <1>3, LockInvariant, PTL DEF Spec
===============================================================================
