----------------------------- MODULE MCHandoffLock -----------------------------
(* Symmetry for checking HandoffLock with TLC. *)
EXTENDS HandoffLock, TLC

Interchangeable == Permutations(Process) \cup Permutations(Inode)
===============================================================================
