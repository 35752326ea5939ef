--------------------------- MODULE ExecutionStatus ---------------------------
(***************************************************************************)
(* The status graph of execution work (src/growth_os/execution.py).  The   *)
(* same graph governs a job and the run that is its latest attempt.        *)
(***************************************************************************)

QUEUED            == "queued"
RUNNING           == "running"
AWAITING_APPROVAL == "awaiting_approval"
APPROVED          == "approved"
REJECTED          == "rejected"
SUCCEEDED         == "succeeded"
FAILED            == "failed"
CANCELLED         == "cancelled"

TERMINAL_STATUSES == {REJECTED, SUCCEEDED, FAILED, CANCELLED}

Status == {QUEUED, RUNNING, AWAITING_APPROVAL, APPROVED} \cup TERMINAL_STATUSES

ALLOWED_TRANSITIONS ==
  [s \in Status |->
     CASE s = QUEUED            -> {RUNNING, CANCELLED}
       [] s = RUNNING           -> {AWAITING_APPROVAL, SUCCEEDED, FAILED, CANCELLED}
       [] s = AWAITING_APPROVAL -> {APPROVED, REJECTED, CANCELLED}
       [] s = APPROVED          -> {RUNNING, CANCELLED}
       [] OTHER                 -> {}]

\* validate_transition raises ValueError exactly when this is false.
ValidTransition(current, target) == target \in ALLOWED_TRANSITIONS[current]
===============================================================================
