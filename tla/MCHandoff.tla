------------------------------ MODULE MCHandoff ------------------------------
(* Bounds of the instances of Handoff that TLC checks. *)
EXTENDS Handoff

AllFaults == FaultKinds
CrashOnly == {"crash"}
ErrorOnly == {"error"}

AllModes  == {"once", "watch", "confirm"}
OnceOnly  == {"once"}
===============================================================================
