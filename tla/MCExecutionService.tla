------------------------- MODULE MCExecutionService -------------------------
(* Bounds and values for checking ExecutionService with TLC. *)
EXTENDS ExecutionService, TLC

CONSTANTS
  MaxEvents,      \* audit events of a job, counting those still in flight
  Ops             \* kinds of requests that arrive

\* Every tenant owns a workload.
SomeOwner == CHOOSE f \in [Workload -> Tenant] : \A t \in Tenant : \E w \in Workload : f[w] = t

InFlight == {s \in Session : pc[s] # "idle"}

WithinBound == \A j \in JobId : Len(audit[j]) + Cardinality(InFlight) < MaxEvents

MCArrive(s) ==
  /\ WithinBound
  /\ \/ "create" \in Ops /\ ArriveCreate(s)
     \/ "transition" \in Ops /\ ArriveTransition(s)
     \/ "retry" \in Ops /\ ArriveRetry(s)

\* At the bound no request arrives any more and the system rests.
MCRest == InFlight = {} /\ ~WithinBound /\ UNCHANGED vars

MCNext == MCRest \/ \E s \in Session : MCArrive(s) \/ Step(s) \/ Abort(s)

MCSpec     == Init /\ [][MCNext]_vars
MCFairSpec == MCSpec /\ Fairness

Interchangeable == Permutations(Session)
===============================================================================
