--------------------------- MODULE MCProposalService ---------------------------
(* Values for checking ProposalService with TLC. *)
EXTENDS ProposalService, TLC

\* Every tenant owns a job.
SomeJobOwner ==
  CHOOSE f \in [JobId -> Tenant] : \A t \in Tenant : \E j \in JobId : f[j] = t

Interchangeable == Permutations(Session)
===============================================================================
