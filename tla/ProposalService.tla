---------------------------- MODULE ProposalService ----------------------------
(***************************************************************************)
(* create_proposal and decide_proposal of ExecutionService over PostgreSQL *)
(* at READ COMMITTED, one statement a step, as in ExecutionService.tla.    *)
(* A decision reads the proposal, then updates it by primary key without   *)
(* looking at its status again: the unique constraint on the decision is   *)
(* what makes the second of two overlapping decisions fail.                *)
(***************************************************************************)
EXTENDS ProposalLedger

CONSTANTS
  Session,   \* database sessions; each serves one request at a time
  None       \* the absence of a value

VARIABLES
  pc,    \* the next statement of each session's request, or its answer
  req,   \* the request each session serves
  held   \* the proposal a session has read or is inserting

sessionVars == <<pc, req, held>>
vars == <<proposals, decisions, trail, pc, req, held>>

CreateRequest == [op : {"create"}, tenant : Tenant, job : JobId, risk : RiskLevel,
                  gated : BOOLEAN]
DecideRequest == [op : {"decide"}, tenant : Tenant, proposal : ProposalId,
                  verdict : Verdict, by : User]
NoRequest     == [op |-> "none"]

Answers == {"proposed", "recorded", "finalized"}
Labels  == Answers \cup {"idle", "read_job", "commit_proposal",
                         "read_proposal", "update", "insert_decision", "commit_decision"}

Others(s) == Session \ {s}

Goto(s, label) == pc' = [pc EXCEPT ![s] = label]

End(s) ==
  /\ pc'   = [pc EXCEPT ![s] = "idle"]
  /\ req'  = [req EXCEPT ![s] = NoRequest]
  /\ held' = [held EXCEPT ![s] = None]

\* The UPDATE of action_proposals has been executed and is not yet committed.
LocksProposal(o, p) == pc[o] \in {"insert_decision", "commit_decision"} /\ held[o] = p

-------------------------------------------------------------------------------
Arrive(s, r, first) ==
  /\ pc[s] = "idle"
  /\ req' = [req EXCEPT ![s] = r]
  /\ Goto(s, first)
  /\ UNCHANGED <<proposals, decisions, trail, held>>

ArriveCreate(s) == \E r \in CreateRequest : Arrive(s, r, "read_job")
ArriveDecide(s) == \E r \in DecideRequest : Arrive(s, r, "read_proposal")

-------------------------------------------------------------------------------
(* create_proposal *)

ReadJob(s) ==
  /\ pc[s] = "read_job"
  /\ IF JobOwner[req[s].job] = req[s].tenant /\ Permitted(req[s].risk, req[s].gated)
     THEN /\ \E p \in ProposalId \ DOMAIN proposals :
               /\ \A o \in Session : held[o] # p
               /\ held' = [held EXCEPT ![s] = p]
          /\ Goto(s, "commit_proposal")
          /\ UNCHANGED req
     ELSE End(s)
  /\ UNCHANGED proposalVars

CommitProposal(s) ==
  /\ pc[s] = "commit_proposal"
  /\ InsertProposal(held[s], req[s].tenant, req[s].job, req[s].risk, req[s].gated)
  /\ Goto(s, "proposed")
  /\ UNCHANGED <<req, held>>

-------------------------------------------------------------------------------
(* decide_proposal *)

\* Mutant: the proposal is fetched by identifier alone.
OwnedByAnyone(t, p) == p \in DOMAIN proposals

Owned(t, p) == p \in DOMAIN proposals /\ proposals[p].tenant = t

\* Mutant: a proposal that never asked may be decided.
AwaitingOrFree(p) == proposals[p].status = AWAITING \/ ~proposals[p].gated

Awaiting(p) == proposals[p].status = AWAITING

ReadProposal(s) ==
  /\ pc[s] = "read_proposal"
  /\ LET p == req[s].proposal
     IN  \/ /\ ~Owned(req[s].tenant, p)
            /\ End(s)
         \/ /\ Owned(req[s].tenant, p)
            /\ ~Awaiting(p)
            /\ Goto(s, "finalized")
            /\ UNCHANGED <<req, held>>
         \/ /\ Owned(req[s].tenant, p)
            /\ Awaiting(p)
            /\ held' = [held EXCEPT ![s] = p]
            /\ Goto(s, "update")
            /\ UNCHANGED req
  /\ UNCHANGED proposalVars

\* UPDATE action_proposals ... WHERE id = p: waits for the row and locks it.
UpdateProposal(s) ==
  /\ pc[s] = "update"
  /\ \A o \in Others(s) : ~LocksProposal(o, held[s])
  /\ Goto(s, "insert_decision")
  /\ UNCHANGED <<proposals, decisions, trail, req, held>>

\* Mutant: no unique constraint on the decided proposal.
DecisionTakenUnconstrained(p) == FALSE

\* uq_decisions_final_proposal: a decision is already in the table.
DecisionTaken(p) == decisions[p] # << >>

InsertDecisionRow(s) ==
  /\ pc[s] = "insert_decision"
  /\ Goto(s, IF DecisionTaken(held[s]) THEN "finalized" ELSE "commit_decision")
  /\ UNCHANGED <<proposals, decisions, trail, req, held>>

CommitDecision(s) ==
  /\ pc[s] = "commit_decision"
  /\ InsertDecision(held[s], req[s].verdict, req[s].by)
  /\ Goto(s, "recorded")
  /\ UNCHANGED <<req, held>>

-------------------------------------------------------------------------------
Respond(s) ==
  /\ pc[s] \in Answers
  /\ End(s)
  /\ UNCHANGED proposalVars

Abort(s) ==
  /\ pc[s] \notin Answers \cup {"idle"}
  /\ End(s)
  /\ UNCHANGED proposalVars

Init ==
  /\ ProposalInit
  /\ pc   = [s \in Session |-> "idle"]
  /\ req  = [s \in Session |-> NoRequest]
  /\ held = [s \in Session |-> None]

Step(s) ==
  \/ ReadJob(s) \/ CommitProposal(s)
  \/ ReadProposal(s) \/ UpdateProposal(s) \/ InsertDecisionRow(s) \/ CommitDecision(s)
  \/ Respond(s)

Next == \E s \in Session : ArriveCreate(s) \/ ArriveDecide(s) \/ Step(s) \/ Abort(s)

Spec == Init /\ [][Next]_vars

-------------------------------------------------------------------------------
(* Properties *)

TypeOK ==
  /\ ProposalTypeOK
  /\ pc \in [Session -> Labels]
  /\ req \in [Session -> CreateRequest \cup DecideRequest \cup {NoRequest}]
  /\ held \in [Session -> ProposalId \cup {None}]

\* Whoever is told that the decision was recorded finds it standing, nobody else
\* is told so for the same proposal, and whoever is told that the proposal was
\* final already is told the truth.
AnswersHonest ==
  \A s \in Session :
    /\ pc[s] = "recorded" =>
         /\ decisions[held[s]] = <<[verdict |-> req[s].verdict, by |-> req[s].by]>>
         /\ proposals[held[s]].tenant = req[s].tenant
         /\ \A o \in Others(s) : pc[o] = "recorded" => held[o] # held[s]
    /\ pc[s] = "finalized" => proposals[req[s].proposal].status # AWAITING

\* A stored decision, and the status it gave, are never changed or removed.
DecisionsFinal ==
  [][\A p \in DOMAIN proposals :
       /\ p \in DOMAIN proposals'
       /\ proposals[p].status # AWAITING =>
            proposals'[p] = proposals[p] /\ decisions'[p] = decisions[p]]_vars
===============================================================================
