---------------------------- MODULE ProposalLedger ----------------------------
(***************************************************************************)
(* What the approval boundary promises: proposals of actions, the final    *)
(* decisions people take about them, and the audit trail of both, changed  *)
(* by two indivisible operations.  ProposalService implements it.          *)
(***************************************************************************)
EXTENDS Integers, Sequences

CONSTANTS
  Tenant,      \* tenant identifiers
  JobId,       \* execution jobs; a committed job is never deleted
  JobOwner,    \* the tenant of each job
  ProposalId,  \* the supply of fresh proposal identifiers
  User         \* people who decide

ASSUME ProposalAssumption == JobOwner \in [JobId -> Tenant]

VARIABLES
  proposals,  \* rows of action_proposals by identifier; the domain is the table
  decisions,  \* rows of approval_decisions about each proposal
  trail       \* rows of audit_events about each proposal, in order of commit

proposalVars == <<proposals, decisions, trail>>

AWAITING == "awaiting_approval"
APPROVED == "approved"
REJECTED == "rejected"
LOW      == "low"
HIGH     == "high"

\* MEDIUM is treated like LOW everywhere.
RiskLevel      == {LOW, HIGH}
Verdict        == {APPROVED, REJECTED}
ProposalStatus == Verdict \cup {AWAITING}

ProposalRow == [tenant : Tenant, job : JobId, risk : RiskLevel, gated : BOOLEAN,
                status : ProposalStatus]
DecisionRow == [verdict : Verdict, by : User]
TrailRow    == [type : {"created"}] \cup [type : Verdict, actor : User]

\* Mutant: every proposal starts approved.
NewProposalApproved(t, j, k, g) ==
  [tenant |-> t, job |-> j, risk |-> k, gated |-> g, status |-> APPROVED]

\* A proposal that needs no approval starts approved.
NewProposal(t, j, k, g) ==
  [tenant |-> t, job |-> j, risk |-> k, gated |-> g,
   status |-> IF g THEN AWAITING ELSE APPROVED]

\* Refused by create_proposal and by the check constraint high_risk_requires_approval.
Permitted(k, g) == k = HIGH => g

-------------------------------------------------------------------------------
(* Writes, as the tables look once the transaction has committed *)

InsertProposal(p, t, j, k, g) ==
  /\ proposals' = [q \in DOMAIN proposals \cup {p} |->
                     IF q = p THEN NewProposal(t, j, k, g) ELSE proposals[q]]
  /\ trail'     = [trail EXCEPT ![p] = <<[type |-> "created"]>>]
  /\ UNCHANGED decisions

\* Mutant: the audit event does not name who decided.
InsertDecisionAnonymous(p, v, u) ==
  /\ proposals' = [proposals EXCEPT ![p].status = v]
  /\ decisions' = [decisions EXCEPT ![p] = Append(@, [verdict |-> v, by |-> u])]
  /\ trail'     = [trail EXCEPT ![p] = Append(@, [type |-> v, actor |-> CHOOSE w \in User : TRUE])]

\* Mutant: the decision row is stored and the proposal left as it is.
InsertDecisionOnly(p, v, u) ==
  /\ proposals' = proposals
  /\ decisions' = [decisions EXCEPT ![p] = Append(@, [verdict |-> v, by |-> u])]
  /\ trail'     = [trail EXCEPT ![p] = Append(@, [type |-> v, actor |-> u])]

InsertDecision(p, v, u) ==
  /\ proposals' = [proposals EXCEPT ![p].status = v]
  /\ decisions' = [decisions EXCEPT ![p] = Append(@, [verdict |-> v, by |-> u])]
  /\ trail'     = [trail EXCEPT ![p] = Append(@, [type |-> v, actor |-> u])]

-------------------------------------------------------------------------------
(* The two indivisible operations *)

Propose(p, t, j, k, g) ==
  /\ p \in ProposalId \ DOMAIN proposals
  /\ JobOwner[j] = t
  /\ Permitted(k, g)
  /\ InsertProposal(p, t, j, k, g)

Decide(p, v, u) ==
  /\ p \in DOMAIN proposals
  /\ proposals[p].status = AWAITING
  /\ InsertDecision(p, v, u)

ProposalInit ==
  /\ proposals = [p \in {} |-> p]
  /\ decisions = [p \in ProposalId |-> << >>]
  /\ trail     = [p \in ProposalId |-> << >>]

ProposalNext ==
  \/ \E p \in ProposalId, t \in Tenant, j \in JobId, k \in RiskLevel, g \in BOOLEAN :
       Propose(p, t, j, k, g)
  \/ \E p \in ProposalId, v \in Verdict, u \in User : Decide(p, v, u)

ProposalSpec == ProposalInit /\ [][ProposalNext]_proposalVars

-------------------------------------------------------------------------------
(* Properties *)

ProposalTypeOK ==
  /\ DOMAIN proposals \subseteq ProposalId
  /\ proposals \in [DOMAIN proposals -> ProposalRow]
  /\ decisions \in [ProposalId -> Seq(DecisionRow)]
  /\ trail \in [ProposalId -> Seq(TrailRow)]

\* A proposal that asks for approval is final exactly when one decision is stored,
\* and its status is what that decision says; one that does not ask has none; one of
\* high risk is approved only by such a decision.
DecisionAgrees ==
  \A p \in DOMAIN proposals :
    /\ IF proposals[p].status = AWAITING \/ ~proposals[p].gated
       THEN /\ decisions[p] = << >>
            /\ proposals[p].gated <=> proposals[p].status = AWAITING
       ELSE /\ Len(decisions[p]) = 1
            /\ decisions[p][1].verdict = proposals[p].status
    /\ proposals[p].risk = HIGH /\ proposals[p].status = APPROVED =>
         \E i \in DOMAIN decisions[p] : decisions[p][i].verdict = APPROVED

\* The audit trail tells who took the decision that stands, and nothing else.
DecisionAudited ==
  \A p \in DOMAIN proposals :
    /\ Len(trail[p]) = Len(decisions[p]) + 1
    /\ \A i \in DOMAIN decisions[p] :
         trail[p][i + 1] = [type |-> decisions[p][i].verdict, actor |-> decisions[p][i].by]
===============================================================================
