------------------------ MODULE ProposalServiceProofs ------------------------
(***************************************************************************)
(* A proposal is decided at most once, by a decision that its status and   *)
(* its audit trail repeat, for any number of sessions: ProposalService     *)
(* implements ProposalLedger.                                              *)
(***************************************************************************)
EXTENDS ProposalService, SequenceTheorems, TLAPS

CreateLabels == {"read_job", "commit_proposal"}
DecideLabels == {"read_proposal", "update", "insert_decision", "commit_decision",
                 "recorded", "finalized"}
ReadLabels   == {"update", "insert_decision", "commit_decision", "recorded"}

-------------------------------------------------------------------------------
(* The invariant *)

SessionTypeOK ==
  /\ pc \in [Session -> Labels]
  /\ req \in [Session -> CreateRequest \cup DecideRequest \cup {NoRequest}]
  /\ held \in [Session -> ProposalId \cup {None}]

\* Everything the ledger promises about one proposal.
RowInv(p) ==
  /\ proposals[p].risk = HIGH => proposals[p].gated
  /\ IF proposals[p].status = AWAITING \/ ~proposals[p].gated
     THEN /\ decisions[p] = << >>
          /\ proposals[p].gated <=> proposals[p].status = AWAITING
     ELSE /\ Len(decisions[p]) = 1
          /\ decisions[p][1].verdict = proposals[p].status
  /\ Len(trail[p]) = Len(decisions[p]) + 1
  /\ \A i \in DOMAIN decisions[p] :
       trail[p][i + 1] = [type |-> decisions[p][i].verdict, actor |-> decisions[p][i].by]

\* Facts no commit of another session can falsify.
Stable(s) ==
  /\ pc[s] \in CreateLabels => req[s] \in CreateRequest
  /\ pc[s] = "commit_proposal" =>
       /\ held[s] \in ProposalId
       /\ JobOwner[req[s].job] = req[s].tenant
       /\ Permitted(req[s].risk, req[s].gated)
  /\ pc[s] \in DecideLabels => req[s] \in DecideRequest
  /\ pc[s] \in ReadLabels =>
       /\ held[s] = req[s].proposal
       /\ held[s] \in DOMAIN proposals
       /\ proposals[held[s]].tenant = req[s].tenant
       /\ proposals[held[s]].gated
  /\ pc[s] = "finalized" =>
       /\ req[s].proposal \in DOMAIN proposals
       /\ proposals[req[s].proposal].status # AWAITING
  /\ pc[s] = "recorded" =>
       decisions[held[s]] = <<[verdict |-> req[s].verdict, by |-> req[s].by]>>

\* Facts a session relies on when it commits.
Held(s) ==
  /\ pc[s] = "commit_proposal" => held[s] \notin DOMAIN proposals
  /\ pc[s] = "commit_decision" => decisions[held[s]] = << >>

Exclusive(s, o) ==
  /\ pc[s] \in {"insert_decision", "commit_decision"}
     /\ pc[o] \in {"insert_decision", "commit_decision"} => held[s] # held[o]
  /\ pc[s] = "commit_proposal" /\ pc[o] = "commit_proposal" => held[s] # held[o]
  /\ pc[s] = "recorded" /\ pc[o] = "recorded" => held[s] # held[o]

Inv ==
  /\ ProposalTypeOK
  /\ \A p \in DOMAIN proposals : RowInv(p)
  /\ \A p \in ProposalId \ DOMAIN proposals : decisions[p] = << >>
  /\ SessionTypeOK
  /\ \A s \in Session : Stable(s) /\ Held(s)
  /\ \A s \in Session : \A o \in Others(s) : Exclusive(s, o)

OnlySession(s) ==
  \A o \in Others(s) : pc'[o] = pc[o] /\ req'[o] = req[o] /\ held'[o] = held[o]

-------------------------------------------------------------------------------
(* Steps that change no table *)

LEMMA LocalStep ==
  ASSUME Inv, NEW s \in Session, UNCHANGED proposalVars, OnlySession(s),
         SessionTypeOK', Stable(s)', Held(s)', \A o \in Others(s) : Exclusive(s, o)'
  PROVE  Inv'
<1>1. proposals' = proposals /\ decisions' = decisions /\ trail' = trail
  BY DEF proposalVars
<1>2. /\ ProposalTypeOK' /\ \A p \in DOMAIN proposals' : RowInv(p)'
      /\ \A p \in ProposalId \ DOMAIN proposals' : decisions'[p] = << >>
  BY <1>1 DEF Inv, ProposalTypeOK, RowInv
<1>3. \A o \in Others(s) : Stable(o)' /\ Held(o)'
  BY <1>1 DEF Inv, Stable, Held, OnlySession, Others
<1>4. \A p \in Session : \A o \in Others(p) : Exclusive(p, o)'
  BY DEF Inv, Exclusive, OnlySession, Others
<1>5. \A o \in Session : o = s \/ o \in Others(s)
  BY DEF Others
<1> QED
  BY <1>2, <1>3, <1>4, <1>5 DEF Inv

LEMMA EndStep ==
  ASSUME Inv, NEW s \in Session, End(s), UNCHANGED proposalVars
  PROVE  Inv'
<1>1. SessionTypeOK
  BY DEF Inv
<1>2. OnlySession(s) /\ pc'[s] = "idle" /\ SessionTypeOK'
  BY <1>1 DEF End, OnlySession, Others, SessionTypeOK, Labels
<1>3. Stable(s)' /\ Held(s)' /\ \A o \in Others(s) : Exclusive(s, o)'
  BY <1>2 DEF Stable, Held, Exclusive, CreateLabels, DecideLabels, ReadLabels
<1> QED
  BY <1>2, <1>3, LocalStep

LEMMA ArriveStep ==
  ASSUME Inv, NEW s \in Session, ArriveCreate(s) \/ ArriveDecide(s)
  PROVE  Inv'
<1>1. SessionTypeOK
  BY DEF Inv
<1>2. PICK r \in CreateRequest \cup DecideRequest, l \in {"read_job", "read_proposal"} :
        /\ Arrive(s, r, l)
        /\ l = "read_job" => r \in CreateRequest
        /\ l = "read_proposal" => r \in DecideRequest
  BY DEF ArriveCreate, ArriveDecide
<1>3. /\ UNCHANGED proposalVars /\ OnlySession(s)
      /\ pc'[s] = l /\ req'[s] = r /\ SessionTypeOK'
  BY <1>1, <1>2 DEF Arrive, Goto, OnlySession, Others, SessionTypeOK, Labels, proposalVars
<1>4. Stable(s)' /\ Held(s)' /\ \A o \in Others(s) : Exclusive(s, o)'
  BY <1>2, <1>3 DEF Stable, Held, Exclusive, CreateLabels, DecideLabels, ReadLabels
<1> QED
  BY <1>3, <1>4, LocalStep

LEMMA ReadJobStep ==
  ASSUME Inv, NEW s \in Session, ReadJob(s)
  PROVE  Inv'
<1>1. SessionTypeOK /\ Stable(s) /\ pc[s] = "read_job" /\ UNCHANGED proposalVars
  BY DEF Inv, ReadJob
<1>2. ASSUME JobOwner[req[s].job] = req[s].tenant, Permitted(req[s].risk, req[s].gated),
             NEW p \in ProposalId \ DOMAIN proposals, \A o \in Session : held[o] # p,
             held' = [held EXCEPT ![s] = p], Goto(s, "commit_proposal"), UNCHANGED req
      PROVE  Inv'
  <2>1. /\ OnlySession(s) /\ pc'[s] = "commit_proposal" /\ held'[s] = p
        /\ req' = req /\ SessionTypeOK' /\ proposals' = proposals
    BY <1>1, <1>2 DEF Goto, OnlySession, Others, SessionTypeOK, Labels, proposalVars
  <2>2. Stable(s)' /\ Held(s)'
    BY <1>1, <1>2, <2>1 DEF Stable, Held, CreateLabels, DecideLabels, ReadLabels
  <2>3. \A o \in Others(s) : Exclusive(s, o)'
    BY <1>2, <2>1 DEF Exclusive, OnlySession, Others
  <2> QED
    BY <1>1, <2>1, <2>2, <2>3, LocalStep
<1> QED
  BY <1>1, <1>2, EndStep DEF ReadJob

LEMMA ReadProposalStep ==
  ASSUME Inv, NEW s \in Session, ReadProposal(s)
  PROVE  Inv'
<1> DEFINE p == req[s].proposal
<1>1. SessionTypeOK /\ Stable(s) /\ pc[s] = "read_proposal" /\ UNCHANGED proposalVars
  BY DEF Inv, ReadProposal
<1>2. req[s] \in DecideRequest /\ p \in ProposalId
  BY <1>1 DEF Stable, DecideLabels, DecideRequest
<1>3. CASE Owned(req[s].tenant, p) /\ ~Awaiting(p) /\ Goto(s, "finalized") /\ UNCHANGED <<req, held>>
  <2>1. /\ OnlySession(s) /\ pc'[s] = "finalized" /\ req' = req /\ held' = held
        /\ SessionTypeOK' /\ proposals' = proposals
    BY <1>1, <1>3 DEF Goto, OnlySession, Others, SessionTypeOK, Labels, Answers, proposalVars
  <2>2. Stable(s)' /\ Held(s)' /\ \A o \in Others(s) : Exclusive(s, o)'
    BY <1>2, <1>3, <2>1
    DEF Stable, Held, Exclusive, Owned, Awaiting, CreateLabels, DecideLabels, ReadLabels
  <2> QED
    BY <1>1, <2>1, <2>2, LocalStep
<1>4. CASE /\ Owned(req[s].tenant, p) /\ Awaiting(p)
           /\ held' = [held EXCEPT ![s] = p] /\ Goto(s, "update") /\ UNCHANGED req
  <2>1. /\ OnlySession(s) /\ pc'[s] = "update" /\ req' = req /\ held'[s] = p
        /\ SessionTypeOK' /\ proposals' = proposals
    BY <1>1, <1>2, <1>4 DEF Goto, OnlySession, Others, SessionTypeOK, Labels, proposalVars
  <2>2. proposals[p].gated
    BY <1>4 DEF Inv, RowInv, Owned, Awaiting, ProposalTypeOK, ProposalRow
  <2>3. Stable(s)' /\ Held(s)' /\ \A o \in Others(s) : Exclusive(s, o)'
    BY <1>2, <1>4, <2>1, <2>2
    DEF Stable, Held, Exclusive, Owned, CreateLabels, DecideLabels, ReadLabels
  <2> QED
    BY <1>1, <2>1, <2>3, LocalStep
<1> QED
  BY <1>1, <1>3, <1>4, EndStep DEF ReadProposal

LEMMA UpdateProposalStep ==
  ASSUME Inv, NEW s \in Session, UpdateProposal(s)
  PROVE  Inv'
<1>1. SessionTypeOK /\ Stable(s) /\ pc[s] = "update" /\ UNCHANGED proposalVars
  BY DEF Inv, UpdateProposal, proposalVars
<1>2. /\ OnlySession(s) /\ pc'[s] = "insert_decision" /\ req' = req /\ held' = held
      /\ SessionTypeOK' /\ proposals' = proposals
  BY <1>1 DEF UpdateProposal, Goto, OnlySession, Others, SessionTypeOK, Labels, proposalVars
<1>3. Stable(s)' /\ Held(s)'
  BY <1>1, <1>2 DEF Stable, Held, CreateLabels, DecideLabels, ReadLabels
<1>4. \A o \in Others(s) : Exclusive(s, o)'
  BY <1>2 DEF UpdateProposal, Exclusive, LocksProposal, OnlySession
<1> QED
  BY <1>1, <1>2, <1>3, <1>4, LocalStep

LEMMA InsertDecisionRowStep ==
  ASSUME Inv, NEW s \in Session, InsertDecisionRow(s)
  PROVE  Inv'
<1>1. SessionTypeOK /\ Stable(s) /\ pc[s] = "insert_decision" /\ UNCHANGED proposalVars
  BY DEF Inv, InsertDecisionRow, proposalVars
<1>2. /\ OnlySession(s) /\ req' = req /\ held' = held /\ SessionTypeOK'
      /\ proposals' = proposals /\ decisions' = decisions
      /\ \/ pc'[s] = "finalized" /\ decisions[held[s]] # << >>
         \/ pc'[s] = "commit_decision" /\ decisions[held[s]] = << >>
  BY <1>1 DEF InsertDecisionRow, DecisionTaken, Goto, OnlySession, Others, SessionTypeOK, Labels,
              Answers, proposalVars
<1>3. decisions[held[s]] # << >> => proposals[held[s]].status # AWAITING
  BY <1>1 DEF Inv, Stable, ReadLabels, RowInv
<1>4. Stable(s)' /\ Held(s)'
  BY <1>1, <1>2, <1>3 DEF Stable, Held, CreateLabels, DecideLabels, ReadLabels
<1>5. \A o \in Others(s) : Exclusive(s, o)'
  BY <1>1, <1>2 DEF Inv, Exclusive, OnlySession
<1> QED
  BY <1>1, <1>2, <1>4, <1>5, LocalStep
-------------------------------------------------------------------------------
(* The commits *)

\* What a commit on proposal p leaves alone.
OnlyProposal(p) ==
  /\ DOMAIN proposals' = DOMAIN proposals \cup {p}
  /\ \A q \in DOMAIN proposals \ {p} :
       proposals'[q] = proposals[q] /\ decisions'[q] = decisions[q] /\ trail'[q] = trail[q]

LEMMA ProposeFacts ==
  ASSUME Inv, NEW s \in Session, CommitProposal(s)
  PROVE  /\ Propose(held[s], req[s].tenant, req[s].job, req[s].risk, req[s].gated)
         /\ req[s] \in CreateRequest /\ held[s] \in ProposalId
         /\ OnlyProposal(held[s]) /\ held[s] \notin DOMAIN proposals
         /\ ProposalTypeOK' /\ RowInv(held[s])'
<1> DEFINE p == held[s]
           r == req[s]
           row == NewProposal(r.tenant, r.job, r.risk, r.gated)
<1>1. ProposalTypeOK /\ Stable(s) /\ Held(s) /\ pc[s] = "commit_proposal"
  BY DEF Inv, CommitProposal
<1>2. /\ r \in CreateRequest /\ p \in ProposalId /\ p \notin DOMAIN proposals
      /\ JobOwner[r.job] = r.tenant /\ Permitted(r.risk, r.gated)
  BY <1>1 DEF Stable, Held, CreateLabels
<1>3. Propose(p, r.tenant, r.job, r.risk, r.gated)
  BY <1>2 DEF CommitProposal, Propose
<1>4. /\ proposals' = [q \in DOMAIN proposals \cup {p} |-> IF q = p THEN row ELSE proposals[q]]
      /\ trail' = [trail EXCEPT ![p] = <<[type |-> "created"]>>]
      /\ decisions' = decisions
  BY DEF CommitProposal, InsertProposal
<1>5. row \in ProposalRow
  BY <1>2 DEF CreateRequest, NewProposal, ProposalRow, ProposalStatus, Verdict
<1>6. decisions[p] = << >>
  BY <1>1, <1>2 DEF Inv
<1>7. ProposalTypeOK'
  BY <1>1, <1>2, <1>4, <1>5 DEF ProposalTypeOK, TrailRow
<1>8. OnlyProposal(p)
  BY <1>1, <1>2, <1>4 DEF OnlyProposal, ProposalTypeOK
<1>9. /\ proposals'[p] = row /\ decisions'[p] = << >> /\ trail'[p] = <<[type |-> "created"]>>
      /\ held'[s] = p
  BY <1>1, <1>2, <1>4, <1>6 DEF CommitProposal, ProposalTypeOK
<1>10. /\ row.risk = r.risk /\ row.gated = r.gated
       /\ row.status = IF r.gated THEN AWAITING ELSE APPROVED
  BY DEF NewProposal
<1>11. row.risk = HIGH => row.gated
  BY <1>2, <1>10 DEF Permitted
<1>12. row.gated <=> row.status = AWAITING
  BY <1>10 DEF AWAITING, APPROVED
<1>13. row.status = AWAITING \/ ~row.gated
  BY <1>10
<1> HIDE DEF row
<1>14. Len(trail'[p]) = Len(decisions'[p]) + 1 /\ \A i \in DOMAIN decisions'[p] : FALSE
  BY <1>9
<1>15. RowInv(p)'
  BY <1>9, <1>11, <1>12, <1>13, <1>14, Zenon DEF RowInv
<1> QED
  BY <1>2, <1>3, <1>7, <1>8, <1>15

LEMMA DecideFacts ==
  ASSUME Inv, NEW s \in Session, CommitDecision(s)
  PROVE  /\ Decide(held[s], req[s].verdict, req[s].by)
         /\ req[s] \in DecideRequest
         /\ held[s] \in ProposalId /\ held[s] \in DOMAIN proposals
         /\ OnlyProposal(held[s])
         /\ ProposalTypeOK' /\ RowInv(held[s])'
         /\ decisions[held[s]] = << >>
         /\ decisions'[held[s]] = <<[verdict |-> req[s].verdict, by |-> req[s].by]>>
         /\ proposals'[held[s]] = [proposals[held[s]] EXCEPT !.status = req[s].verdict]
<1> DEFINE p == held[s]
           r == req[s]
           d == [verdict |-> r.verdict, by |-> r.by]
           e == [type |-> r.verdict, actor |-> r.by]
<1>1. ProposalTypeOK /\ Stable(s) /\ Held(s) /\ pc[s] = "commit_decision"
  BY DEF Inv, CommitDecision
<1>2. /\ r \in DecideRequest /\ p \in DOMAIN proposals /\ p \in ProposalId
      /\ proposals[p].gated /\ decisions[p] = << >>
  BY <1>1 DEF Stable, Held, DecideLabels, ReadLabels, ProposalTypeOK
<1>3. RowInv(p)
  BY <1>2 DEF Inv
<1>4. proposals[p].status = AWAITING /\ Len(trail[p]) = 1
  BY <1>2, <1>3 DEF RowInv
<1>5. Decide(p, r.verdict, r.by)
  BY <1>2, <1>4 DEF CommitDecision, Decide
<1>6. /\ proposals' = [proposals EXCEPT ![p].status = r.verdict]
      /\ decisions' = [decisions EXCEPT ![p] = Append(@, d)]
      /\ trail' = [trail EXCEPT ![p] = Append(@, e)]
  BY DEF CommitDecision, InsertDecision
<1>7. d \in DecisionRow /\ e \in TrailRow /\ r.verdict \in Verdict
  BY <1>2 DEF DecideRequest, DecisionRow, TrailRow
<1>8. /\ proposals'[p] = [proposals[p] EXCEPT !.status = r.verdict]
      /\ decisions'[p] = Append(decisions[p], d)
      /\ trail'[p] = Append(trail[p], e)
      /\ trail[p] \in Seq(TrailRow) /\ proposals[p] \in ProposalRow
  BY <1>1, <1>2, <1>6 DEF ProposalTypeOK
<1> HIDE DEF d, e
<1>9. decisions'[p] = <<d>>
  BY <1>2, <1>8
<1>10. Len(trail'[p]) = 2 /\ trail'[p][2] = e
  BY <1>4, <1>7, <1>8
<1>11. /\ proposals'[p].risk = proposals[p].risk
       /\ proposals'[p].gated = proposals[p].gated
       /\ proposals'[p].status = r.verdict
       /\ r.verdict # AWAITING
  BY <1>7, <1>8 DEF ProposalRow, Verdict, AWAITING, APPROVED, REJECTED
<1>12. ProposalTypeOK'
  <2>1. proposals' \in [DOMAIN proposals' -> ProposalRow] /\ DOMAIN proposals' = DOMAIN proposals
    BY <1>1, <1>2, <1>6, <1>7, <1>8 DEF ProposalTypeOK, ProposalRow, ProposalStatus
  <2>2. decisions' \in [ProposalId -> Seq(DecisionRow)] /\ trail' \in [ProposalId -> Seq(TrailRow)]
    BY <1>1, <1>2, <1>6, <1>7 DEF ProposalTypeOK
  <2> QED
    BY <1>1, <2>1, <2>2 DEF ProposalTypeOK
<1>13. OnlyProposal(p)
  BY <1>1, <1>2, <1>6 DEF OnlyProposal, ProposalTypeOK
<1>14. RowInv(p)'
  <2>1. DOMAIN decisions'[p] = {1} /\ Len(decisions'[p]) = 1 /\ decisions'[p][1] = d
    BY <1>9
  <2>2. d.verdict = r.verdict /\ e = [type |-> d.verdict, actor |-> d.by]
    BY DEF d, e
  <2>3. held'[s] = held[s]
    BY DEF CommitDecision
  <2>4. trail'[p][1 + 1] = [type |-> d.verdict, actor |-> d.by]
    BY <1>10, <2>2
  <2>5. \A i \in DOMAIN decisions'[p] :
          trail'[p][i + 1] = [type |-> decisions'[p][i].verdict, actor |-> decisions'[p][i].by]
    BY <2>1, <2>4
  <2>6. proposals'[p].gated /\ proposals'[p].status # AWAITING
    BY <1>2, <1>11
  <2>7. decisions'[p][1].verdict = proposals'[p].status
    BY <1>11, <2>1, <2>2
  <2>8. Len(trail'[p]) = Len(decisions'[p]) + 1
    BY <1>10, <2>1
  <2> QED
    BY <2>1, <2>3, <2>5, <2>6, <2>7, <2>8 DEF RowInv
<1> QED
  BY <1>2, <1>5, <1>8, <1>9, <1>12, <1>13, <1>14 DEF d

LEMMA CommitStep ==
  ASSUME Inv, NEW s \in Session, CommitProposal(s) \/ CommitDecision(s)
  PROVE  Inv'
<1> DEFINE p == held[s]
<1>1. SessionTypeOK /\ Stable(s)
  BY DEF Inv
<1>2. /\ OnlyProposal(p) /\ ProposalTypeOK' /\ RowInv(p)'
      /\ p \notin DOMAIN proposals \/ decisions[p] = << >>
  BY ProposeFacts, DecideFacts
<1>3. OnlySession(s) /\ SessionTypeOK' /\ req' = req /\ held' = held
      /\ pc'[s] \in {"proposed", "recorded"}
  BY <1>1 DEF CommitProposal, CommitDecision, Goto, OnlySession, Others, SessionTypeOK, Labels, Answers
<1>4. \A q \in DOMAIN proposals' : RowInv(q)'
  <2>1. RowInv(p)'
    BY <1>2
  <2>2. ASSUME NEW q \in DOMAIN proposals \ {p} PROVE RowInv(q)'
    <3>1. RowInv(q)
      BY <2>2 DEF Inv
    <3>2. proposals'[q] = proposals[q] /\ decisions'[q] = decisions[q] /\ trail'[q] = trail[q]
      BY <1>2, <2>2 DEF OnlyProposal
    <3> QED
      BY <3>1, <3>2, Zenon DEF RowInv
  <2>3. \A q \in DOMAIN proposals' : q = held'[s] \/ q \in DOMAIN proposals \ {p}
    BY <1>2, <1>3 DEF OnlyProposal
  <2> QED
    BY <2>1, <2>2, <2>3
<1>12. \A q \in ProposalId \ DOMAIN proposals' : decisions'[q] = << >>
  <2>1. CASE CommitProposal(s)
    <3>1. decisions' = decisions
      BY <2>1 DEF CommitProposal, InsertProposal
    <3> QED
      BY <1>2, <3>1 DEF Inv, OnlyProposal
  <2>2. CASE CommitDecision(s)
    <3>1. decisions' = [decisions EXCEPT ![p] = Append(@, [verdict |-> req[s].verdict, by |-> req[s].by])]
      BY <2>2 DEF CommitDecision, InsertDecision
    <3> QED
      BY <1>2, <3>1 DEF Inv, OnlyProposal, ProposalTypeOK
  <2> QED
    BY <2>1, <2>2
<1>5. \A q \in DOMAIN proposals :
        /\ q \in DOMAIN proposals'
        /\ proposals'[q].tenant = proposals[q].tenant
        /\ proposals'[q].gated = proposals[q].gated
        /\ proposals[q].status # AWAITING => proposals'[q].status # AWAITING
        /\ decisions[q] # << >> => decisions'[q] = decisions[q]
  <2>1. CASE CommitProposal(s)
    BY <2>1, ProposeFacts DEF OnlyProposal
  <2>2. CASE CommitDecision(s)
    <3>1. OnlyProposal(p) /\ p \in DOMAIN proposals /\ decisions[p] = << >>
      BY <2>2, DecideFacts
    <3>2. /\ proposals'[p].tenant = proposals[p].tenant
          /\ proposals'[p].gated = proposals[p].gated
          /\ proposals'[p].status # AWAITING
      <4>1. proposals[p] \in ProposalRow
        BY <3>1 DEF Inv, ProposalTypeOK
      <4>2. /\ proposals'[p] = [proposals[p] EXCEPT !.status = req[s].verdict]
            /\ req[s] \in DecideRequest
        BY <2>2, DecideFacts
      <4> QED
        BY <4>1, <4>2 DEF ProposalRow, DecideRequest, Verdict, AWAITING, APPROVED, REJECTED
    <3> QED
      BY <3>1, <3>2 DEF OnlyProposal
  <2> QED
    BY <2>1, <2>2
<1>6. \A o \in Others(s) : Stable(o)'
  <2> TAKE o \in Others(s)
  <2>1. Stable(o) /\ pc'[o] = pc[o] /\ req'[o] = req[o] /\ held'[o] = held[o]
    BY <1>3 DEF Inv, Others, OnlySession
  <2>2. (pc[o] = "recorded" =>
           decisions[held[o]] = <<[verdict |-> req[o].verdict, by |-> req[o].by]>>)'
    BY <1>5, <2>1 DEF Stable, ReadLabels
  <2> QED
    BY <1>5, <2>1, <2>2 DEF Stable
<1>7. Stable(s)'
  <2>1. CASE CommitProposal(s)
    <3>1. pc'[s] = "proposed"
      BY <1>1, <2>1 DEF CommitProposal, Goto, SessionTypeOK
    <3> QED
      BY <3>1 DEF Stable, CreateLabels, DecideLabels, ReadLabels
  <2>2. CASE CommitDecision(s)
    <3>1. pc[s] = "commit_decision" /\ pc'[s] = "recorded"
      BY <1>1, <2>2 DEF CommitDecision, Goto, SessionTypeOK
    <3>2. /\ req[s] \in DecideRequest /\ p = req[s].proposal /\ p \in DOMAIN proposals
          /\ proposals[p].tenant = req[s].tenant /\ proposals[p].gated
      BY <1>1, <3>1 DEF Stable, DecideLabels, ReadLabels
    <3>3. decisions'[p] = <<[verdict |-> req[s].verdict, by |-> req[s].by]>>
      BY <2>2, DecideFacts
    <3> QED
      BY <1>3, <1>5, <3>1, <3>2, <3>3 DEF Stable, CreateLabels, DecideLabels, ReadLabels
  <2> QED
    BY <2>1, <2>2
<1>8. \A o \in Session : Held(o)'
  <2>1. Held(s)'
    BY <1>3 DEF Held
  <2>2. ASSUME NEW o \in Others(s), pc[o] = "commit_proposal"
        PROVE  held[o] \notin DOMAIN proposals'
    <3>1. held[o] \notin DOMAIN proposals
      BY <2>2 DEF Inv, Held, Others
    <3>2. held[o] # p
      BY <2>2, <3>1, DecideFacts DEF Inv, Exclusive, CommitProposal
    <3> QED
      BY <1>2, <3>1, <3>2 DEF OnlyProposal
  <2>3. ASSUME NEW o \in Others(s), pc[o] = "commit_decision"
        PROVE  decisions'[held[o]] = << >>
    <3>1. held[o] \in DOMAIN proposals /\ decisions[held[o]] = << >>
      BY <2>3 DEF Inv, Stable, Held, Others, ReadLabels
    <3>2. held[o] # p
      BY <2>3, <3>1, ProposeFacts DEF Inv, Exclusive, CommitDecision
    <3> QED
      BY <1>2, <3>1, <3>2 DEF OnlyProposal
  <2> QED
    BY <1>3, <2>1, <2>2, <2>3 DEF Held, OnlySession, Others
<1>9. \A o \in Others(s) : Exclusive(s, o)' /\ Exclusive(o, s)'
  <2> TAKE o \in Others(s)
  <2>1. ASSUME pc'[s] = "recorded", pc[o] = "recorded" PROVE held[s] # held[o]
    <3>1. decisions[p] = << >>
      BY <1>1, <2>1, DecideFacts DEF CommitProposal, CommitDecision, Goto, SessionTypeOK
    <3>2. decisions[held[o]] = <<[verdict |-> req[o].verdict, by |-> req[o].by]>>
      BY <2>1 DEF Inv, Stable, Others
    <3>3. \A d : <<d>> # << >>
      OBVIOUS
    <3> QED
      BY <3>1, <3>2, <3>3
  <2> QED
    BY <1>3, <2>1 DEF Exclusive, OnlySession
<1>10. \A q \in Others(s) : \A o \in Others(q) : o # s => Exclusive(q, o)'
  BY <1>3 DEF Inv, Exclusive, OnlySession, Others
<1>11. \A o \in Session : o = s \/ o \in Others(s)
  BY DEF Others
<1> QED
  BY <1>2, <1>3, <1>4, <1>6, <1>7, <1>8, <1>9, <1>10, <1>11, <1>12 DEF Inv
-------------------------------------------------------------------------------
(* The theorems *)

LEMMA InvInit == Init => Inv
<1> SUFFICES ASSUME Init PROVE Inv
  OBVIOUS
<1>1. ProposalTypeOK /\ \A p \in DOMAIN proposals : RowInv(p)
  BY DEF Init, ProposalInit, ProposalTypeOK
<1>2. \A p \in ProposalId \ DOMAIN proposals : decisions[p] = << >>
  BY DEF Init, ProposalInit
<1>3. SessionTypeOK /\ \A s \in Session : pc[s] = "idle"
  BY DEF Init, SessionTypeOK, Labels
<1>4. \A s \in Session : Stable(s) /\ Held(s)
  BY <1>3 DEF Stable, Held, CreateLabels, DecideLabels, ReadLabels
<1>5. \A s \in Session : \A o \in Others(s) : Exclusive(s, o)
  BY <1>3 DEF Exclusive
<1> QED
  BY <1>1, <1>2, <1>3, <1>4, <1>5 DEF Inv

LEMMA InvStep == Inv /\ [Next]_vars => Inv'
<1> SUFFICES ASSUME Inv, [Next]_vars PROVE Inv'
  OBVIOUS
<1>1. ASSUME NEW s \in Session, Step(s) PROVE Inv'
  <2>1. CASE ReadJob(s)           BY <2>1, ReadJobStep
  <2>2. CASE ReadProposal(s)      BY <2>2, ReadProposalStep
  <2>3. CASE UpdateProposal(s)    BY <2>3, UpdateProposalStep
  <2>4. CASE InsertDecisionRow(s) BY <2>4, InsertDecisionRowStep
  <2>5. CASE CommitProposal(s) \/ CommitDecision(s)
    BY <2>5, CommitStep
  <2>6. CASE Respond(s)           BY <2>6, EndStep DEF Respond
  <2> QED
    BY <1>1, <2>1, <2>2, <2>3, <2>4, <2>5, <2>6 DEF Step
<1>2. ASSUME NEW s \in Session, Abort(s) PROVE Inv'
  BY <1>2, EndStep DEF Abort
<1>3. ASSUME NEW s \in Session, ArriveCreate(s) \/ ArriveDecide(s) PROVE Inv'
  BY <1>3, ArriveStep
<1>4. CASE UNCHANGED vars
  <2>1. /\ proposals' = proposals /\ decisions' = decisions /\ trail' = trail
        /\ pc' = pc /\ req' = req /\ held' = held
    BY <1>4 DEF vars
  <2>2. ProposalTypeOK' /\ SessionTypeOK' /\ \A p \in DOMAIN proposals' : RowInv(p)'
    BY <2>1 DEF Inv, ProposalTypeOK, SessionTypeOK, RowInv
  <2>3. \A s \in Session : Stable(s)' /\ Held(s)'
    BY <2>1 DEF Inv, Stable, Held
  <2>4. \A s \in Session : \A o \in Others(s) : Exclusive(s, o)'
    BY <2>1 DEF Inv, Exclusive
  <2> QED
    BY <2>1, <2>2, <2>3, <2>4 DEF Inv
<1> QED
  BY <1>1, <1>2, <1>3, <1>4 DEF Next

\* The invariant holds in every reachable state.
THEOREM ProposalSafety == Spec => []Inv
BY InvInit, InvStep, PTL DEF Spec

\* Every variable keeps the values its table column or session field admits.
THEOREM TypeCorrect == Spec => []TypeOK
<1>1. Inv => TypeOK
  BY DEF Inv, SessionTypeOK, TypeOK
<1> QED
  BY <1>1, ProposalSafety, PTL

\* However many decisions overlap (decide_proposal), a proposal has at most one, its
\* status is that of the decision, and no high-risk proposal is approved without one.
THEOREM DecisionsAreConsistent == Spec => []DecisionAgrees
<1>1. ASSUME Inv, NEW p \in DOMAIN proposals,
             proposals[p].risk = HIGH, proposals[p].status = APPROVED
      PROVE  \E i \in DOMAIN decisions[p] : decisions[p][i].verdict = APPROVED
  <2>1. Len(decisions[p]) = 1 /\ decisions[p][1].verdict = APPROVED
    BY <1>1 DEF Inv, RowInv, AWAITING, APPROVED
  <2>2. decisions[p] \in Seq(DecisionRow)
    BY <1>1 DEF Inv, ProposalTypeOK
  <2> QED
    BY <2>1, <2>2
<1>2. Inv => DecisionAgrees
  BY <1>1 DEF Inv, DecisionAgrees, RowInv
<1> QED
  BY <1>2, ProposalSafety, PTL

\* The audit trail names who took the decision that stands.
THEOREM DecisionsAreAudited == Spec => []DecisionAudited
<1>1. Inv => DecisionAudited
  BY DEF Inv, DecisionAudited, RowInv
<1> QED
  BY <1>1, ProposalSafety, PTL

\* A caller told "recorded" holds the only decision; one told "finalized" was late.
THEOREM AnswersAreHonest == Spec => []AnswersHonest
<1>1. Inv => AnswersHonest
  BY DEF Inv, Stable, Exclusive, AnswersHonest, DecideLabels, ReadLabels, Others
<1> QED
  BY <1>1, ProposalSafety, PTL

\* The service implements the approval ledger: the tables change only by a whole
\* Propose or a whole Decide of a proposal that still awaits its decision.
THEOREM ServiceImplementsLedger == Spec => ProposalSpec
<1>1. Init => ProposalInit
  BY DEF Init
<1>2. ASSUME Inv, NEW s \in Session, CommitProposal(s) PROVE ProposalNext
  <2>1. /\ req[s] \in CreateRequest /\ held[s] \in ProposalId
        /\ Propose(held[s], req[s].tenant, req[s].job, req[s].risk, req[s].gated)
    BY <1>2, ProposeFacts
  <2>2. /\ req[s].tenant \in Tenant /\ req[s].job \in JobId
        /\ req[s].risk \in RiskLevel /\ req[s].gated \in BOOLEAN
    BY <2>1 DEF CreateRequest
  <2> QED
    BY <2>1, <2>2 DEF ProposalNext
<1>3. ASSUME Inv, NEW s \in Session, CommitDecision(s) PROVE ProposalNext
  <2>1. /\ req[s] \in DecideRequest /\ held[s] \in ProposalId
        /\ Decide(held[s], req[s].verdict, req[s].by)
    BY <1>3, DecideFacts
  <2>2. req[s].verdict \in Verdict /\ req[s].by \in User
    BY <2>1 DEF DecideRequest
  <2> QED
    BY <2>1, <2>2 DEF ProposalNext
<1>4. ASSUME Inv, [Next]_vars,
             ~\E s \in Session : CommitProposal(s) \/ CommitDecision(s)
      PROVE  UNCHANGED proposalVars
  BY <1>4 DEF Next, ArriveCreate, ArriveDecide, Arrive, Step, ReadJob, ReadProposal,
              UpdateProposal, InsertDecisionRow, Respond, Abort, vars, proposalVars
<1>5. Inv /\ [Next]_vars => [ProposalNext]_proposalVars
  BY <1>2, <1>3, <1>4
<1> QED
  BY <1>1, <1>5, ProposalSafety, PTL DEF Spec, ProposalSpec

\* A stored decision and the status it gave are never changed or removed.
THEOREM DecisionsAreFinal == Spec => DecisionsFinal
<1> DEFINE Final ==
      \A p \in DOMAIN proposals :
        /\ p \in DOMAIN proposals'
        /\ proposals[p].status # AWAITING =>
             proposals'[p] = proposals[p] /\ decisions'[p] = decisions[p]
<1>1. ASSUME Inv, NEW s \in Session, CommitProposal(s) PROVE Final
  BY <1>1, ProposeFacts DEF OnlyProposal
<1>2. ASSUME Inv, NEW s \in Session, CommitDecision(s) PROVE Final
  BY <1>2, DecideFacts DEF OnlyProposal, Decide
<1>3. ASSUME Inv, [Next]_vars,
             ~\E s \in Session : CommitProposal(s) \/ CommitDecision(s)
      PROVE  Final
  BY <1>3 DEF Next, ArriveCreate, ArriveDecide, Arrive, Step, ReadJob, ReadProposal,
              UpdateProposal, InsertDecisionRow, Respond, Abort, vars, proposalVars
<1>4. Inv /\ [Next]_vars => Final
  BY <1>1, <1>2, <1>3
<1> QED
  BY <1>4, ProposalSafety, PTL DEF Spec, DecisionsFinal
===============================================================================
