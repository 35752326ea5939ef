\* Three overlapping requests about one proposal, seen from two tenants.
SPECIFICATION Spec
CONSTANTS
  Tenant = {t1, t2}
  JobId = {j1, j2}
  JobOwner <- SomeJobOwner
  ProposalId = {p1}
  User = {u1, u2}
  Session = {s1, s2, s3}
  None = None
SYMMETRY Interchangeable
INVARIANTS
  DecisionAgrees
  DecisionAudited
  AnswersHonest
PROPERTIES
  DecisionsFinal
  ProposalSpec
