\* Overlapping requests on each group of rows that bear on each other.
SPECIFICATION MCSpec
CONSTANTS
  Id <- MCId
  Text = {"a", "b"}
  Limit = {1}
  Offset = {1}
  Session = {s1, s2}
INVARIANTS
  TablesConsistent
  ReadsHold
PROPERTIES
  ChangesAccounted
  TenantIsolation
  RequestsEnd
