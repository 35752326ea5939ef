\* Every short pattern against every short path, and files whose groups and rules
\* come in every order.
SPECIFICATION MCSpec
CONSTANTS
  Octet = {"/", "a", "b", "r", "?"}
  Star = "*"
  File <- MCFile
  Target <- MCTarget
  RobotsPath <- MCRobotsPath
INVARIANTS
  MatchesTrue
  DecisionTrue
PROPERTIES
  Decides
