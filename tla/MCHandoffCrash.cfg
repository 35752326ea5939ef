\* Three crashes at any steps, gates that may fail or leave files behind.
SPECIFICATION FairSpec
CONSTANTS
  MAX_FIX_ROUNDS = 2
  Modes <- AllModes
  Faults <- CrashOnly
  MaxFaults = 3
  MaxFixes = 3
  MaxRequeues = 0
  FlakyGates = TRUE
  None = None
INVARIANTS
  CommittedWorkKept
  ChildrenAccounted
PROPERTIES
  CommittedWorkPublished
