\* Two troubles of any kind in every mode.
SPECIFICATION Spec
CONSTANTS
  MAX_FIX_ROUNDS = 1
  Modes <- AllModes
  Faults <- AllFaults
  MaxFaults = 2
  MaxFixes = 2
  MaxRequeues = 1
  FlakyGates = TRUE
  None = None
INVARIANTS
  StrayNeverCommitted
  OnlyOwnCommitsPublished
  CheckpointsTrue
  MergedWasReviewed
