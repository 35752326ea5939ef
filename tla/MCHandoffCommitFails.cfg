\* One command fails, no crash.
SPECIFICATION Spec
CONSTANTS
  MAX_FIX_ROUNDS = 1
  Modes <- OnceOnly
  Faults <- ErrorOnly
  MaxFaults = 1
  MaxFixes = 2
  MaxRequeues = 0
  FlakyGates = FALSE
  None = None
INVARIANTS
  FailureAfterCommitResumes
