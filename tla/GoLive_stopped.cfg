SPECIFICATION FairSpec
CONSTANTS
  None = None
  Runs = 1
  Attempts = 1
  Faults = 0
  Others = 0
INVARIANTS ExistingIsAlwaysSaved
CHECK_DEADLOCK FALSE
