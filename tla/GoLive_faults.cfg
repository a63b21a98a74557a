SPECIFICATION FairSpec
CONSTANTS
  None = None
  Runs = 2
  Attempts = 2
  Faults = 1
  Others = 2
INVARIANTS TypeOK ExistingIsSpared InOrder
PROPERTIES SuccessIsServed EveryRunEnds
CHECK_DEADLOCK FALSE
