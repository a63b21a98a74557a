SPECIFICATION Spec
CONSTANTS
  Jobs = {j1, j2, j3}
  NoJob = NoJob
  Concurrency = 2
  WriteFaults = 2
  ReadFaults = 1
  Crashes = 1
INVARIANTS SuccessIsReal
PROPERTIES StartsOnce BoardSafe
CHECK_DEADLOCK FALSE
