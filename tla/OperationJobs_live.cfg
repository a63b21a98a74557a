SPECIFICATION FairSpec
CONSTANTS
  Jobs = {j1, j2, j3}
  NoJob = NoJob
  Concurrency = 1
  WriteFaults = 0
  ReadFaults = 0
  Crashes = 0
INVARIANTS TypeOK RecordsAgree
PROPERTIES HeartbeatEnds BoardLive
CHECK_DEADLOCK FALSE
