SPECIFICATION FairSpec
CONSTANTS
  job1 = job1
  job2 = job2
  release1 = release1
  capsule = capsule
  None = None
  Builds = {job1, job2, release1}
  Releases = {release1}
  Outputs = {capsule}
  OutputOf <- OneOutput
  Asks <- Wishes
  Unready = {job2}
  Threads = 1
  Faults = 1
INVARIANTS TypeOK CapsulesAreSound
PROPERTIES SuccessIsOwn CapsuleKept QueuedIsClosed
CHECK_DEADLOCK FALSE
