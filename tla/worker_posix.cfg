SPECIFICATION FairSpec
CONSTANTS
  j1 = j1
  j2 = j2
  j3 = j3
  NoJob = NoJob
  Jobs <- ThreeJobs
  FrameLimits <- Limits
  LatchedSignals = FALSE
  UsesPause = TRUE
  CreateMayFail = TRUE
INVARIANTS
  TypeOK
  QueueHoldsQueued
  RunsInOrder
  StoppedIsQuiet
PROPERTIES
  CancelsOnlyOnRequest
  KeepsBatches
  CallsReturnUnlessMissed
CHECK_DEADLOCK FALSE
