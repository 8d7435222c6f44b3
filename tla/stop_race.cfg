SPECIFICATION FairSpec
CONSTANTS
  j1 = j1
  j2 = j2
  j3 = j3
  NoJob = NoJob
  Jobs <- TwoJobs
  FrameLimits <- Limits
  LatchedSignals = TRUE
  UsesPause = FALSE
  CreateMayFail = FALSE
PROPERTIES
  CallsReturn
CHECK_DEADLOCK FALSE
