SPECIFICATION Spec
CONSTANTS
  j1 = j1
  j2 = j2
  j3 = j3
  NoJob = NoJob
  Jobs <- TwoJobs
  FrameLimits <- Limits
  LatchedSignals = FALSE
  UsesPause = FALSE
  CreateMayFail = FALSE
INVARIANTS
  SleepsOnlyWhenIdle
CHECK_DEADLOCK FALSE
