SPECIFICATION CurlFairSpec
CONSTANTS
  j1 = j1
  j2 = j2
  j3 = j3
  NoJob = NoJob
  Jobs <- ThreeCalls
  FrameLimits <- NoLimits
  LatchedSignals = TRUE
  UsesPause = FALSE
  CreateMayFail = FALSE
  DetachesLoaded = FALSE
INVARIANTS
  SleepsOnlyWhenIdle
  TransfersInsideInit
  UnloadFreesAll
PROPERTIES
  AnswersNewest
  KeepsAsync
  RequestsEnd
CHECK_DEADLOCK FALSE
