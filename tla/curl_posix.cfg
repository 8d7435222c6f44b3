SPECIFICATION CurlSpec
CONSTANTS
  j1 = j1
  j2 = j2
  j3 = j3
  NoJob = NoJob
  Jobs <- ThreeCalls
  FrameLimits <- NoLimits
  LatchedSignals = FALSE
  UsesPause = FALSE
  CreateMayFail = TRUE
  DetachesLoaded = TRUE
SYMMETRY CallSymmetry
INVARIANTS
  CurlTypeOK
  UsesLiveObjects
  HasOneOwner
CHECK_DEADLOCK FALSE
