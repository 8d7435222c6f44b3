SPECIFICATION FairSpec
CONSTANTS
  h1 = h1
  h2 = h2
  NoHandle = NoHandle
  Handles <- TwoHandles
INVARIANTS
  TypeOK
  TouchesLiveHandle
  StateTellsPlace
PROPERTIES
  RunsToRelease
CHECK_DEADLOCK FALSE
