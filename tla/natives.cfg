SPECIFICATION NativesSpec
CONSTANTS
  o1 = o1
  o2 = o2
  o3 = o3
  r1 = r1
  r2 = r2
  NULL = NULL
  Objects <- ThreeObjects
  Requests <- OneRequest
  Types <- CurlAndLists
  CurlType = "curl"
  MaxHandles = 3
  MaxDepth = 2
SYMMETRY NativeSymmetry
INVARIANTS
  NativesTypeOK
  NumbersNameCallers
  OnlyPluginsPullAway
  OptionsTyped
  FreeListExact
  ResolvesToLive
  LoopLeavesNoPair
PROPERTIES
  KeepsStore
CHECK_DEADLOCK FALSE
