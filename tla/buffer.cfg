SPECIFICATION Spec
CONSTANTS
  c1 = c1
  c2 = c2
  SpecialBytes = TRUE
  JunkLengths <- SomeJunk
  NUL = NUL
  Junk = Junk
  Curls <- TwoCurls
  BufferSize = 3
  ChunkSizes <- Lengths
  MaxTransfers = 2
  MaxReceived = 5
  MaxDepth = 2
INVARIANTS
  TypeOK
  CountsOwnBytes
  PlainBytesArrive
  BytesInOrder
  LeftoversExplained
  DamageNeedsOverflow
SYMMETRY Symmetry
CHECK_DEADLOCK FALSE
