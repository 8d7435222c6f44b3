SPECIFICATION Spec
CONSTANTS
  c1 = c1
  c2 = c2
  SpecialBytes = FALSE
  JunkLengths <- NoJunk
  NUL = NUL
  Junk = Junk
  Curls <- TwoCurls
  BufferSize = 3
  ChunkSizes <- Lengths
  MaxTransfers = 3
  MaxReceived = 5
  MaxDepth = 2
INVARIANTS
  ResponseIsOwn
CHECK_DEADLOCK FALSE
