SPECIFICATION FairSpec
CONSTANTS
  Grids = {wide, narrow}
  NoGrid = NoGrid
  RingCap = 2
  SubCap = 2
  Reserve = 1
  WireCap = 2
  EvCap = 2
  MaxAttempts = 2
  MaxSeq = 3
  MaxChunk = 2
  MaxResizes = 1
  MaxDrops = 1
CHECK_DEADLOCK FALSE
INVARIANTS
  SeamFlagged
  ResumePointTruthful
  ExitAfterLastByte
PROPERTIES
  OutputOnItsGrid
  EveryByteArrives
  ExitReported
