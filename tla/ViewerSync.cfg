SPECIFICATION FairSpec
CONSTANTS
  Grids = {wide, narrow}
  QCap = 3
  Reserve = 1
  MaxSeq = 3
  MaxResizes = 1
  MaxSizes = 3
  MaxAnswers = 1
  MaxReattaches = 1
  MaxResyncs = 1
CHECK_DEADLOCK FALSE
INVARIANTS NothingMissed GridAsDrawn
PROPERTY OutputReachesViewer
