SPECIFICATION CcSpec
CONSTANTS
  Sockets = {s1}
  MaxSeq = 2
  MaxEpochs = 2
  MaxEvents = 1
CHECK_DEADLOCK FALSE
INVARIANT SnapshotFillsHistory
