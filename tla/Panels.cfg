SPECIFICATION PanelsSpec
CONSTANTS
  Rows = 2
  Cols = 1
  MaxLines = 3
  MaxTrimmed = 1
  NoAnchor = NoAnchor
  Surfaces = {s1, s2}
  InTmux = s1
  Panes = {p1, p2}
  Together = FALSE
  Lists = {"tabs"}
  Units = {u1, u2}
  MaxTurns = 2
  Sessions = {s1, s2}
  Places = {p1, p2}
  NoData = NoData
  MaxAsks = 2
  MaxMoves = 2
  Boxes = {b1, b2}
  Entries = {e1}
  Peers = {m1, m2}
  Registered = {m1}
  Texts = {t1, t2}
  Empty = Empty
  Absent = Absent
  MaxArrays = 3
  MaxSaves = 1
  MaxFailures = 1
  Lines = 1
  Diagrams = 2
  Pages = 2
  MaxReads = 1
  MaxThemes = 3
CHECK_DEADLOCK FALSE
INVARIANTS
  DrawersRight
  OverviewHolds
  StoreHolds
  
PROPERTIES
  TouchesHold
