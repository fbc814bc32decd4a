SPECIFICATION PageSpec
CONSTANTS
  Jobs = {j1, j2}
  UpFiles = {f1}
  Parts = 3
  Attempts = 2
  MaxIds = 2
  MaxLost = 2
  Uploads = {u1, u2, u3}
  Size = 2
  Sockets = {s1}
  MaxSeq = 2
  MaxEpochs = 2
  MaxEvents = 1
  Dirs = {d1, d2}
  Queries = {"q"}
  MaxBack = 1
  MaxWalk = 4
  Files = {f1, f2}
  Images = {f1}
  NoKey = NoKey
  MaxOpen = 1
  MaxAsked = 3
  Windows = {w1, w2}
  Panes <- SplitAndShells
  MaxTurns = 2
  MaxFrames = 3
  Page = 2
  MaxTotal = 6
  MaxPages = 3
  MaxFlying = 2
  Spans = {"24h", "7d"}
  MaxTries = 2
  Strip = {t1, t2, t3}
  NoTab = NoTab
  MaxEdits = 2
  Tabs = {t1, t2}
CHECK_DEADLOCK FALSE
INVARIANTS
  UploadsEndWhole
  FilesShowTheirOwn
  TurnInterruptsOnce
  SelectionHolds
  UsageIsAwaited
PROPERTIES
  WholeStaysWhole
  TabStripObeys
