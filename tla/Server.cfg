SPECIFICATION ServerSpec
CONSTANTS
  RingCap = 4
  MaxSeq = 14
  MaxChunk = 6
  c1 = c1
  c2 = c2
  Clients <- TwoClients
  Windows <- TwoWindows
  NoticeCap = 1
  MaxAsks = 2
  Cap = 2
  MaxWrite = 2
  KfWindow = 4
  TermSizes = {wide, narrow}
  NoModel = NoModel
  MaxBytes = 3
  MaxResizes = 1
  MaxAttaches = 2
  MaxSnaps = 2
  v1 = v1
  v2 = v2
  Conns <- TwoConns
  NoConn = none
  Attacher = attacher
  WindowSizes = {1, 2}
  MaxSizes = 1
  MaxDrops = 1
  Ids <- OneSession
  EvCap = 1
  MaxSubsLost = 1
  MaxFails = 1
  MaxUnread = 1
CHECK_DEADLOCK FALSE
SYMMETRY Alike
INVARIANTS
  TypesHold
  ReadFromExact
  KnowsItsGrid
  FitsEveryWindow
  RestoreIsWhole
  NewestWindowRules
  ServerSeesDaemon
PROPERTIES
  KeepsRecentBytes
  ObserverMovesNothing
