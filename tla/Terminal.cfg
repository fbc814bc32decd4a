SPECIFICATION TerminalSpec
CONSTANTS
  MaxAttempts = 2
  QueueLimit = 1
  MaxConns = 2
  MaxEpoch = 2
  MaxWrites = 1
  Sizes = {1, 2}
  MaxTyped = 2
  Pastes = {1}
  PasteFiles = {f1, f2}
  MaxRetries = 2
  MaxQueue = 2
  Keys = {"a", "b"}
  MaxPresses = 4
  MaxPending = 2
  MaxTokens = 1
  MaxBuffer = 2
  MaxSends = 2
  MaxLinks = 2
  MaxViews = 2
  MaxQueued = 1
  MaxEvents = 5
CHECK_DEADLOCK FALSE
INVARIANTS
  SettledMeansShown
  SocketIsKept
  BelievedVoteHeld
  EnteredOnce
  ScreenIsCurrent
PROPERTIES
  RestoreSettles
