SPECIFICATION TabsSpec
CONSTANTS
  Browsers = {a, b}
  Tabs = {"t1", "t2"}
  Names = {"n"}
  FirstTabs = {"t1"}
  Stored = TRUE
  MaxRetries = 1
  MaxEdits = 1
  MaxFailures = 1
  TabNames = {t1, t2, p}
  Sessions = {s1, s2, r}
  PeerTabs = {p}
  PeerSessions = {r}
  MaxCalls = 1
  MaxEvents = 2
CHECK_DEADLOCK FALSE
SYMMETRY BrowserSymmetry
INVARIANTS
  ClosedStaysClosed
  RestShowsStored
  QuietReconcileRepairs
PROPERTIES
  TabsAreKept
