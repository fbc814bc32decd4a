SPECIFICATION WbSpec
CONSTANTS
  Browsers = {a, b}
  Tabs = {"t1", "t2", "t3"}
  Names = {"n"}
  FirstTabs = {"t1", "t2"}
  Stored = FALSE
  MaxRetries = 1
  MaxEdits = 1
  MaxFailures = 1
CHECK_DEADLOCK FALSE
PROPERTY OnlyClosedTabsGo
