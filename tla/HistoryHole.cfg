SPECIFICATION ThSpec
CONSTANTS
  Page = 2
  MaxTotal = 6
  MaxAsked = 3
  MaxFlying = 2
CHECK_DEADLOCK FALSE
INVARIANTS LinesHaveNoHole
