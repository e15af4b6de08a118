\* Any peak, any guard that keeps its promise, users at every switch, one failing call; the registry rebuilds the rows at any time.
SPECIFICATION FairSpec
CONSTANTS
  Phases = {"L3"}
  pump = pump
  kettle = kettle
  spa = spa
  Loads = {pump, kettle, spa}
  Theirs = {spa}
  Sits <- MCSits
  Priority <- MCPriority
  MaxFaults = 1
INVARIANT DebtKept
PROPERTIES TakenStaysDown ComesBack
