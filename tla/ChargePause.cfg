\* Two modes, two durations, three presses; the dialog, the service and a cycle during a reload.
SPECIFICATION FairPauseSpec
CONSTANTS
  Modes = {"pv", "max"}
  Durations = {1, 2}
  MaxPresses = 3
  Holders = {"dialog", "service"}
  InFlight = TRUE
  None = None
PROPERTIES PauseIsPaidOnce PauseEnds
