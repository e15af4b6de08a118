SPECIFICATION Spec
CONSTANTS
  Wishes <- AllWishes
  Observations <- AllSights
  Steps <- EachTick
  ParkCycles = 2
  IdleThreshold = 2
  WarRounds = 2
  Backoff = 1
  MaxFactor = 4
  QuietReset = 2
  Dwell = 2
  MinOn = 2
  MinOff = 2
  MaxAttempts = 2
  EnableRetry = 2
  Heartbeat = 1
  Rebuilds = TRUE
INVARIANTS
  CeasefireHolds
  OffIsHandsOff
  WatchdogFed
PROPERTIES
  StopReturns
  EnableProbed
