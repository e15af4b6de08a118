SPECIFICATION LoopSpec
CONSTANTS
  Wishes <- AllWishes
  Observations <- AllSights
  Steps <- EachTick
  Setups <- Chargers
  ParkCycles = 2
  IdleThreshold = 2
  WarRounds = 1
  Backoff = 2
  MaxFactor = 2
  QuietReset = 3
  Dwell = 2
  MinOn = 3
  MinOff = 2
  MaxAttempts = 1
  EnableRetry = 1
  Heartbeat = 1
  Rebuilds = FALSE
PROPERTIES
  KeepsPromise
  OffStopsTheCar
