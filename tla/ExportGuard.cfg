\* Houses that are calm, and houses where verbs fail, switches flip and kills fall anywhere. The real holds (120 s and 300 s in 10 s cycles).
SPECIFICATION Spec
CONSTANTS
  EngageHold = 12
  ReleaseHold = 30
  Environments <- CalmAndFaulty
INVARIANTS CutIsRemembered CutIsOwned
PROPERTIES OnlyOwnCutIsReleased MeterReopens
