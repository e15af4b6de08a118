\* Two chargers and two phases; any reading, any car and the enforcement switched at will; the real cycle counts.
SPECIFICATION Spec
CONSTANTS
  Phases = {"L1", "L3"}
  Chargers = {"c1", "c2"}
  Limit = 5
  MinA = 2
  MaxA = 4
  RecoveryMargin = 2
  RequiredCycles = 3
  FirstCycles = 2
INVARIANTS HeadroomShared
PROPERTIES RecoveryEarned ChargersFirst KeepsLatch
