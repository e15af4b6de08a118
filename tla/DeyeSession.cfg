\* Every command at every cycle, three failing calls and two restarts anywhere; observer mode comes and goes.
SPECIFICATION Spec
CONSTANTS
  Plans = {"user1", "user2"}
  NoSnapshot = NoSnapshot
  MaxFaults = 3
  MaxKills = 2
INVARIANT ChargesOnlyOnPlan
PROPERTIES UndoesItself HandedBack
