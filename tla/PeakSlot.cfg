\* A slot of six beats from its start to its end, and the ends of its neighbours; cycles on time, late,
\* past the step cap and over a whole slot; the clock stops at Horizon.
SPECIFICATION SlotSpec
CONSTANTS
  SlotLen = 6
  MaxStep = 2
  Target = 1
  CapFactor = 3
  Draws = {0, 1, 3}
  Most = 3
  Gaps = {1, 2, 3, 7}
  Start = 5
  Horizon = 13
  MaxCrashes = 1
  None = None
PROPERTIES SlotLands BooksTheSlot
CHECK_DEADLOCK FALSE
