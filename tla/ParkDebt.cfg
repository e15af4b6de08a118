\* One box: the code's three tries of a dead man's OFF, two failing calls
SPECIFICATION ParkSpec
CONSTANTS
  Tries = 3
  MaxFaults = 2
INVARIANTS
  BooksAreTrue
  NoRefusalLeft
PROPERTIES
  DeadManBehindNo
