\* One on/off load: every fault, minimum run and pause of two cycles
SPECIFICATION Spec
CONSTANTS
  MinOn = 2
  MinOff = 2
  Grace = 1
  Cool = 1
  Faults = {"call", "late", "dark", "restart"}
PROPERTIES
  UsersLoadStays
  ContactorRests
  RunsEnd
