SPECIFICATION SpecUnload
CONSTANTS
  N = 2
  MaxW = 1
  Dwell = 2
  Retries = 1
  Faults = {"limit", "sale", "orphan"}
INVARIANTS
  RecordsAgree
  HoldLands
  SaleNotCapped
PROPERTY
  QuietAfterStop
