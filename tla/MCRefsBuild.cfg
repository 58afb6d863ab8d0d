SPECIFICATION Spec
CONSTANTS
  QScale = 4
  Inf = 2000
  NoId = 100
  leafSize = 1
  MaxRefs = 5
  Records <- MCRecords
CHECK_DEADLOCK FALSE
INVARIANTS TypeOK WellFormed
