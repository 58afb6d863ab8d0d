SPECIFICATION Spec
CONSTANTS
  QScale = 4
  Inf = 2000
  NoId = 100
  K = 3
  MaxRefs = 5
  LaneHalf = 9
  Tables <- MCTables
  Queries <- MCQueries
CHECK_DEADLOCK FALSE
INVARIANT KernelsAgree
PROPERTIES CountsNearest Answers
