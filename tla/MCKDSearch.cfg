SPECIFICATION FairSpec
CONSTANTS
  QScale = 4
  Inf = 2000
  NoId = 100
  K = 2
  leafSize = 1
  mixed = 3
  tie = 4
  Indexes <- MCIndexes
  Queries <- MCQueries
CHECK_DEADLOCK FALSE
INVARIANTS TypeOK Bookkeeping Covered NoPanic Exact
PROPERTIES WorstNeverGrows CountsNearest
