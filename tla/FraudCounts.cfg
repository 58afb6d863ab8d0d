SPECIFICATION FairSpec
CONSTANTS
  MaxQueries = 7
  MaxCPU = 4
CHECK_DEADLOCK FALSE
INVARIANT WrittenOnce
PROPERTY Returns
