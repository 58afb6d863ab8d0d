SPECIFICATION CalendarSpec
CONSTANTS
  FirstYear = 1970
  LastYear = 2030
  Minutes <- MCMinutes
  Offsets <- MCOffsets
CHECK_DEADLOCK FALSE
INVARIANTS MatchesVectorize
