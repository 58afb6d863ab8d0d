SPECIFICATION CalendarSpec
CONSTANTS
  FirstYear = 1890
  LastYear = 2110
  Minutes <- MCMinutes
  Offsets <- MCOffsets
CHECK_DEADLOCK FALSE
INVARIANTS SameInstant SameHourAndWeekday
