SPECIFICATION FairSpec
CONSTANTS
  nb = 2
  Clients = {c1, c2, c3, c4}
  StatTries = 3
  ConnTries = 2
  AcceptBatch = 2
  QueueCap = 1
  BootNaps = 1
CHECK_DEADLOCK FALSE
INVARIANTS TypeOK StepsOut Balanced NeverGivesUp
PROPERTIES ClosesOnlyForTheDead HandsOff
