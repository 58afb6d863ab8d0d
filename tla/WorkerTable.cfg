SPECIFICATION FairSpec
CONSTANTS
  Conns = {c1, c2}
  Limits = {1, 2}
  ReqLen = 1
  RespLen = 1
  SndBuf = 1
  Buf = 1
  MaxSend = 1
CHECK_DEADLOCK FALSE
INVARIANTS TypeOK TableOK
PROPERTIES DropsOnlyFinished Adopted
