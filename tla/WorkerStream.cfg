SPECIFICATION FairSpec
CONSTANTS
  Conns = {c1}
  Limits = {1}
  ReqLen = 3
  RespLen = 2
  SndBuf = 1
  Buf = 2
  MaxSend = 6
CHECK_DEADLOCK FALSE
INVARIANTS Conserved NoLostEdge
PROPERTIES Answered FinishedIsAnswered
