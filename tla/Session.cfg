SPECIFICATION FairSpec
CONSTANTS
  Kind = {"ok", "bad", "long"}
  HeaderLen = 2
  ReqLen = 1
  RespLen = 2
  ShapeLen = 1
  ReadBuf = 6
  Capacity = 7
  Window = {1, 2}
  MaxReq = 4
INVARIANTS
  StreamIntact
  NoRequestStranded
  AnswersMatch
  SessionInv
PROPERTIES
  QueryReturns
CHECK_DEADLOCK FALSE
