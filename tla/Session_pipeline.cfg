SPECIFICATION Spec
CONSTANTS
  Kind = {"ok"}
  HeaderLen = 2
  ReqLen = 1
  RespLen = 2
  ShapeLen = 1
  ReadBuf = 6
  Capacity = 7
  Window = {2}
  MaxReq = 4
INVARIANTS
  ServedIsAnswered
CHECK_DEADLOCK FALSE
