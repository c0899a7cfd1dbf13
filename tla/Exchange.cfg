SPECIFICATION Spec
CONSTANTS
  Base = 8
  WordLen = 2
  Space = 1
  Quote = 2
  Line <- MCLine
  Input <- MCInput
  MaxLen = 8
  k_max_args = 2
  NumLen = 2
  Str <- MCStr
  Num <- MCNum
  MaxArr = 3
  ErrMsg <- MCErrMsg
  k_max_msg = 20
INVARIANTS
  ArgumentsExact
  ParseExact
  ClientReadsReply
  ShapeIsRight
CHECK_DEADLOCK FALSE
