SPECIFICATION FairSpec
CONSTANTS
  Node = {1, 2, 3, 4, 5, 6, 7}
  Score = {1}
  Offset = {0, 1}
  Limit = {2}
  None = None
  Freed = Freed
PROPERTIES
  OffsetEnds
CHECK_DEADLOCK FALSE
