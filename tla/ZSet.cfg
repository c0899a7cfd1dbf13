SPECIFICATION FairSpec
CONSTANTS
  Node = {1, 2, 3, 4, 5, 6}
  Score = {1, 2}
  Offset <- MCOffset
  Limit = {0, 3}
  None = None
  Freed = Freed
INVARIANTS
  TreeHoldsMembers
  BalancedUntilSwap
  QueryExact
PROPERTIES
  QueriesEnd
CHECK_DEADLOCK FALSE
