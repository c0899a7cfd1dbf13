SPECIFICATION CSpec
CONSTANTS
  Conn = {c1, c2}
  Key = {k1}
  Val = {1}
  Name = {m1, m2}
  Arg <- MCArg
  None = None
  Entry = {1, 2}
  k_large_container_size = 1
  Threads = 1
  MaxNow = 1
SYMMETRY Symmetry
INVARIANTS
  ReferencesLive
  HandedOverOnce
PROPERTIES
  ImplementsKeySpace
CHECK_DEADLOCK FALSE
