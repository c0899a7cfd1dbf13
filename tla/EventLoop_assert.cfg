SPECIFICATION Spec
CONSTANTS
  Conn = {c1, c2}
  Fd = {5, 6}
  Entry = {e1, e2}
  Ttl = {0, 1}
  k_idle_timeout_ms = 1
  k_max_works = 1
  TimeoutMod = 4
  MaxNow = 3
  None = None
  ListHead = ListHead
CHECK_DEADLOCK FALSE
SYMMETRY AddressSymmetry
INVARIANTS
  ExpiredKeyIsFound
