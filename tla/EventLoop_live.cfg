SPECIFICATION FairSpec
CONSTANTS
  Conn = {c1}
  Fd = {5}
  Entry = {e1, e2}
  Ttl = {0, 2}
  k_idle_timeout_ms = 1
  k_max_works = 0
  TimeoutMod = 4
  MaxNow = 3
  None = None
  ListHead = ListHead
CHECK_DEADLOCK FALSE
PROPERTIES
  DueKeysGo
  IdleConnsGo
