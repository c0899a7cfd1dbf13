SPECIFICATION FairSpec
CONSTANTS
  Node = {0, 1, 2, 4, 6, 8}
  hcode <- MChcode
  k_init_slots = 2
  k_max_load_factor = 1
  k_rehasing_work = 1
  None = None
INVARIANTS
  HMapInv
  KeysReplyComplete
  MigrateInBounds
  LoadBounded
PROPERTIES
  ImplementsSet
  RehashEnds
