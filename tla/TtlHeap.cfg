SPECIFICATION Spec
CONSTANTS
  Entry = {e1, e2, e3, e4, e5, e6, e7}
  Deadline = {1, 2, 3}
  None = None
SYMMETRY EntrySymmetry
INVARIANTS
  RefsExact
  RootIsMin
  HeapInv
PROPERTIES
  ImplementsQueue
