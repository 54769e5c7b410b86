SPECIFICATION Spec
CONSTANTS
  Clients = {c1, c2, c3}
  Size = 2
  BBoxes = {b1, b2}
  Trees = {t1, t2, t3, t4}
  NoTree = NoTree
  MaxTime = 3
  MaxLeaks = 1
SYMMETRY Symmetric
INVARIANTS
  CtrCountsUsers
  UseLiveTree
PROPERTIES
  EntryStable
CHECK_DEADLOCK FALSE
