SPECIFICATION Spec
CONSTANTS
  Id <- MCId
  Slot = {0, 1}
  Obj = {1, 2}
  Base = 2
  Depth = 3
  MaxPuts = 3
INVARIANTS
  GetLastPut
  TraverseExact
CHECK_DEADLOCK FALSE
