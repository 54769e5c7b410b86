SPECIFICATION FairSpec
CONSTANTS
  NObj = 2
  MaxRules = 4
  InitMayFail = TRUE
  ReadMayFail = TRUE
  ThreadMayFail = TRUE
INVARIANTS
  Exclusion
PROPERTIES
  InOrder
  OwnObjects
  FreeReturns
CHECK_DEADLOCK FALSE
