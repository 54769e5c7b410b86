SPECIFICATION Spec
CONSTANTS
  Thread = {t1, t2}
  NFd = 2
  Requests <- Plain
INVARIANTS
  OwnFd
CHECK_DEADLOCK FALSE
