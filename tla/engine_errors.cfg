SPECIFICATION FairSpec
CONSTANTS
  NThreads = 2
  ObjMax = 2
  Obj <- Objs5
  MainResults <- ThreeRet
  Rules = {"centroid","out","area"}
  Threaded = {"area","centroid"}
  Once = {}
  Schedule <- WithErrors
  CallResults <- ThreeRet
  IniResults <- ZeroOne
  CopyResults <- Zero
  Interruptible = TRUE
  CreateFails <- OneFails
INVARIANTS
  Ownership
  ListFits
  FiniSafe
PROPERTIES
  Terminates
