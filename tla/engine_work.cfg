SPECIFICATION FairSpec
CONSTANTS
  NThreads = 2
  ObjMax = 2
  Obj <- Objs5
  MainResults <- Zero
  Rules = {"area","out","grid2"}
  Threaded = {"area"}
  Once = {"grid2"}
  Schedule <- Mixed
  CallResults <- Zero
  IniResults <- Zero
  CopyResults <- Zero
  Interruptible = TRUE
  CreateFails <- OneFails
INVARIANTS
  TypeOK
  AppliedOnce
  NoConcurrentMain
PROPERTIES
  ListHandedOver
  ImplementsRuns
