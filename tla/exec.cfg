SPECIFICATION FairSpec
CONSTANTS
  NObj <- Objs4
  Pass <- Passes4
  Ends <- Ends4
  Missing = {1}
  Cmds <- MCCmds
  MaxCmds = 2
  MaxCrash = 1
INVARIANTS
  Answered
  ObjectsInOrder
PROPERTIES
  Finishes
