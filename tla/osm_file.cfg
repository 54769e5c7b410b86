SPECIFICATION Spec
CONSTANTS
  Worlds <- MCWorlds
  MinId <- MCMinId
  UniqueStart <- MCUniqueStart
  IntBits = 4
  MaxMatch = 1
  MaxNew = 1
  MaxRuns = 2
INVARIANTS
  StreamExact
  ObjectsExact
  FileConsistent
CHECK_DEADLOCK FALSE
