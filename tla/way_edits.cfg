SPECIFICATION Spec
CONSTANTS
  Maps <- MCMaps
  Dists = {1, 2}
  Meridian = 4
  MaxEdits = 3
  MaxNodes = 9
  MaxTurns = 12
INVARIANTS
  IndexComplete
PROPERTIES
  SplitExact
  WrapMarked
  DirectionSet
CHECK_DEADLOCK FALSE
