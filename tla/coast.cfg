SPECIFICATION Spec
CONSTANT
  Worlds <- MCWorlds
INVARIANTS
  JoinedOnce
  RingsClosed
  CornersOnTheWay
PROPERTIES
  RoundsEnd
