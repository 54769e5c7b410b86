SPECIFICATION Spec
CONSTANTS
  Worlds <- MCWorlds
  Conds <- MCConds
  Templates <- MCTemplates
  KeyLists <- MCKeyLists
  MaxSteps = 2
INVARIANTS
  MatchMeaning
PROPERTIES
  TagsKept
  InheritsDown
  MaskSpread
CHECK_DEADLOCK FALSE
