SPECIFICATION Spec
CONSTANTS
  r1 = r1  r2 = r2  r3 = r3
  n = n  w = w  r = r  q = q  g = g
  outer = outer  inner = inner  none = none
  Order <- Ordered
  Type <- Types
  NoRole = none
  Runs = {r1, r2}
  Data <- Versions
  DataRoles <- Roles
  RuleRoles <- OuterIn2
  Made <- NoneMade
  MaxFails = 1
  Unmapped = {r1}
  MaxInt = 3
INVARIANTS CleanWhole  ParsedExact
PROPERTIES LeavesUsable
CHECK_DEADLOCK FALSE
