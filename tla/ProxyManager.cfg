CONSTANTS
  c1 = c1
  c2 = c2
  c3 = c3
  Calls = {c1, c2, c3}
  MaxForks = 2
  MaxBacklog = 2
SPECIFICATION ManagerFairSpec
INVARIANTS NoTornRead ChildrenBounded
PROPERTIES ServedUntilLimit
CHECK_DEADLOCK FALSE
