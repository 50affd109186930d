CONSTANTS
  c1 = c1
  c2 = c2
  c3 = c3
  Calls = {c1, c2, c3}
  MaxForks = 2
  MaxBacklog = 2
SPECIFICATION ManagerFairSpec
PROPERTIES LimitIsLeft
CHECK_DEADLOCK FALSE
