CONSTANTS
  u1 = u1
  p1 = p1
  p2 = p2
  Nobody = Nobody
  Users = {u1}
  Programs = {p1, p2}
  Of <- MCOf
  MaxBacklog = 1
  MaxStarts <- MCMaxStarts
  MayFail = {p1}
SPECIFICATION Spec
INVARIANTS ToldIsTrue NotLeftOff
PROPERTIES DirectorySpec
CHECK_DEADLOCK FALSE
