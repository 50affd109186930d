CONSTANTS
  a = a
  b = b
  Users = {a, b}
  NoUser = NoUser
  Block = 3
  Samples = 3
  Round = 3
  MaxQueue = 2
SPECIFICATION ProcessorFairSpec
INVARIANTS SharedOut QueueIsLive
PROPERTIES InterfaceReturns FirstIsPlayed
CHECK_DEADLOCK FALSE
