\* Safety, the refinement and termination, over every pair of short codec lists.
SPECIFICATION FairSpec
CONSTANTS
  gsm = gsm
  speex = speex
  m1 = m1
  m2 = m2
  Payload = {gsm, speex}
  Ms = {m1, m2}
  NoCodec = NoCodec
  CallerLists <- MCCodecLists
  CalleeLists <- MCCalleeLists
  CallerPort = callerPort
  CalleePort = calleePort
  NoPort = NoPort
  Self = bob
  Users = {bob, carol}
INVARIANTS
  Agreement
  HalfOpenCall
  CallerPriority
PROPERTIES
  CallSpec
  BothReturn
  CancelHonoured
