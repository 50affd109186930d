\* A call through the proxy: safety, the refinement and termination.
SPECIFICATION FairSpec
CONSTANTS
  gsm = gsm
  speex = speex
  m1 = m1
  Payload = {gsm, speex}
  Ms = {m1}
  NoCodec = NoCodec
  CallerLists <- MCCallerLists
  CalleeLists <- MCCalleeLists
  CallerPort = callerPort
  CalleePort = calleePort
  NoPort = NoPort
  Self = bob
  Users = {bob, carol}
INVARIANTS
  Lockstep
  HalfOpenThroughProxy
PROPERTIES
  CallSpec
  AllReturn
