\* One remote and one change of codec.
\* The system stops when the session is gone.
SPECIFICATION FairSpec
CONSTANTS
  Remotes = {r1}
  MaxEvents = 2
  MaxChanges = 1
INVARIANTS
  Quiescent
  ByeJustified
  HangUpSaysBye
  MuteKept
PROPERTIES
  GuiIsFree
  EndIsNoticedAtFirst
CHECK_DEADLOCK FALSE
