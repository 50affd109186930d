\* The server, two calls the user makes and one without negotiation.
\* The system can stop: the threads may wait for one another (see Crossed).
SPECIFICATION HandoffFairSpec
CONSTANTS
  Server = server
  Callers = {caller}
  Gui = gui
  Calls = {c1, c2, c3}
  NoCall = NoCall
  NoThread = NoThread
  MaxRestarts = 1
  MaxDialogs = 1
INVARIANTS
  WaitingCallIsAsked
PROPERTIES
  SlotSpec
  CallIsSettled
CHECK_DEADLOCK FALSE
