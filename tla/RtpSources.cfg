CONSTANTS
  Ssrcs = {0, 2, 4}
  Me = 0
  DbSize = 2
  MaxBlocks = 1
  ByeLimit = 3
  MaxSenders = 2
  MaxReports = 1
  Speakers = {0,2}
SPECIFICATION RtpSpec
INVARIANTS ChainsAreSound ReportsOfKnown
PROPERTIES EverySenderReported
CHECK_DEADLOCK FALSE
