SPECIFICATION FairSpec
CONSTANTS
  NumFiles = 2
  Partial = TRUE
  Segments = 2
  MaxCalls = 2
  Calls <- PlainCalls
INVARIANTS CountersAgree
PROPERTIES TransferEnds CallsReturn
CHECK_DEADLOCK FALSE
