SPECIFICATION FairSpec
CONSTANTS
  NumBlocks = 3
  MaxQueue = 1
  ThreadMayFail = TRUE
INVARIANTS ReadInv NothingAstray WorkDone
PROPERTIES ReadReturns
CHECK_DEADLOCK FALSE
