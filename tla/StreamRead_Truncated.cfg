SPECIFICATION Spec
CONSTANTS
  NumBlocks = 2
  MaxQueue = 1
  ThreadMayFail = FALSE
INVARIANT SuccessMeansWritten
CHECK_DEADLOCK FALSE
