SPECIFICATION FairSpec
CONSTANTS
  NumBlocks = 4
  MaxQueue = 1
  IntLimit = 2
  ThreadMayFail = TRUE
INVARIANTS QueueBounded ProgressTakenBack AbortWasAsked
PROPERTIES KeepsContract WriteReturns
CHECK_DEADLOCK FALSE
