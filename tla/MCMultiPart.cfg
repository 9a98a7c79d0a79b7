CONSTANTS
  Totals = {2, 5, 8}
  Longest = 8
  PartSize = 2
  MinPartSize = 2
  MaxParts = 3
  MaxThreads = 1
  MaxQueueSize = 1
  MaxRetries = 1
  Ahead = 1
  EventSlots = 1
SPECIFICATION FairSpec
INVARIANTS PartInv SuccessIsWhole NoKnownUploadLeft
PROPERTIES UploadReturns
CHECK_DEADLOCK FALSE
