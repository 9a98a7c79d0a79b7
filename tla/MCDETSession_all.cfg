SPECIFICATION Spec
CONSTANTS
  NumFiles = 2
  Partial = FALSE
  Segments = 1
  MaxCalls = 4
  Calls <- AllCalls
INVARIANTS FinishShownAfterStore CompleteUnlessInterrupted FinishAccepted OneThread NoFinishAfterFailure
PROPERTIES CancelStops
CHECK_DEADLOCK FALSE
