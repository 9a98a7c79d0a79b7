CONSTANTS
  MaxRequests = 3
  MaxTicks = 2
  ClosesInTime = TRUE
SPECIFICATION FairSpec
INVARIANTS ContextInv
PROPERTIES OwnAnswer CommandsReturn
CHECK_DEADLOCK FALSE
