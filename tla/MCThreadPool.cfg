CONSTANTS
  low = low
  high = high
  late = late
  Owner = Owner
  Slots = 3
  Plain = {low, high}
  Delayed = {late}
  Priority <- MCPriority
  Group <- MCGroup
  Limit = 1
  MinThreads = 1
  MaxThreads = 2
  MaxChoices = {1}
  Turns = 1
SPECIFICATION FairSpec
INVARIANTS PoolInv FinishedMeansDone
PROPERTIES KeepsContract Delivered
CHECK_DEADLOCK FALSE
