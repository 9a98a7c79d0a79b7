CONSTANTS
  Pool = Pool
  MsgQueue = MsgQueue
  Thread = {1, 2, 3}
  Lock = {Pool, MsgQueue}
  Rank <- MCRank
  Calls <- MCCalls
  MaxDepth = 5
SPECIFICATION CallSpec
INVARIANTS LockInv
PROPERTIES KeepsDiscipline CallsReturn
CHECK_DEADLOCK FALSE
