CONSTANTS
  h1 = h1
  h2 = h2
  Setter = {s1, s2}
  Nobody = nobody
  Sender = {u1, u2}
  Host <- Hosts
  HostOf <- AllToFirst
  Rates = {0, 1}
  MaxBlock = 2
  IntMax = 7
  Gaps = {9}
  MaxLate = 1
  MaxCalls = 3
  MaxAborts = 1
SPECIFICATION FairSpec
INVARIANTS ThrottleInv
PROPERTIES WaitersReleased
CHECK_DEADLOCK FALSE
