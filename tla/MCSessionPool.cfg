CONSTANTS
  t1 = t1
  t2 = t2
  k1 = k1
  k2 = k2
  k3 = k3
  here = here
  there = there
  NoKey = NoKey
  User <- MCUser
  Key <- MCKey
  Place <- MCPlace
  MaxSettings = 2
SPECIFICATION SessionSpec
INVARIANTS LeaseInv NoneObsolete
CHECK_DEADLOCK FALSE
