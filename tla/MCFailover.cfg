CONSTANTS
  r1 = r1
  r2 = r2
  a1 = a1
  a2 = a2
  Request <- MCRequest
  Address <- MCAddress
  Lists <- MCLists
  MaxRetryCount = 2
  MaxChanges = 1
SPECIFICATION FairRouteSpec
INVARIANTS RouteInv
PROPERTIES BlamesOnlyOthers RequestsReturn ServiceResumes
