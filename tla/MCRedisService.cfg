CONSTANTS
  c1 = c1
  c2 = c2
  c3 = c3
  n1 = n1
  n2 = n2
  Calls = {c1, c2, c3}
  Nodes = {n1, n2}
  NodeOf <- MCNodeOf
  None = None
  Expire = 2
  MaxRetries = 2
  MaxFaults = 2
  Keys = {c1, c2, c3}
  Ranges = {0}
  MaxPuts = 4
SPECIFICATION MCSpec
INVARIANTS Exclusion DeliveredAtMostOnce NothingLost
PROPERTIES LockEnds
CHECK_DEADLOCK FALSE
