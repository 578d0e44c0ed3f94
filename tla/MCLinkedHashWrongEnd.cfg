CONSTANTS
  k1 = k1
  k2 = k2
  k3 = k3
  Keys = {k1, k2, k3}
  Ranges = {0, 1}
  MaxPuts = 4
SPECIFICATION Spec
INVARIANTS TakenIsRemoved
CHECK_DEADLOCK FALSE
