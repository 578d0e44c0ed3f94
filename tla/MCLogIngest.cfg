CONSTANTS
  w1 = w1
  w2 = w2
  n1 = n1
  n2 = n2
  t1 = t1
  t2 = t2
  None = None
  Txs = {t1, t2}
  Listeners = {n1, n2}
  Workers = {w1, w2}
  NodeOf <- MCNodeOf
  MaxAttempts = 2
  MaxFaults = 2
SPECIFICATION FairSpec
INVARIANTS NoSilentLoss
PROPERTIES HeardIsSettled
CHECK_DEADLOCK FALSE
