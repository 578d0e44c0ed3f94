CONSTANTS
  n1 = n1
  n2 = n2
  w1 = w1
  w2 = w2
  s1 = s1
  s2 = s2
  t1 = t1
  t2 = t2
  None = None
  Records <- MCRecords
  Txs = {t1, t2}
  TxOf <- MCTxOf
  HasTrades = {t1}
  Bad = {t2}
  Nodes = {n1}
  Workers = {w1}
  Senders = {s1}
  NodeOf <- MCNodeOf
  TaskSize = 1
  QueueLimit = 1
  MaxAttempts = 2
  MaxFaults = 2
SPECIFICATION FairSpec
PROPERTIES ParsedOrFailed PoisonIsFinal
