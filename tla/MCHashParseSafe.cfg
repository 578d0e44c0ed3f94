CONSTANTS
  n1 = n1
  n2 = n2
  w1 = w1
  w2 = w2
  s1 = s1
  s2 = s2
  t1 = t1
  t2 = t2
  None = None
  Records <- MCPair
  Txs = {t1}
  TxOf <- MCSameTx
  HasTrades = {t1}
  Bad = {}
  Nodes = {n1, n2}
  Workers = {w1, w2}
  Senders = {s1, s2}
  NodeOf <- MCNodeOf
  TaskSize = 1
  QueueLimit = 0
  MaxAttempts = 1
  MaxFaults = 2
SPECIFICATION Spec
INVARIANTS DoneHasData BacklogBounded
PROPERTIES ImplementsEventStore
