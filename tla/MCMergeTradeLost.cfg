CONSTANTS
  u1 = u1
  u2 = u2
  t1 = t1
  t2 = t2
  t3 = t3
  t4 = t4
  b1 = b1
  b2 = b2
  m = m
  c = c
  k = k
  Last = 4
  Users = {u1, u2}
  Ids <- MCIds
  Txs = {t1, t2, t3, t4}
  Blocks = {b1, b2}
  UserOf <- MCUserOf
  TxOf <- MCTxOf
  BlockOf <- MCBlockOf
  PageSize = 1
  Loops = {m, c}
  FirstTask <- MCFirstTask
  MaxFaults = 0
SPECIFICATION Spec
INVARIANT StatusOneIsCounted
