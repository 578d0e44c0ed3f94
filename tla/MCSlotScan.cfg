CONSTANTS
  t1 = t1
  t2 = t2
  f1 = f1
  f2 = f2
  c1 = c1
  c2 = c2
  w1 = w1
  w2 = w2
  None = None
  Start = 1
  Interval = 1
  TaskSize = 1
  QueueLimit = 1
  Produced <- MCProduced
  LastSlot = 5
  Txs = {t1, t2}
  SlotOf <- MCSlotOf
  Refreshers = {f1, f2}
  Senders = {c1}
  Workers = {w1, w2}
  MaxFaults = 1
SPECIFICATION FairSpec
INVARIANTS NoGap DoneHasEvents SavedTogether
PROPERTIES StuckIsFinal StallIsFinal ScannedOrStalled DoneOrStuck
