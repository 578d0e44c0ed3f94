CONSTANTS
  n1 = n1
  n2 = n2
  r1 = r1
  r2 = r2
  None = None
  Sigs <- MCSigs
  BlockOf <- MCBlockOf
  Limit = 2
  Confs = {r1, r2}
  First <- MCFirst
  EndBlock <- MCEndBlock
  Nodes = {n1, n2}
  MaxFaults = 3
SPECIFICATION FairSpec
INVARIANTS FinishedIsCrawled CursorIsComplete DuplicatesExplained
PROPERTIES StuckUntilRestart RangeIsCrawled
CHECK_DEADLOCK FALSE
