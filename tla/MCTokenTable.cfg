CONSTANTS
  n1 = n1
  n2 = n2
  u1 = u1
  u2 = u2
  Users = {u1, u2}
  Creates <- MCCreates
  Creator <- MCCreator
  Nodes = {n1, n2}
  Importers = {n1}
  PageSize = 1
  DuneUsers <- MCDuneUsers
  Limit = 2
  MaxFaults = 1
SPECIFICATION FairSpec
INVARIANTS AmountIsExact
PROPERTIES JamIsFinal SkippedIsFinal ImportedOrBlocked
CHECK_DEADLOCK FALSE
