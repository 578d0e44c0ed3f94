CONSTANTS
  a = a
  b = b
  Pump = Pump
  Fees = Fees
  ComputeBudget = ComputeBudget
  System = System
  Token = Token
  AssociatedToken = AssociatedToken
  Metadata = Metadata
  None = None
  NUL = NUL
  sell <- MCsell
  create <- MCcreate
  buy <- MCbuy
  Lengths <- MCLengths
  Programs = {Pump, a, b}
  Events <- MCEvents
  Foreign <- MCForeign
  MaxDepth = 3
  MaxWritten = 2
  MaxLines = 12
SPECIFICATION MCSpec
INVARIANTS TakenIsNear PumpEventsFound ParseLogsAgrees
SYMMETRY Others
CHECK_DEADLOCK FALSE
