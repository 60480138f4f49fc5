SPECIFICATION Spec
CONSTANTS
  Base = 4
  LowTop = 2
  Final = 15
  PastHeight = 3
  FirstTime = 8
  PastTime = 11
  Outpoints <- MCOutpoints
  Scripts = {"there"}
  Transactions <- MCTransactions
  Indices = {0, 1}
  Flags = {0, 1, 2, 3, 129, 130, 131}
  Prevouts <- MCPrevouts
  Points <- MCPoints
  Payments <- MCPayments
INVARIANTS SignsWhatItShould LocksReported ValidIsOwnersPayment
