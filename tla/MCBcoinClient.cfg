SPECIFICATION Spec
CONSTANTS
  Base = 5
  Wide = 4
  Before <- MCBefore
  After <- MCAfter
  NumberSize = 1
  Tx <- MCTx
  Genesis = "g"
  MaxReorg = 4
  Wanted <- MCWanted
  Heights = {0, 1, 2}
  Counts = {0, 1, 2, 3}
  Blocks <- MCBlocks
  Parent <- MCParent
  Txs <- MCTxs
  Root <- MCRoot
INVARIANTS
  TypeOK
  ValidatedIsConfirmed
  ValidatedIsWhole
  UndisturbedIsChain
  UndisturbedIsValid
  OthersThrow
PROPERTIES
  EveryCallEnds
CHECK_DEADLOCK FALSE
