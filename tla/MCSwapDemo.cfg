SPECIFICATION Spec
CONSTANTS
  Base = 6
  Wide = 5
  Before <- MCBefore
  After <- MCAfter
  HeaderSize = 2
  RootAt = 1
  NodeSize = 1
  NumberSize = 1
  AmountSize = 2
  PayeeSize = 2
  Front = 1
  Back = 1
  MaxWitness = 40
  ScriptSize = 16
  Width = 128
  Word = 36
  OP_RETURN = 4
  Hash256 <- MCHash256
  Prove <- MCProve
  Work <- MCWork
  WorkOf <- MCWorkOf
  Cases <- MCCases
INVARIANTS
  TypeOK
  TilesWitness
  ErrorIsNotWork
PROPERTIES
  Promised
