SPECIFICATION Spec
CONSTANTS
  Base = 20
  Wide = 19
  Impls = {"c", "go", "js", "rust", "sol"}
  Elements <- MCElements
  TxIdSize = 2
  NumberSize = 2
  HashSize = 2
  LongHashSize = 6
  MaxPush = 9
  OP_PUSHDATA1 = 10
  OP_RETURN = 11
  OP_DUP = 12
  OP_HASH160 = 13
  OP_EQUALVERIFY = 14
  OP_CHECKSIG = 15
  OP_EQUAL = 16
INVARIANTS InputFieldsExact OutputFieldsExact
