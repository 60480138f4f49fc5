SPECIFICATION Spec
CONSTANTS
  Base = 2
  Digits = 8
  Window = 4
  Low = 2
  MaxExponent = 11
  MaxLength = 3
  ConstantDifficulty = TRUE
  Power <- MCPower
  Header <- MCHeader
  Impls <- MCImpls
  Chains <- MCChains
INVARIANTS
  TypeOK
  PrefixSound
  AcceptedSound
  MisplacedNotCounted
PROPERTIES
  Promised
