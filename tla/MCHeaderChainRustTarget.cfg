SPECIFICATION Spec
CONSTANTS
  Base = 2
  Digits = 8
  Window = 4
  Low = 2
  MaxExponent = 11
  MaxLength = 3
  ConstantDifficulty = FALSE
  Power <- MCPower
  Header <- MCHeader
  Impls = {"rust"}
  Chains <- MCChains
INVARIANTS
  RustOwnTarget
