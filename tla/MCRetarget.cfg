SPECIFICATION Spec
CONSTANTS
  Impls = {"c", "go", "js", "rust", "sol"}
  Base = 4
  Digits = 3
  WordSize = 256
  Period = 8
  Adjust = 4
  Targets <- MCTargets
  Times = {0, 1, 2, 3, 10, 33, 35, 200, 254}
INVARIANTS TypeOK MultiplyExact DivideExact RetargetExact
