SPECIFICATION Spec
CONSTANTS
  Sizes = {1, 2, 3, 5}
  Indices = {0, 1, 7, 11, 15}
  SignBit = 8
  Impls = {"c", "go", "js", "py", "rust", "sol"}
  Digest <- MCDigest
  Hash256 <- MCHash256
  Blocks <- MCBlocks
  Others <- MCOthers
INVARIANTS
  TypeOK
  Complete
  VerdictExact
  AcceptedMember
