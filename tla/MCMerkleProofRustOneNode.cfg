SPECIFICATION Spec
CONSTANTS
  Sizes = {2, 3}
  Indices = {0, 1}
  SignBit = 8
  Impls = {"rust"}
  Digest <- MCDigest
  Hash256 <- MCHash256
  Blocks <- MCBlocks
  Others <- MCOthers
INVARIANTS
  RustEvaluates
