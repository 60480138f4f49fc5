CONSTANTS
  Ports = {"js", "go", "py", "rust"}
  Byte <- MCByte
  NumberSize = 1
  DigestSize = 2
  HeaderSize = 6
  Hash256 <- MCHash
  IsVin <- MCIsVin
  IsVout <- MCIsVout
  Prove <- MCProve
  Originals <- MCOriginals
  Texts <- MCTexts
  MaxHops = 2
SPECIFICATION Spec
INVARIANTS VerdictExact ArrivesAsSent ReuseIsSafe PanicsKnown
