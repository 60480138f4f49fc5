SPECIFICATION Spec
CONSTANTS
  Base = 4
  Wide = 3
  Word = 16
  MaxLength = 5
  Indices = {0, 1, 2}
  Impls = {"c", "go", "js", "rust", "sol"}
  Before <- MCBefore
  After <- MCAfter
  Vectors <- MCVectors
INVARIANTS
  TypeOK
  ExtractAgrees
  PanicsOnlyOnEmpty
  AcceptedIsVector
  VectorIsAccepted
