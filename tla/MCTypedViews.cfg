SPECIFICATION Spec
CONSTANTS
  Base = 8
  Wide = 7
  Before <- MCBefore
  After <- MCAfter
  Memory <- MCMemory
  Indices = {0, 1, 2, 700}
  HeaderSize = 6
  BitsAt = 2
  Digits = 4
  Power <- MCPower
  HeaderFields <- MCHeaderFields
  NodeSize = 2
  HashSize = 1
  LongHashSize = 4
  MaxPush = 4
  OP_RETURN = 6
INVARIANTS TypedIsSafe TypeTellsForm
