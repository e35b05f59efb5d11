CONSTANTS
  Rounds = 2
  Cycle = 3
  Depth = 1
  P = 65521
  TxLength = 36
  RangeLog = 16
  NumTx = 2
  Deltas = {0, 421}
  Genesis <- MCGenesis
SPECIFICATION Spec
INVARIANTS
  ExampleVerifies
  RangesMeetCopies
  MessageHashed
