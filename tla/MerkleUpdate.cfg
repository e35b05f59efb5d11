CONSTANTS
  Rounds = 2
  Cycle = 3
  Depth = 2
  P = 5
  TxLength = 9
  NumTx = 2
  Deltas = {3}
  Genesis <- MCGenesis
SPECIFICATION FairSpec
INVARIANTS
  TypeOK
  TraceObeysConstraints
  PathsMeetRoots
  PublicInputsMatch
PROPERTY
  TraceCompletes
