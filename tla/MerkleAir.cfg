CONSTANTS
  Rounds = 2
  Cycle = 3
  Depth = 2
  P = 2
  TxLength = 12
  NumTx = 2
  Value <- MCValue
  Trees <- MCTrees
  Siblings <- MCSiblings
  Bits = {0, 1, 2}
SPECIFICATION AirSpec
INVARIANTS
  AirTypeOK
  RootTracksTree
PROPERTY
  AttestsTransfer
