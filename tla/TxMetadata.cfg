CONSTANTS
  Index = {0, 1, 2}
  NumTx = 2
  P = 5
  MaxU64 = 19
  Words = {0, 9}
  Keys = {k1, k2, k3}
  NoKey = NoKey
  NoIndex = NoIndex
  EmptyLeaf = EmptyLeaf
SPECIFICATION FairSpec
INVARIANTS
  TypeOK
  Schedule
  TreeInSync
  WitnessChain
  SignaturesVerify
  MessagesDistinct
  SenderNeverUnderflows
  PanicExplained
PROPERTIES
  FundsConserved
  ImplementsLedger
  CallEnds
