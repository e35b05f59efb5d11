CONSTANTS
  Index = {0, 1}
  NumTx = 1
  P = 5
  MaxU64 = 19
  Words = {2, 4}
  Keys = {k1, k2, k3}
  NoKey = NoKey
  NoIndex = NoIndex
  EmptyLeaf = EmptyLeaf
SYMMETRY KeySymmetry
SPECIFICATION Spec
INVARIANT
  ReceiverNeverOverflows
