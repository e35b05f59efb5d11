CONSTANT
  Depths <- MCDepths
SPECIFICATION Spec
INVARIANT
  BothRangesCompared
