CONSTANT
  Depths <- MCDepths
SPECIFICATION Spec
INVARIANT
  TailSlotsExclusive
