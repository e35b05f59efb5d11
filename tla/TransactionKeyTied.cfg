CONSTANT
  Depths <- MCDepths
SPECIFICATION Spec
INVARIANT
  KeyTied
