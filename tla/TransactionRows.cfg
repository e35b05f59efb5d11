CONSTANT
  Depths <- MCDepths
SPECIFICATION Spec
INVARIANTS
  TypeOK
  MasksFollowBuilder
  RegistersKeptApart
  InputsTied
  UncheckedAtMostLast
  BodySlotsExclusive
  SlotsDeclared
PROPERTY
  RateFollowsMasks
