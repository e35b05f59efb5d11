CONSTANTS
  P = 37
  RangeLog = 7
SPECIFICATION Spec
INVARIANTS
  TypeOK
  BuilderPrefix
  AttestsBits
PROPERTY
  BuilderObeysConstraints
