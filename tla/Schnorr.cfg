CONSTANTS
  P = 41
  B3 <- MCB3
  Rounds = 3
  Cycle = 4
  InvAlpha = 27
  MDS <- MCMDS
  INV_MDS <- MCINV_MDS
  ARK <- MCARK
  Q = 7
  Multiples <- MCMultiples
  WordBits = 7
  Messages <- MCMessages
  Abscissas <- MCAbscissas
  Scalars = {0, 1, 3, 6}
SPECIFICATION Spec
INVARIANTS
  TypeOK
  PointsAreMultiples
  LimbsFollowHash
  TraceObeysConstraints
  SignedVerifies
  AcceptedIffVerified
