CONSTANTS
  t1 = t1  t2 = t2
  Tenant = {t1, t2}
  Call = {c1, c2, c3, c4}
  Quotas <- MCQuotas
  Token = 2
  MaxBuckets = 1
  Idle = 3
  Stall = 1
  Lag = 1
CHECK_DEADLOCK FALSE
SPECIFICATION Spec
SYMMETRY Symmetry
INVARIANT TypeOK
INVARIANT OvershootIsBounded
INVARIANT WaitIsEnough
PROPERTY SpendsOnlyCredit
