CONSTANTS
  Scaling <- SmallScaling
  Protection <- SmallProtection
  FirstMinWarm = 2
  MinWarms = {1, 2}
  Window = 1
  MaxAge = 2
  MaxStock = 3
  Scenarios <- SmallScenarios
CHECK_DEADLOCK FALSE
SPECIFICATION FairSpec
INVARIANT TypeOK
INVARIANT TurnsAreBounded
INVARIANT HoldIsKept
PROPERTY ShrinkKeepsMinWarm
PROPERTY TripsCountEntries
PROPERTY PoolSettles
PROPERTY ProtectionEnds
