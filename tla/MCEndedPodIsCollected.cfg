CONSTANTS
  MaxTime = 3
  LeaseTTL = 1
  SpecGrace = 0
  DefaultGrace = 1
  HibernateAfter = 1
  IdleTimeout = 2
  TTL = 3
  MaxStockAge = 2
  ProvisionTimeout = 1
  Policies = {"Grace"}
  Faults = {"podEnded"}
  Deadlines <- MCNoDeadline
CHECK_DEADLOCK FALSE
SPECIFICATION FairSpec
PROPERTY SandboxEnds
