CONSTANTS
  MaxTime = 5
  LeaseTTL = 1
  SpecGrace = 0
  DefaultGrace = 1
  HibernateAfter = 2
  IdleTimeout = 3
  TTL = 5
  MaxStockAge = 4
  ProvisionTimeout = 2
  Policies = {"ReclaimImmediately", "Grace", "Ignore"}
  Faults = {"podLost", "podEnded", "nodeLost", "agentStops"}
  Deadlines <- MCDeadlines
CHECK_DEADLOCK FALSE
SPECIFICATION Spec
INVARIANT TypeOK
INVARIANT EndsAreReal
INVARIANT FreezeBeforeReclaim
INVARIANT HibernationIsReal
PROPERTY ViewsAgree
