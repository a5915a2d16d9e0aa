CONSTANTS
  MaxTime = 3
  LeaseTTL = 1
  SpecGrace = 0
  DefaultGrace = 1
  HibernateAfter = 1
  IdleTimeout = 2
  TTL = 3
  MaxStockAge = 2
  ProvisionTimeout = 1
  Policies = {"Grace"}
  Faults = {"podLost", "noRuntime", "leaseDeleted", "agentStops"}
  Deadlines <- MCNoDeadline
CHECK_DEADLOCK FALSE
SPECIFICATION PatientSpec
PROPERTY SandboxEnds
PROPERTY WakeIsServed
