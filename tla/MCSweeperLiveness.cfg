CONSTANTS
  Sandbox = {s1}
  Kind = {"Volume", "Lease"}
  Horizon = 2
  Faults = {"nodeLost", "noRuntime", "roundStops"}
  OrphanGrace = 2
  StuckTerminatingGrace = 1
  PendingGrace = 1
  MaxFindings = 2
  Rivals = 1
  RoundTimeout = 0
CHECK_DEADLOCK FALSE
SPECIFICATION FairSpec
PROPERTY DeletingIsCollected
PROPERTY OrphansAreCollected
PROPERTY PendingEnds
