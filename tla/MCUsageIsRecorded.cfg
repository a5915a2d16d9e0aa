CONSTANTS
  Sandbox = {s1}
  Kind = {"Pod"}
  Horizon = 3
  Faults = {}
  OrphanGrace = 2
  StuckTerminatingGrace = 1
  PendingGrace = 1
  MaxFindings = 2
  Rivals = 0
  RoundTimeout = 1
CHECK_DEADLOCK FALSE
SPECIFICATION Spec
INVARIANT UsageIsRecorded
