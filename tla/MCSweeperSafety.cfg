CONSTANTS
  Sandbox = {s1}
  Kind = {"Pod", "NetworkPolicy"}
  Horizon = 3
  Faults = {"stepFails", "podLost", "callFails", "roundStops"}
  OrphanGrace = 2
  StuckTerminatingGrace = 1
  PendingGrace = 1
  MaxFindings = 2
  Rivals = 1
  RoundTimeout = 1
CHECK_DEADLOCK FALSE
SPECIFICATION Spec
INVARIANT TypeOK
INVARIANT DeletesOnlyOrphans
INVARIANT FindingsStayTrue
INVARIANT FlushIsCut
