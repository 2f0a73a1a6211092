SPECIFICATION Spec
CONSTANTS
  r1 = r1
  r2 = r2
  Requests = {r1, r2}
  Shutdown = Shutdown
  Heartbeat = Heartbeat
  Scenarios <- SafetyScenarios
INVARIANTS
  AnswersMatch
  ReadsReassemble
  WritesLand
  NoOrphan
PROPERTIES
  HeartbeatCutsIn
  NoOvertaking
  ReleaseIsLast
  ImplementsService
