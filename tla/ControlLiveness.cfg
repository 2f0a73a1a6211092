SPECIFICATION FairSpec
CONSTANTS
  r1 = r1
  r2 = r2
  Requests = {r1, r2}
  Shutdown = Shutdown
  Heartbeat = Heartbeat
  Scenarios <- LivenessScenarios
PROPERTIES
  EveryHandleResolves
  ControlLossIsNoticed
  DisconnectReturns
