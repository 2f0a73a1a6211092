SPECIFICATION Spec
CONSTANTS
  MaxId = 7
  DISCARD_LATE_FRAME_THRESHOLD = 3
  HISTORY_LEN = 3
  Trailer = 2
  Varying = {0, 1, 2}
  Scenarios <- PassingScenarios
INVARIANTS
  SlotsConserved
  InOrderAndOnce
  CompleteIsOneFrame
  CounterIsFollowed
