\* The acknowledge of the SCP write may be lost.
SPECIFICATION Spec
CONSTANTS
  Modes = {"SingleFrame", "Continuous"}
  Capacity = 2
  MaxSnaps = 2
  Links = {TRUE}
  Refusals = TRUE
INVARIANTS
  ChannelIsClosed
