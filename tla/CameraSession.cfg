\* Links that lose acknowledges and links that do not.
SPECIFICATION Spec
CONSTANTS
  Modes = {"SingleFrame", "Continuous"}
  Capacity = 2
  MaxSnaps = 2
  Links = {TRUE, FALSE}
  Refusals = TRUE
INVARIANTS
  ControlIsReturned
  LeftAsFound
  SnapIsOwnOrLate
  QuietOutsideAcquisition
