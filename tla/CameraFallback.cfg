\* The frame of a snap that was given up may still be on its way.
SPECIFICATION Spec
CONSTANTS
  Modes = {"SingleFrame", "Continuous"}
  Capacity = 2
  MaxSnaps = 2
  Links = {FALSE}
  Refusals = TRUE
INVARIANTS
  SnapReturnsItsFrame
