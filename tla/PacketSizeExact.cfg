\* Every test packet that fits arrives in time; the limits sit on and beside
\* the grid of the probed sizes.
SPECIFICATION Spec
CONSTANTS
  INC = 16
  MIN = 560
  MAX = 9152
  Candidates = {1488, 1008, 560}
  Fallback = 1500
  Caps = {64, 556, 560, 572, 1007, 1008, 1488, 1500, 4000, 9151, 9152}
  Steps = {1, 4, 16, 24}
  Paths = {500, 559, 560, 575, 576, 1007, 1008, 1487, 1488, 1500, 1503, 1504, 4095, 8999, 9000, 9136, 9151, 9152, 9216}
  MaxLate = 0
  Reliable = {TRUE}
INVARIANTS SizeWasDelivered DeviceAgrees SizeIsLargest ProbesAreFew
