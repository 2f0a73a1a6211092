\* A coarse grid of packet sizes, test packets lost or late or none of it; two
\* calls of discover and force_ip, each from a fresh port.
SPECIFICATION HostSpec
CONSTANTS
  INC = 4
  MIN = 8
  MAX = 64
  Candidates = {24, 16, 8}
  Fallback = 25
  Caps = {5, 8, 25, 38, 64}
  Steps = {1, 3, 4}
  Paths = {7, 25, 50, 64}
  MaxLate = 2
  Reliable = {TRUE, FALSE}
  Devices = {"Both", "Lost"}
  Window = 4
  MaxCalls = 2
  SourcePorts = {0}
  Refusing = {"Lost"}
  MaxFaults = 1
INVARIANTS SizeWasDelivered SizeIsLargest AnsweredInTimeIsFound ProbesAreFew
