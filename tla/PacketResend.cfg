SPECIFICATION FairSpec
CONSTANTS
  n_packets = 4
  max_requests = 3
  initial_packet_timeout = 1
  packet_timeout = 2
  frame_retention = 7
INVARIANTS
  AskedBeforeGivingUp
PROPERTIES
  FrameCloses
