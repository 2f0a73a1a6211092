SPECIFICATION Spec
CONSTANTS
  payload_size = 6
  block_estimate = 2
  Blocks = {1, 2, 3, 4}
  MAX_FRAME_PACKETS = 8
  resend_enabled = FALSE
  MaxHeldBytes = 6
INVARIANTS
  CompleteIsExact
  ConformingIsNeverRejected
  HolesAreVisible
