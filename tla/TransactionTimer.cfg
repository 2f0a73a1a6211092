SPECIFICATION Spec
CONSTANTS
  gvcp_timeout = 2
  retries = 1
  PENDING_ACK_BUDGET = 5
  PendingTimes = {0, 2, 20}
  Lag = 1
  Slack = 4
  MaxOthers = 2
  MaxBeats = 1
INVARIANTS
  BudgetCoversRetries
  HoldIsBounded
