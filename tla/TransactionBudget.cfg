SPECIFICATION Spec
CONSTANTS
  gvcp_timeout = 2
  retries = 1
  PENDING_ACK_BUDGET = 20
  PendingTimes = {0, 2, 20}
  Lag = 1
  Slack = 4
  MaxOthers = 0
  MaxBeats = 0
INVARIANTS
  BudgetIsWorstCase
