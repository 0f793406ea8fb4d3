SPECIFICATION LedgerSpec
CONSTANTS
  q1 = q1
  q2 = q2
  None = None
  Tier = "Premium"
  Budget = 10000
  Results <- MCEdgeOnly
  TokenModulus = 4
  Requests <- MCOneRequest
  MaxFaults = 0
CHECK_DEADLOCK FALSE
INVARIANT ExecutorPoolKept
