SPECIFICATION LedgerSpec
CONSTANTS
  q1 = q1
  q2 = q2
  None = None
  Tier = "Standard"
  Budget = 10000
  Results <- MCResults
  TokenModulus = 4
  Requests <- MCRequests
  MaxFaults = 1
SYMMETRY MCSymmetry
CHECK_DEADLOCK FALSE
INVARIANT LedgerTypeOK
INVARIANT PaysWithinHalfPoolPerTask
INVARIANT FullJobSharesAddUp
INVARIANT WorkIsPaid
