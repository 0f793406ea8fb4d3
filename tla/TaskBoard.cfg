SPECIFICATION BoardSpec
CONSTANTS
  j1 = j1
  n1 = n1
  n2 = n2
  o1 = o1
  o2 = o2
  q1 = q1
  q2 = q2
  None = None
  Jobs <- MCJobs
  Nodes <- MCNodes
  Replicas <- MCReplicas
  Requests <- MCRequests
  TierOf <- MCStandard
  DispatchLimit = 50
  MaxFaults = 1
SYMMETRY MCSymmetry
CHECK_DEADLOCK FALSE
INVARIANT BoardTypeOK
INVARIANT PositionOrder
INVARIANT ClaimedOnce
INVARIANT NoLostFinalize
INVARIANT BillIsWhole
INVARIANT AssigneePaid
INVARIANT PaidOncePerRequest
INVARIANT ReputationBeforeCredit
PROPERTY PaidThenClosed
PROPERTY ImplementsLifecycle
