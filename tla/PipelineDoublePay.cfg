SPECIFICATION PipelineSpec
CONSTANTS
  j1 = j1
  n1 = n1
  n2 = n2
  o1 = o1
  q1 = q1
  q2 = q2
  None = None
  Jobs <- MCJobs
  Nodes <- MCNodes
  Workers <- MCNodes
  Replicas <- MCReplicas
  Requests <- MCRequests
  TierOf <- MCStandard
  DispatchLimit = 50
  BatchSize = 5
  MaxFaults = 0
  MaxMishaps = 0
SYMMETRY MCSymmetry
CHECK_DEADLOCK FALSE
INVARIANT OneReceiptPerTask
