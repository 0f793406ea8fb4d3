SPECIFICATION PipelineSpec
CONSTANTS
  j1 = j1
  n1 = n1
  n2 = n2
  o1 = o1
  q1 = q1
  q2 = q2
  None = None
  Jobs <- MCJobs
  Nodes <- MCOneNode
  Workers <- MCOneNode
  Replicas <- MCReplicas
  Requests <- MCRequests
  TierOf <- MCPremium
  DispatchLimit = 50
  BatchSize = 5
  MaxFaults = 1
  MaxMishaps = 1
SYMMETRY MCRequestSymmetry
ACTION_CONSTRAINT MCOneFailure
CHECK_DEADLOCK FALSE
INVARIANT PipelineTypeOK
INVARIANT StreamIsPublished
INVARIANT AnswersReachTheirWorker
INVARIANT AckedIsComplete
INVARIANT SomeTaskMoves
