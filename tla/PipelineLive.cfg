SPECIFICATION FairPipelineSpec
CONSTANTS
  j1 = j1
  n1 = n1
  n2 = n2
  o1 = o1
  q1 = q1
  q2 = q2
  None = None
  Jobs <- MCJobs
  Nodes <- MCNodes
  Workers <- MCNodes
  Replicas <- MCReplicas
  Requests <- MCOneRequest
  TierOf <- MCStandard
  DispatchLimit = 50
  BatchSize = 2
  MaxFaults = 1
  MaxMishaps = 1
ACTION_CONSTRAINT MCOneFailureAndDrop
CHECK_DEADLOCK FALSE
INVARIANT AckedIsComplete
PROPERTY JobsFinish
PROPERTY EntriesSettle
