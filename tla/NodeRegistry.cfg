SPECIFICATION ClientSpec
CONSTANTS
  n1 = n1
  n2 = n2
  a1 = a1
  a2 = a2
  q1 = q1
  q2 = q2
  c1 = c1
  c2 = c2
  None = None
  Nodes <- MCNodes
  TierChoices <- MCTiers
  Admins <- MCAdmins
  Requests <- MCRequests
  Commands <- MCCommands
  MaxGains = 2
  MaxBans = 2
  MaxFaults = 1
  MaxCrashes = 1
ACTION_CONSTRAINT MCOneStory
CHECK_DEADLOCK FALSE
INVARIANT RegistryTypeOK
INVARIANT BannedEarnsOnlyEarlier
INVARIANT BanIsRecorded
INVARIANT KeyIsWholeAndPrivate
INVARIANT OneIdentity
PROPERTY MarkFollowsWindow
PROPERTY KeyFileKept
