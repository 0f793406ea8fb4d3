SPECIFICATION AuthSpec
CONSTANTS
  m1 = m1
  m2 = m2
  s1 = s1
  s2 = s2
  None = None
  Messages <- MCMessages
  TimestampOf <- MCTimestamps
  Admin <- MCMessages
  AdminSigned <- MCMessages
  Slots <- MCSlots
  Skew = 2
  Ttl = 4
  MaxDelay = 1
  MaxCopies = 2
  Horizon = 13
CHECK_DEADLOCK FALSE
INVARIANT ReplayedOnlyAfterUse
