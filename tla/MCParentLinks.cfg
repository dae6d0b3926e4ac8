SPECIFICATION FairSpec
CONSTANTS
  w1 = w1
  w2 = w2
  first = first
  resend = resend
  Workers = {w1, w2}
  Events = {first, resend}
  First = first
  None = None
  MaxTries = 2
  Ttl = 1
  EndTime = 3
  LastTime = 3
INVARIANTS TypeOK RequestReachesParent
PROPERTIES JobWaitsForTheLink PendingEnds
CHECK_DEADLOCK FALSE
