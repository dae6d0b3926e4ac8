SPECIFICATION FairSpec
CONSTANTS
  c1 = c1
  c2 = c2
  c3 = c3
  Callers = {c1, c2, c3}
  Threshold = 2
  HalfOpenMax = 1
  MaxRetries = 1
INVARIANTS ProbeUnderWay ProbesBounded
PROPERTIES TripIsEarned RecoversWithProvider
