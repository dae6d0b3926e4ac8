\* Liveness: a row of an earlier release and an event without a handler.
CONSTANTS
  e1 = e1
  e2 = e2
  w1 = w1
  w2 = w2
  Events = {e1, e2}
  Workers = {w1, w2}
  Unhandled = {e2}
  Cancellable = {}
  Legacy = {e1}
  MaxRetries = 2
  BatchSize = 2
  Lease = 1
  BackoffCap = 1
  Grace = 2
  Retention = 1
  AttemptCap = 3
  MaxCrashes = 1
SPECIFICATION FairSpec
PROPERTY NothingStranded
