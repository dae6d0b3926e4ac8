SPECIFICATION FairJobsSpec
CONSTANTS
  Rows = {1, 2, 3}
  BatchSize = 2
  MaxMishaps = 2
INVARIANT DeletedIsGone
PROPERTIES RunEnds BacklogClears
