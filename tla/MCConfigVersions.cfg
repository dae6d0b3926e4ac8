SPECIFICATION ConfigSpec
CONSTANTS
  e1 = e1
  e2 = e2
  l1 = l1
  l2 = l2
  Editors = {e1, e2}
  Leaves = {l1, l2}
  MaxEdits = 2
SYMMETRY ConfigSymmetry
INVARIANTS RanUnderAVersion LatestIsInForce
CHECK_DEADLOCK FALSE
