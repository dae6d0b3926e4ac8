SPECIFICATION Spec
CONSTANTS
  l1 = l1
  l2 = l2
  l3 = l3
  home = home
  medical = medical
  Leaves = {l1, l2, l3}
  Types = {home, medical}
  None = None
  LastDay = 3
SYMMETRY LeaveSymmetry
INVARIANT OverlapIsUnseen
CHECK_DEADLOCK FALSE
