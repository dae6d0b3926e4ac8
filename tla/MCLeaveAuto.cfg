SPECIFICATION Spec
CONSTANTS
  N = 4
  ParentSteps = {2}
  AutoSteps = {1, 3}
  Exts = {e1, e2}
  Ends = {1, 2, 3}
  Modes = {"NONE", "RETURN_ONLY", "DAILY_RECURRING"}
  MaxExtensions = 1
SYMMETRY Symmetry
INVARIANT LeaveHasTurn
PROPERTY RefinesLifecycle
CHECK_DEADLOCK FALSE
