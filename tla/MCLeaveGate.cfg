SPECIFICATION Spec
CONSTANTS
  N = 3
  ParentSteps = {1}
  AutoSteps = {}
  Exts = {e1, e2}
  Ends = {1, 2, 3}
  Modes = {"NONE", "BOTH"}
  MaxExtensions = 3
SYMMETRY Symmetry
INVARIANTS TypeOK PassCoversLeave ExtensionHasTurn ApprovedByAll OutCanReturn
PROPERTIES WindowMovesByApproval RefinesLifecycle
CHECK_DEADLOCK FALSE
