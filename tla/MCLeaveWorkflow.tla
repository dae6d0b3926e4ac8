-------------------------- MODULE MCLeaveWorkflow --------------------------
EXTENDS LeaveWorkflow, TLC

Symmetry == Permutations(Exts)
=============================================================================
