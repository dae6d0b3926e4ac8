----------------------------- MODULE MCOverlapGuard -----------------------------
(***************************************************************************)
(* OverlapGuard for TLC: three leaves of one student over three days.      *)
(***************************************************************************)
EXTENDS OverlapGuard, TLC

CONSTANTS l1, l2, l3, home, medical

LeaveSymmetry == Permutations({l1, l2, l3})

=================================================================================
