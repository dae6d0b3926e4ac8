------------------------------- MODULE MCUserRoles -------------------------------
(***************************************************************************)
(* UserRoles for TLC: the first super admin and one other, two hostels and *)
(* two requests at a time.                                                 *)
(***************************************************************************)
EXTENDS UserRoles, TLC

CONSTANTS u1, u2, h1, h2, q1, q2

RoleSymmetry == Permutations({h1, h2}) \cup Permutations({q1, q2})
=================================================================================
