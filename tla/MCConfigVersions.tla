---------------------------- MODULE MCConfigVersions ----------------------------
(***************************************************************************)
(* ConfigVersions for TLC: two saves of the type and two submissions at a  *)
(* time.                                                                   *)
(***************************************************************************)
EXTENDS ConfigVersions, TLC

CONSTANTS e1, e2, l1, l2

ConfigSymmetry == Permutations({e1, e2}) \cup Permutations({l1, l2})
=================================================================================
