---------------------------- MODULE MCGateMovement ----------------------------
(***************************************************************************)
(* GateMovement for TLC: an exit leave of one day, and a recurring one for *)
(* the two days after it.                                                  *)
(***************************************************************************)
EXTENDS GateMovement

CONSTANTS home, daily

MCStartDay == [l \in Leaves |-> IF l = home THEN 0 ELSE 1]
MCEndDay == [l \in Leaves |-> IF l = home THEN 0 ELSE 2]
===============================================================================
