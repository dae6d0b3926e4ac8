---------------------------- MODULE MCCircuitBreaker ----------------------------
(***************************************************************************)
(* CircuitBreaker for TLC.                                                 *)
(***************************************************************************)
EXTENDS CircuitBreaker

CONSTANTS c1, c2, c3

=================================================================================
