------------------------------ MODULE MCOutbox ------------------------------
(* The outbox on small tables: symmetry of the worker runs. *)
EXTENDS Outbox, TLC

CONSTANTS e1, e2, w1, w2

WorkerSymmetry == Permutations({w1, w2})
=============================================================================
