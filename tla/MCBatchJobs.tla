------------------------------ MODULE MCBatchJobs ------------------------------
(***************************************************************************)
(* BatchJobs for TLC: three rows in batches of two, every subset of them   *)
(* stuck.                                                                  *)
(***************************************************************************)
EXTENDS BatchJobs

================================================================================
