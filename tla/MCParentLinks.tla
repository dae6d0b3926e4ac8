----------------------------- MODULE MCParentLinks -----------------------------
(***************************************************************************)
(* ParentLinks for TLC.                                                    *)
(***************************************************************************)
EXTENDS ParentLinks

CONSTANTS w1, w2, first, resend

===============================================================================
