--------------------------- MODULE LeaveLifecycle ---------------------------
(***************************************************************************)
(* What a leave request promises to the student and to the gate: its       *)
(* status, whether its pass can be used and when it ends, without the      *)
(* approval chain, the extensions and the locks behind them.               *)
(***************************************************************************)
EXTENDS Integers

CONSTANT Ends

VARIABLES status, usable, endAt
vars == <<status, usable, endAt>>

Init == status = "ABSENT" /\ ~usable /\ endAt = 0

\* Approval makes the pass usable, if the leave is to have one.
Approve == status' = "APPROVED" /\ usable' \in BOOLEAN

Submit ==
  /\ status = "ABSENT"
  /\ endAt' \in Ends
  /\ \/ status' = "PENDING" /\ UNCHANGED usable
     \/ Approve

Decide ==
  /\ \/ status \in {"PENDING", "REJECTED"} /\ Approve
     \/ status = "PENDING" /\ status' = "REJECTED" /\ UNCHANGED usable
     \/ status = "REJECTED" /\ status' = "PENDING" /\ UNCHANGED usable
  /\ UNCHANGED endAt

\* The pass stops with the leave.
End ==
  /\ \/ status \in {"PENDING", "APPROVED"} /\ status' \in {"CANCELLED", "EXPIRED"}
     \/ status \in {"APPROVED", "OVERDUE"} /\ status' = "COMPLETED"
  /\ ~usable'
  /\ UNCHANGED endAt

\* While the leave is approved its pass may be revoked and issued again.
Reissue == status = "APPROVED" /\ usable' /\ UNCHANGED <<status, endAt>>
Revoke == status \in {"APPROVED", "OVERDUE"} /\ ~usable' /\ UNCHANGED <<status, endAt>>

FallDue ==
  /\ status = "APPROVED" /\ status' = "OVERDUE"
  /\ UNCHANGED <<usable, endAt>>

Extend ==
  /\ status \in {"APPROVED", "OVERDUE"} /\ status' = "APPROVED"
  /\ endAt' \in Ends
  /\ UNCHANGED usable

Next == Submit \/ Decide \/ End \/ Reissue \/ Revoke \/ FallDue \/ Extend

Spec == Init /\ [][Next]_vars
=============================================================================
