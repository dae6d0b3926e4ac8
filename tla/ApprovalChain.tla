--------------------------- MODULE ApprovalChain ---------------------------
(***************************************************************************)
(* The approval engine shared by leaves and extensions: one row of         *)
(* leave_approvals per workflow step and the owner's current step          *)
(* (currentStepKey, currentStepOrder).  An owner carries both as the       *)
(* fields `decision' and `at', where at = 0 stands for the null step.  A   *)
(* step is its stepOrder; keys and orders are in step, so one number       *)
(* names both.                                                             *)
(***************************************************************************)
EXTENDS Integers

CONSTANTS
  N,            \* number of steps of the workflow
  ParentSteps,  \* steps a parent decides
  AutoSteps     \* steps with the AUTO approval method

Steps == 1..N

ASSUME ChainAssumption ==
  /\ N \in Nat \ {0}
  /\ ParentSteps \subseteq Steps /\ AutoSteps \subseteq Steps \ ParentSteps

Decisions == {"PENDING", "APPROVED", "REJECTED", "CANCELLED"}
ChainSteps == 0..N

Earliest(S) == CHOOSE i \in S : \A j \in S : i <= j
Latest(S) == CHOOSE i \in S : \A j \in S : j <= i

Pending(c) == {i \in Steps : c.decision[i] = "PENDING"}
PendingAfter(c, i) == {j \in Pending(c) : i < j}

\* The row a decision applies to; a chain without one refuses the decision.
HasCurrent(c) == Pending(c) # {} /\ (c.at # 0 => c.at \in Pending(c))
Current(c) == IF c.at = 0 THEN Earliest(Pending(c)) ELSE c.at

\* updateDecisionById: a decided row keeps its decision.
Decide(c, i, d) ==
  [c EXCEPT !.decision[i] = IF @ = "PENDING" THEN d ELSE @]

CancelPending(c) ==
  [c EXCEPT !.decision =
     [i \in Steps |-> IF i \in Pending(c) THEN "CANCELLED" ELSE c.decision[i]]]

\* The row a rejection is recorded on: an administrator facing a parent step
\* rejects the first pending step that is not the parent's, if there is one.
RejectionStep(c, isAdmin) ==
  LET others == Pending(c) \ ParentSteps
  IN IF isAdmin /\ Current(c) \in ParentSteps /\ others # {}
     THEN Earliest(others) ELSE Current(c)

\* One row rejected, the other pending ones cancelled, no current step.
Rejected(c, i) ==
  [CancelPending(Decide(c, i, "REJECTED")) EXCEPT !.status = "REJECTED", !.at = 0]

\* Slip: the walk stops at the automatic steps too.
RunFromStopping(c, i) ==
  LET waiting == {j \in Pending(c) : i <= j}
  IN IF waiting = {} THEN [c EXCEPT !.at = 0, !.status = "APPROVED"]
     ELSE [c EXCEPT !.at = Earliest(waiting)]

\* Slip: the walk starts after step i, not at it.
RunFromNext(c, i) ==
  LET waiting == PendingAfter(c, i) \ AutoSteps
  IN IF waiting = {} THEN [c EXCEPT !.at = 0, !.status = "APPROVED"]
     ELSE [c EXCEPT !.at = Earliest(waiting)]

\* The walk along a leave's chain from step i on can end with a step to decide
\* or with nothing left to do.  It cannot end by an AUTO step: the approval of
\* the leave would then be recorded in the name of "SYSTEM", which is no user,
\* so the insert fails and the whole transaction is rolled back.
CanRun(c, i) ==
  LET ahead == {j \in Pending(c) : i <= j}
  IN ahead # {} => ahead \ AutoSteps # {}

\* The walk, where it can run: AUTO steps are approved one after the other until
\* a step somebody has to decide, which becomes the current one; with no step
\* ahead the leave is approved.
RunFrom(c, i) ==
  LET waiting == {j \in Pending(c) \ AutoSteps : i <= j}
      stop == IF waiting = {} THEN N + 1 ELSE Earliest(waiting)
  IN [c EXCEPT
        !.decision = [j \in Steps |->
           IF j \in Pending(c) /\ i <= j /\ j < stop
           THEN "APPROVED" ELSE c.decision[j]],
        !.at = IF waiting = {} THEN 0 ELSE stop,
        !.status = IF waiting = {} THEN "APPROVED" ELSE @]

\* Slip: the next order becomes the current step though there is none.
MoveOnPastEnd(c, i) == [c EXCEPT !.at = i + 1]

\* Slip: the pending steps are read in descending order.
MoveOnDescending(c, i) ==
  IF PendingAfter(c, i) = {} THEN [c EXCEPT !.at = 0, !.status = "APPROVED"]
  ELSE [c EXCEPT !.at = Latest(PendingAfter(c, i))]

\* An extension only moves on to the next pending step, of whatever kind.
MoveOn(c, i) ==
  IF PendingAfter(c, i) = {}
  THEN [c EXCEPT !.at = 0, !.status = "APPROVED"]
  ELSE [c EXCEPT !.at = Earliest(PendingAfter(c, i))]

\* What creating an extension makes of its chain: every AUTO step, wherever it
\* stands, moves the current step to the one after it, and a last AUTO step
\* approves the extension.  No approval row is decided.
Opened(c) ==
  [c EXCEPT
     !.decision = [i \in Steps |-> "PENDING"],
     !.at = IF AutoSteps = {} THEN 1
            ELSE IF Latest(AutoSteps) = N THEN 0 ELSE Latest(AutoSteps) + 1,
     !.status = IF N \in AutoSteps THEN "APPROVED" ELSE "PENDING"]
=============================================================================
