---------------------------- MODULE LeaveProofs ----------------------------
(***************************************************************************)
(* Proofs about the leave workflow for any number of steps, extensions and *)
(* ends and for every type of leave: its types, that the pass and the gate *)
(* follow the leave, that an ended leave stays ended, that its approval    *)
(* chain neither stalls nor skips a step.                                  *)
(***************************************************************************)
EXTENDS LeaveWorkflow, WellFoundedInduction, TLAPS

(***************************************************************************)
(* What the approval engine computes, for any number of steps.             *)
(***************************************************************************)
LEMMA StepsAreNatural ==
  /\ N \in Nat \ {0}
  /\ Steps \subseteq Nat
  /\ ParentSteps \subseteq Steps /\ AutoSteps \subseteq Steps
BY ChainAssumption DEF Steps

(* A set of naturals that is not empty has an earliest element.            *)
LEMMA EarliestIs ==
  ASSUME NEW S, S \subseteq Nat, S # {}
  PROVE  Earliest(S) \in S /\ \A j \in S : Earliest(S) <= j
<1>1. PICK x \in S : \A y \in S : ~(<<y, x>> \in OpToRel(<, Nat))
  BY NatLessThanWellFounded, WFMin
<1>2. \A y \in S : <<y, x>> \in OpToRel(<, Nat) <=> y < x
  BY DEF OpToRel
<1>3. ASSUME NEW y \in S PROVE x <= y
  <2>1. ~(y < x)
    BY <1>1, <1>2
  <2>. QED
    BY <2>1
<1>. QED
  BY <1>3 DEF Earliest

(* A set of steps that is not empty has a latest one.                      *)
LEMMA LatestIs ==
  ASSUME NEW S, S \subseteq Steps, S # {}
  PROVE  Latest(S) \in S /\ \A j \in S : j <= Latest(S)
<1>. DEFINE D == {N - i : i \in S}
<1>1. D \subseteq Nat /\ D # {}
  <2>1. ASSUME NEW i \in S PROVE N - i \in Nat
    BY StepsAreNatural DEF Steps
  <2>. QED
    BY <2>1
<1>2. PICK i \in S : Earliest(D) = N - i
  BY <1>1, EarliestIs
<1>3. \A j \in S : N - i <= N - j
  BY <1>1, <1>2, EarliestIs
<1>4. \A j \in S : j <= i
  BY <1>3, StepsAreNatural
<1>. QED
  BY <1>4 DEF Latest

USE LeaveAssumption

(* What the operators on chains make of a leave row.                       *)
LEMMA DecideLeave ==
  ASSUME NEW l \in LeaveRow, NEW i \in Steps, NEW d \in Decisions
  PROVE  /\ Decide(l, i, d) \in LeaveRow
         /\ Decide(l, i, d).status = l.status /\ Decide(l, i, d).at = l.at
         /\ Decide(l, i, d).endAt = l.endAt /\ Decide(l, i, d).mode = l.mode
         /\ l.decision[i] = "PENDING" => Decide(l, i, d).decision[i] = d
         /\ \A j \in Steps \ {i} : Decide(l, i, d).decision[j] = l.decision[j]
BY DEF Decide, LeaveRow, Chain

LEMMA CancelPendingLeave ==
  ASSUME NEW l \in LeaveRow
  PROVE  /\ CancelPending(l) \in LeaveRow
         /\ CancelPending(l).status = l.status /\ CancelPending(l).at = l.at
         /\ CancelPending(l).endAt = l.endAt /\ CancelPending(l).mode = l.mode
         /\ \A j \in Steps : CancelPending(l).decision[j] =
              IF l.decision[j] = "PENDING" THEN "CANCELLED" ELSE l.decision[j]
BY DEF CancelPending, LeaveRow, Chain, Pending, Decisions

LEMMA RejectedLeave ==
  ASSUME NEW l \in LeaveRow, NEW i \in Steps
  PROVE  /\ Rejected(l, i) \in LeaveRow
         /\ Rejected(l, i).status = "REJECTED"
         /\ Rejected(l, i).endAt = l.endAt /\ Rejected(l, i).mode = l.mode
         /\ Rejected(l, i).decision = CancelPending(Decide(l, i, "REJECTED")).decision
<1>. DEFINE c == CancelPending(Decide(l, i, "REJECTED"))
<1>. DEFINE b == Decide(l, i, "REJECTED")
<1>4. b \in LeaveRow /\ b.endAt = l.endAt /\ b.mode = l.mode
  <2>1. "REJECTED" \in Decisions
    BY DEF Decisions
  <2>. QED
    BY <2>1, DecideLeave
<1>1. c \in LeaveRow /\ c.endAt = l.endAt /\ c.mode = l.mode
  <2>. HIDE DEF b
  <2>1. /\ CancelPending(b) \in LeaveRow
        /\ CancelPending(b).endAt = b.endAt /\ CancelPending(b).mode = b.mode
    BY <1>4, CancelPendingLeave
  <2>. QED
    BY <2>1, <1>4 DEF b
<1>3. c = CancelPending(Decide(l, i, "REJECTED")) /\ 0 \in ChainSteps
  BY StepsAreNatural DEF ChainSteps
<1>2. Rejected(l, i) = [c EXCEPT !.status = "REJECTED", !.at = 0]
  BY DEF Rejected
<1>. HIDE DEF c
<1>5. [c EXCEPT !.status = "REJECTED", !.at = 0].decision = c.decision
  BY <1>1 DEF LeaveRow
<1>. QED
  BY <1>1, <1>2, <1>3, <1>5 DEF LeaveRow, LeaveStatuses

LEMMA RunFromLeave ==
  ASSUME NEW l \in LeaveRow, NEW i \in Nat
  PROVE  /\ RunFrom(l, i) \in LeaveRow
         /\ RunFrom(l, i).endAt = l.endAt /\ RunFrom(l, i).mode = l.mode
         /\ RunFrom(l, i).status \in {l.status, "APPROVED"}
<1>. DEFINE waiting == {j \in Pending(l) \ AutoSteps : i <= j}
            stop == IF waiting = {} THEN N + 1 ELSE Earliest(waiting)
            d == [j \in Steps |->
                    IF j \in Pending(l) /\ i <= j /\ j < stop
                    THEN "APPROVED" ELSE l.decision[j]]
<1>1. waiting # {} => stop \in Steps
  BY EarliestIs, StepsAreNatural DEF Pending
<1>2. d \in Chain
  BY DEF Chain, LeaveRow, Decisions
<1>3. RunFrom(l, i) = [l EXCEPT !.decision = d,
                         !.at = IF waiting = {} THEN 0 ELSE stop,
                         !.status = IF waiting = {} THEN "APPROVED" ELSE @]
  BY DEF RunFrom
<1>4. (IF waiting = {} THEN 0 ELSE stop) \in ChainSteps
  BY <1>1, StepsAreNatural DEF ChainSteps, Steps
<1>. HIDE DEF waiting, stop, d
<1>. QED
  BY <1>2, <1>3, <1>4 DEF LeaveRow, LeaveStatuses

(* The same for the row of an extension.                                   *)
LEMMA DecideExt ==
  ASSUME NEW x \in ExtRow, NEW i \in Steps, NEW d \in Decisions
  PROVE  /\ Decide(x, i, d) \in ExtRow
         /\ Decide(x, i, d).status = x.status /\ Decide(x, i, d).wants = x.wants
BY DEF Decide, ExtRow, Chain

LEMMA CancelPendingExt ==
  ASSUME NEW x \in ExtRow
  PROVE  /\ CancelPending(x) \in ExtRow
         /\ CancelPending(x).status = x.status /\ CancelPending(x).wants = x.wants
BY DEF CancelPending, ExtRow, Chain, Pending, Decisions

LEMMA RejectedExt ==
  ASSUME NEW x \in ExtRow, NEW i \in Steps
  PROVE  /\ Rejected(x, i) \in ExtRow
         /\ Rejected(x, i).status = "REJECTED" /\ Rejected(x, i).wants = x.wants
<1>. DEFINE b == Decide(x, i, "REJECTED")
            c == CancelPending(b)
<1>1. b \in ExtRow /\ b.wants = x.wants
  <2>1. "REJECTED" \in Decisions
    BY DEF Decisions
  <2>. QED
    BY <2>1, DecideExt
<1>2. c \in ExtRow /\ c.wants = x.wants
  <2>. HIDE DEF b
  <2>. QED
    BY <1>1, CancelPendingExt
<1>3. Rejected(x, i) = [c EXCEPT !.status = "REJECTED", !.at = 0]
  BY DEF Rejected
<1>4. 0 \in ChainSteps
  BY StepsAreNatural DEF ChainSteps
<1>. HIDE DEF c
<1>. QED
  BY <1>2, <1>3, <1>4 DEF ExtRow, ExtStatuses

LEMMA MoveOnExt ==
  ASSUME NEW x \in ExtRow, NEW i \in Steps
  PROVE  /\ MoveOn(x, i) \in ExtRow
         /\ MoveOn(x, i).status \in {x.status, "APPROVED"}
         /\ MoveOn(x, i).wants = x.wants
<1>1. ASSUME PendingAfter(x, i) # {}
      PROVE  Earliest(PendingAfter(x, i)) \in ChainSteps
  <2>1. PendingAfter(x, i) \subseteq Steps
    BY DEF PendingAfter, Pending
  <2>2. Earliest(PendingAfter(x, i)) \in Steps
    BY <1>1, <2>1, EarliestIs, StepsAreNatural
  <2>. QED
    BY <2>2, StepsAreNatural DEF ChainSteps, Steps
<1>2. 0 \in ChainSteps
  BY StepsAreNatural DEF ChainSteps
<1>3. CASE PendingAfter(x, i) = {}
  BY <1>2, <1>3 DEF MoveOn, ExtRow, ExtStatuses
<1>4. CASE PendingAfter(x, i) # {}
  <2>. DEFINE a == Earliest(PendingAfter(x, i))
  <2>1. MoveOn(x, i) = [x EXCEPT !.at = a]
    BY <1>4 DEF MoveOn
  <2>2. a \in ChainSteps
    BY <1>1, <1>4
  <2>. HIDE DEF a
  <2>. QED
    BY <2>1, <2>2 DEF ExtRow
<1>. QED
  BY <1>3, <1>4

LEMMA OpenedExt ==
  ASSUME NEW x \in ExtRow
  PROVE  /\ Opened(x) \in ExtRow
         /\ Opened(x).status \in {"PENDING", "APPROVED"}
         /\ Opened(x).wants = x.wants
<1>. DEFINE a == IF AutoSteps = {} THEN 1
                 ELSE IF Latest(AutoSteps) = N THEN 0 ELSE Latest(AutoSteps) + 1
            s == IF N \in AutoSteps THEN "APPROVED" ELSE "PENDING"
            d == [i \in Steps |-> "PENDING"]
<1>1. a \in ChainSteps
  <2>1. CASE AutoSteps = {}
    BY <2>1, StepsAreNatural DEF ChainSteps
  <2>2. CASE AutoSteps # {}
    <3>1. Latest(AutoSteps) \in Steps
      BY <2>2, LatestIs, StepsAreNatural
    <3>. QED
      BY <2>2, <3>1, StepsAreNatural DEF ChainSteps, Steps
  <2>. QED
    BY <2>1, <2>2
<1>2. d \in Chain
  BY DEF Chain, Decisions
<1>3. Opened(x) = [x EXCEPT !.decision = d, !.at = a, !.status = s]
  BY DEF Opened
<1>4. s \in {"PENDING", "APPROVED"}
  OBVIOUS
<1>. HIDE DEF a, s, d
<1>. QED
  BY <1>1, <1>2, <1>3, <1>4 DEF ExtRow, ExtStatuses

(* The row a decision falls on is one of the chain's.                      *)
LEMMA CurrentIsPending ==
  ASSUME NEW c, HasCurrent(c)
  PROVE  Current(c) \in Pending(c) /\ Current(c) \in Steps
<1>1. Pending(c) \subseteq Steps
  BY DEF Pending
<1>2. Earliest(Pending(c)) \in Pending(c)
  BY <1>1, EarliestIs, StepsAreNatural DEF HasCurrent
<1>. QED
  BY <1>1, <1>2 DEF HasCurrent, Current

LEMMA RejectionStepIsPending ==
  ASSUME NEW c, NEW isAdmin, HasCurrent(c)
  PROVE  RejectionStep(c, isAdmin) \in Pending(c) /\ RejectionStep(c, isAdmin) \in Steps
<1>. DEFINE others == Pending(c) \ ParentSteps
<1>1. others \subseteq Steps
  BY DEF Pending
<1>2. others # {} => Earliest(others) \in others
  BY <1>1, EarliestIs, StepsAreNatural
<1>3. RejectionStep(c, isAdmin) \in {Current(c), Earliest(others)}
  BY DEF RejectionStep
<1>. QED
  BY <1>1, <1>2, CurrentIsPending DEF RejectionStep

(* What is done to the pass.                                               *)
LEMMA Passes ==
  ASSUME NEW p \in QrPass, NEW end \in Ends \cup {0}, NEW returns \in BOOLEAN
  PROVE  /\ NewPass(returns, end) \in QrPass
         /\ Invalidated(p) \in QrPass
         /\ Retired(p) \in QrPass
         /\ Widened(p, end) \in QrPass
         /\ Invalidated(p).status = "ACTIVE" => p.status = "ACTIVE" /\ p.scanned
         /\ Retired(p).status # "ACTIVE"
         /\ Widened(p, end).status = p.status
         /\ p.status = "ACTIVE" => Widened(p, end).until = end
         /\ p.status = "ABSENT" =>
              Invalidated(p) = p /\ Retired(p) = p /\ Widened(p, end) = p
BY DEF NewPass, Invalidated, Retired, Widened, QrPass, QrStatuses

(***************************************************************************)
(* Types.                                                                  *)
(***************************************************************************)
LEMMA InitialRows ==
  /\ NoLeave \in LeaveRow /\ NoExt \in ExtRow /\ NoPass \in QrPass
  /\ Idle \in [open: BOOLEAN, locked: SUBSET Exts]
<1>1. 0 \in ChainSteps
  BY StepsAreNatural DEF ChainSteps
<1>2. NoDecisions \in Chain
  BY DEF NoDecisions, Chain, Decisions
<1>. QED
  BY <1>1, <1>2 DEF NoLeave, NoExt, NoPass, Idle, LeaveRow, ExtRow, QrPass,
       LeaveStatuses, ExtStatuses, QrStatuses, QrModes

LEMMA SubmittedRow ==
  ASSUME NEW mode \in Modes, NEW end \in Ends
  PROVE  /\ Submitted(mode, end) \in LeaveRow
         /\ Submitted(mode, end).status = "PENDING"
         /\ Submitted(mode, end).endAt = end /\ Submitted(mode, end).mode = mode
<1>. DEFINE l == NoLeave
<1>1. l \in LeaveRow
  BY InitialRows
<1>2. Submitted(mode, end) = [l EXCEPT !.status = "PENDING", !.endAt = end, !.mode = mode]
  BY DEF Submitted
<1>. HIDE DEF l
<1>. QED
  BY <1>1, <1>2 DEF LeaveRow, LeaveStatuses

LEMMA MovedRow ==
  ASSUME NEW action, leave \in LeaveRow, CanTransition(leave.status, action)
  PROVE  /\ Moved(action) \in LeaveRow
         /\ Moved(action).status = NextStatus[leave.status][action]
         /\ Moved(action).endAt = leave.endAt /\ Moved(action).mode = leave.mode
         /\ action = "EXPIRE" => leave.status \in {"PENDING", "APPROVED"}
                /\ Moved(action).status = "EXPIRED"
         /\ action = "CANCEL" => leave.status \in {"PENDING", "APPROVED"}
                /\ Moved(action).status = "CANCELLED"
         /\ action = "COMPLETE" => leave.status \in {"APPROVED", "OVERDUE"}
                /\ Moved(action).status = "COMPLETED"
         /\ action = "MARK_OVERDUE" => leave.status = "APPROVED"
                /\ Moved(action).status = "OVERDUE"
<1>1. leave.status \in {"PENDING", "APPROVED", "OVERDUE"}
  BY DEF CanTransition, NextStatus
<1>2. NextStatus[leave.status][action] \in LeaveStatuses
  BY <1>1 DEF CanTransition, NextStatus, LeaveStatuses
<1>3. 0 \in ChainSteps
  BY StepsAreNatural DEF ChainSteps
<1>. DEFINE s == NextStatus[leave.status][action]
<1>4. Moved(action) = [leave EXCEPT !.status = s, !.at = 0]
  BY DEF Moved
<1>5. Moved(action) \in LeaveRow /\ Moved(action).status = s
      /\ Moved(action).endAt = leave.endAt /\ Moved(action).mode = leave.mode
  <2>. HIDE DEF s
  <2>1. s \in LeaveStatuses
    BY <1>2 DEF s
  <2>. QED
    BY <1>3, <1>4, <2>1 DEF LeaveRow
<1>6. /\ action = "EXPIRE" => leave.status \in {"PENDING", "APPROVED"} /\ s = "EXPIRED"
      /\ action = "CANCEL" => leave.status \in {"PENDING", "APPROVED"} /\ s = "CANCELLED"
      /\ action = "COMPLETE" => leave.status \in {"APPROVED", "OVERDUE"} /\ s = "COMPLETED"
      /\ action = "MARK_OVERDUE" => leave.status = "APPROVED" /\ s = "OVERDUE"
  BY <1>1 DEF CanTransition, NextStatus
<1>. QED
  BY <1>5, <1>6

(* A decision that changes the leave, and the pass it may bring.           *)
LEMMA AdvanceTyped ==
  ASSUME TypeOK, NEW l \in LeaveRow, Advance(l)
  PROVE  leave' \in LeaveRow /\ qr' \in QrPass /\ location' \in Locations
<1>1. leave' \in LeaveRow
  BY DEF Advance
<1>2. CASE l.status = "APPROVED" /\ l.mode # "NONE" /\ qr.status = "ABSENT"
  <2>1. l.endAt \in Ends \cup {0} /\ ReturnOnly(l) \in BOOLEAN
    BY DEF LeaveRow, ReturnOnly
  <2>2. qr' = NewPass(ReturnOnly(l), l.endAt)
    BY <1>2 DEF Advance, IssuePass
  <2>3. NewPass(ReturnOnly(l), l.endAt) \in QrPass
    BY <2>1 DEF NewPass, QrPass, QrStatuses
  <2>4. location' \in Locations
    BY <1>2 DEF Advance, IssuePass, TypeOK, Locations
  <2>. QED
    BY <1>1, <2>2, <2>3, <2>4
<1>3. CASE ~(l.status = "APPROVED" /\ l.mode # "NONE" /\ qr.status = "ABSENT")
  BY <1>1, <1>3 DEF Advance, IssuePass, TypeOK
<1>. QED
  BY <1>2, <1>3

LEMMA ConcludeTyped ==
  ASSUME TypeOK, NEW e \in Exts, NEW x \in ExtRow, Conclude(e, x)
  PROVE  TypeOK'
<1>1. ext' \in [Exts -> ExtRow]
  BY DEF Conclude, TypeOK
<1>2. CASE x.status = "APPROVED"
  <2>1. x.wants \in Ends \cup {0}
    BY DEF ExtRow
  <2>2. leave' \in LeaveRow
    BY <1>2, <2>1 DEF Conclude, TypeOK, LeaveRow, LeaveStatuses
  <2>3. qr' \in QrPass
    BY <1>2, <2>1, Passes DEF Conclude, TypeOK
  <2>. QED
    BY <1>1, <2>2, <2>3 DEF Conclude, TypeOK
<1>3. CASE x.status # "APPROVED"
  BY <1>1, <1>3 DEF Conclude, TypeOK
<1>. QED
  BY <1>2, <1>3

(* The conclusions a staff decision and a parent's share on an extension.  *)
LEMMA ConclusionRows ==
  ASSUME TypeOK, NEW e \in Exts, DecidingExt(e), NEW isAdmin \in BOOLEAN
  PROVE  LET i == Current(ext[e])
             x == MoveOn(Decide(ext[e], i, "APPROVED"), i)
             y == Rejected(ext[e], RejectionStep(ext[e], isAdmin))
             z == Rejected(ext[e], i)
         IN /\ x \in ExtRow /\ x.wants = ext[e].wants
            /\ y \in ExtRow /\ y.wants = ext[e].wants /\ y.status = "REJECTED"
            /\ z \in ExtRow /\ z.wants = ext[e].wants /\ z.status = "REJECTED"
<1>. DEFINE i == Current(ext[e])
            b == Decide(ext[e], i, "APPROVED")
<1>1. ext[e] \in ExtRow
  BY DEF TypeOK
<1>2. i \in Steps /\ RejectionStep(ext[e], isAdmin) \in Steps
  BY CurrentIsPending, RejectionStepIsPending DEF DecidingExt
<1>3. b \in ExtRow /\ b.wants = ext[e].wants
  <2>1. "APPROVED" \in Decisions
    BY DEF Decisions
  <2>. QED
    BY <1>1, <1>2, <2>1, DecideExt
<1>4. MoveOn(b, i) \in ExtRow /\ MoveOn(b, i).wants = b.wants
  <2>. HIDE DEF b
  <2>. QED
    BY <1>2, <1>3, MoveOnExt
<1>5. /\ Rejected(ext[e], RejectionStep(ext[e], isAdmin)) \in ExtRow
      /\ Rejected(ext[e], RejectionStep(ext[e], isAdmin)).wants = ext[e].wants
      /\ Rejected(ext[e], RejectionStep(ext[e], isAdmin)).status = "REJECTED"
  BY <1>1, <1>2, RejectedExt
<1>6. /\ Rejected(ext[e], i) \in ExtRow
      /\ Rejected(ext[e], i).wants = ext[e].wants
      /\ Rejected(ext[e], i).status = "REJECTED"
  BY <1>1, <1>2, RejectedExt
<1>. QED
  BY <1>3, <1>4, <1>5, <1>6

(* The rows that decisions, refusals and overrides make of the leave's.    *)
LEMMA ApprovedStepRow ==
  ASSUME TypeOK, Deciding
  PROVE  LET l == RunFrom(Decide(leave, Current(leave), "APPROVED"), Current(leave) + 1)
         IN /\ l \in LeaveRow /\ l.endAt = leave.endAt /\ l.mode = leave.mode
            /\ l.status \in {"PENDING", "APPROVED"}
<1>. DEFINE i == Current(leave)
            b == Decide(leave, i, "APPROVED")
<1>1. i \in Steps /\ i + 1 \in Nat
  BY CurrentIsPending, StepsAreNatural DEF Deciding, Steps
<1>2. /\ b \in LeaveRow /\ b.endAt = leave.endAt /\ b.mode = leave.mode
      /\ b.status = "PENDING"
  <2>1. "APPROVED" \in Decisions
    BY DEF Decisions
  <2>. QED
    BY <1>1, <2>1, DecideLeave DEF TypeOK, Deciding
<1>. HIDE DEF b
<1>3. /\ RunFrom(b, i + 1) \in LeaveRow
      /\ RunFrom(b, i + 1).endAt = b.endAt /\ RunFrom(b, i + 1).mode = b.mode
      /\ RunFrom(b, i + 1).status \in {b.status, "APPROVED"}
  BY <1>1, <1>2, RunFromLeave
<1>. QED
  BY <1>2, <1>3 DEF b

LEMMA RefusedStepRow ==
  ASSUME TypeOK, Deciding
  PROVE  LET l == [Decide(leave, Current(leave), "REJECTED")
                     EXCEPT !.status = NextStatus[leave.status].REJECT, !.at = 0]
         IN /\ l \in LeaveRow /\ l.endAt = leave.endAt /\ l.mode = leave.mode
            /\ l.status = "REJECTED"
<1>. DEFINE b == Decide(leave, Current(leave), "REJECTED")
<1>1. b \in LeaveRow /\ b.endAt = leave.endAt /\ b.mode = leave.mode
  <2>1. "REJECTED" \in Decisions /\ Current(leave) \in Steps
    BY CurrentIsPending DEF Decisions, Deciding
  <2>. QED
    BY <2>1, DecideLeave DEF TypeOK
<1>2. NextStatus[leave.status].REJECT = "REJECTED"
  BY DEF Deciding, NextStatus
<1>3. 0 \in ChainSteps
  BY StepsAreNatural DEF ChainSteps
<1>. HIDE DEF b
<1>4. [b EXCEPT !.status = "REJECTED", !.at = 0] \in LeaveRow
  BY <1>1, <1>3 DEF LeaveRow, LeaveStatuses
<1>. QED
  BY <1>1, <1>2, <1>4 DEF b, LeaveRow

(* What an override leaves: a chain walked again from its first step, or   *)
(* an approved leave.                                                      *)
Overridden(all) ==
  LET actionable == Pending(leave) \cup
        (IF leave.status = "REJECTED"
         THEN {i \in Steps : leave.decision[i] = "REJECTED"} ELSE {})
      chosen == IF all THEN actionable ELSE {Earliest(actionable)}
  IN [leave EXCEPT
        !.status = "PENDING",
        !.decision = [i \in Steps |->
           IF i \in chosen THEN "APPROVED" ELSE leave.decision[i]]]

LEMMA OverriddenRow ==
  ASSUME TypeOK, NEW all \in BOOLEAN
  PROVE  /\ Overridden(all) \in LeaveRow
         /\ Overridden(all).status = "PENDING"
         /\ Overridden(all).endAt = leave.endAt /\ Overridden(all).mode = leave.mode
<1>. DEFINE actionable == Pending(leave) \cup
              (IF leave.status = "REJECTED"
               THEN {i \in Steps : leave.decision[i] = "REJECTED"} ELSE {})
            chosen == IF all THEN actionable ELSE {Earliest(actionable)}
            d == [i \in Steps |->
                    IF i \in chosen THEN "APPROVED" ELSE leave.decision[i]]
<1>1. d \in Chain
  <2>. HIDE DEF chosen
  <2>. QED
    BY DEF TypeOK, LeaveRow, Chain, Decisions
<1>2. Overridden(all) = [leave EXCEPT !.status = "PENDING", !.decision = d]
  BY DEF Overridden
<1>. HIDE DEF d
<1>. QED
  BY <1>1, <1>2 DEF TypeOK, LeaveRow, LeaveStatuses

LEMMA OverrideMeans ==
  ASSUME NEW all \in BOOLEAN, Override(all)
  PROVE  /\ leave.status \in {"PENDING", "REJECTED"}
         /\ \/ Advance(RunFrom(Overridden(all), 1))
            \/ /\ Pending(Overridden(all)) = {}
               /\ leave' = [Overridden(all) EXCEPT !.status = "APPROVED", !.at = 0]
               /\ UNCHANGED <<qr, location>>
         /\ recovered' = (recovered \/ leave.status = "REJECTED")
         /\ UNCHANGED <<ext, cancel, completing, due>>
BY DEF Override, Overridden

LEMMA ApprovedOutright ==
  ASSUME NEW l \in LeaveRow
  PROVE  LET m == [l EXCEPT !.status = "APPROVED", !.at = 0]
         IN /\ m \in LeaveRow /\ m.endAt = l.endAt /\ m.mode = l.mode
            /\ m.status = "APPROVED"
<1>1. 0 \in ChainSteps
  BY StepsAreNatural DEF ChainSteps
<1>. QED
  BY <1>1 DEF LeaveRow, LeaveStatuses

LEMMA CancelledExts ==
  ASSUME TypeOK, NEW e \in Exts
  PROVE  /\ CancelledExt(e) \in ExtRow /\ CancelledExt(e).wants = ext[e].wants
         /\ CancelledExt(e).status \in {ext[e].status, "CANCELLED"}
         /\ ext[e].status # "PENDING" => CancelledExt(e).status = ext[e].status
<1>. DEFINE w == IF cancel.locked # {} /\ e \in PendingExts
                 THEN [ext[e] EXCEPT !.status = "CANCELLED", !.at = 0]
                 ELSE ext[e]
<1>1. 0 \in ChainSteps
  BY StepsAreNatural DEF ChainSteps
<1>2. /\ w \in ExtRow /\ w.wants = ext[e].wants
      /\ w.status \in {ext[e].status, "CANCELLED"}
      /\ ext[e].status # "PENDING" => w.status = ext[e].status
  BY <1>1 DEF TypeOK, ExtRow, ExtStatuses, PendingExts
<1>3. CancelledExt(e) = IF e \in cancel.locked THEN CancelPending(w) ELSE w
  BY DEF CancelledExt
<1>. HIDE DEF w
<1>. QED
  BY <1>2, <1>3, CancelPendingExt

LEMMA TypeStep ==
  ASSUME TypeOK, Next
  PROVE  TypeOK'
<1>. USE DEF TypeOK
<1>1. ASSUME NEW mode \in Modes, NEW end \in Ends, CreateLeave(mode, end)
      PROVE  TypeOK'
  <2>1. RunFrom(Submitted(mode, end), 1) \in LeaveRow
    BY SubmittedRow, RunFromLeave
  <2>2. Advance(RunFrom(Submitted(mode, end), 1))
        /\ UNCHANGED <<ext, cancel, completing, due, recovered>>
    BY <1>1 DEF CreateLeave
  <2>3. leave' \in LeaveRow /\ qr' \in QrPass /\ location' \in Locations
    BY <2>1, <2>2, AdvanceTyped
  <2>. QED
    BY <2>2, <2>3
<1>2. CASE ApproveLeave \/ ParentApproves
  <2>. DEFINE l == RunFrom(Decide(leave, Current(leave), "APPROVED"), Current(leave) + 1)
  <2>1. Deciding /\ Advance(l) /\ UNCHANGED <<ext, cancel, completing, due, recovered>>
    BY <1>2 DEF ApproveLeave, ParentApproves
  <2>2. l \in LeaveRow
    BY <2>1, ApprovedStepRow
  <2>. HIDE DEF l
  <2>3. leave' \in LeaveRow /\ qr' \in QrPass /\ location' \in Locations
    BY <2>1, <2>2, AdvanceTyped
  <2>. QED
    BY <2>1, <2>3
<1>3. CASE RefuseStep
  BY <1>3, RefusedStepRow DEF RefuseStep
<1>4. ASSUME NEW isAdmin \in BOOLEAN, RejectLeave(isAdmin) \/ ParentRejects
      PROVE  TypeOK'
  <2>1. Current(leave) \in Steps /\ RejectionStep(leave, isAdmin) \in Steps
    BY <1>4, CurrentIsPending, RejectionStepIsPending
    DEF RejectLeave, ParentRejects, Deciding
  <2>2. leave' \in LeaveRow
    BY <1>4, <2>1, RejectedLeave DEF RejectLeave, ParentRejects
  <2>. QED
    BY <1>4, <2>2 DEF RejectLeave, ParentRejects
<1>5. ASSUME NEW all \in BOOLEAN, Override(all)
      PROVE  TypeOK'
  <2>. DEFINE o == Overridden(all)
  <2>1. o \in LeaveRow
    BY OverriddenRow
  <2>2. /\ \/ Advance(RunFrom(o, 1))
           \/ /\ leave' = [o EXCEPT !.status = "APPROVED", !.at = 0]
              /\ UNCHANGED <<qr, location>>
        /\ recovered' = (recovered \/ leave.status = "REJECTED")
        /\ UNCHANGED <<ext, cancel, completing, due>>
    BY <1>5, OverrideMeans
  <2>. HIDE DEF o
  <2>3. RunFrom(o, 1) \in LeaveRow
    BY <2>1, RunFromLeave
  <2>4. [o EXCEPT !.status = "APPROVED", !.at = 0] \in LeaveRow
    BY <2>1, ApprovedOutright
  <2>5. leave' \in LeaveRow /\ qr' \in QrPass /\ location' \in Locations
    BY <2>2, <2>3, <2>4, AdvanceTyped
  <2>. QED
    BY <2>2, <2>5
<1>6. CASE BeginCancel
  BY <1>6 DEF BeginCancel, PendingExts
<1>7. CASE CancelLeave
  <2>1. leave' \in LeaveRow
    BY <1>7, MovedRow, CancelPendingLeave DEF CancelLeave, Cancellable
  <2>2. ext' \in [Exts -> ExtRow]
    BY <1>7, CancelledExts DEF CancelLeave
  <2>3. qr' \in QrPass
    BY <1>7 DEF CancelLeave, Invalidated, QrPass, QrStatuses
  <2>4. location' \in Locations /\ cancel' \in [open: BOOLEAN, locked: SUBSET Exts]
    BY <1>7, InitialRows DEF CancelLeave, Locations
  <2>. QED
    BY <1>7, <2>1, <2>2, <2>3, <2>4 DEF CancelLeave
<1>8. CASE CancelRefused
  BY <1>8, InitialRows DEF CancelRefused
<1>9. CASE ExpireLeave
  <2>1. leave' \in LeaveRow
    BY <1>9, MovedRow, CancelPendingLeave DEF ExpireLeave
  <2>2. qr' \in QrPass
    BY <1>9 DEF ExpireLeave, Invalidated, QrPass, QrStatuses
  <2>. QED
    BY <1>9, <2>1, <2>2 DEF ExpireLeave
<1>10. CASE CompleteLeave
  <2>1. leave' \in LeaveRow
    BY <1>10, MovedRow DEF CompleteLeave
  <2>2. qr' \in QrPass
    BY <1>10 DEF CompleteLeave, Retired, Invalidated, QrPass, QrStatuses
  <2>. QED
    BY <1>10, <2>1, <2>2 DEF CompleteLeave
<1>11. CASE BeginAutoComplete
  BY <1>11 DEF BeginAutoComplete
<1>12. CASE AutoComplete
  <2>1. leave.status = "APPROVED" => CanTransition(leave.status, "COMPLETE")
    BY DEF CanTransition, NextStatus
  <2>2. leave' \in LeaveRow
    BY <1>12, <2>1, MovedRow DEF AutoComplete
  <2>. QED
    BY <1>12, <2>2 DEF AutoComplete
<1>13. ASSUME NEW e \in Exts, NEW end \in Ends, RequestExtension(e, end)
       PROVE  TypeOK'
  <2>. DEFINE x == [NoExt EXCEPT !.status = "REQUESTED", !.wants = end]
              n == NoExt
  <2>1. n \in ExtRow /\ x = [n EXCEPT !.status = "REQUESTED", !.wants = end]
    BY InitialRows
  <2>2. x \in ExtRow
    <3>. HIDE DEF n
    <3>. QED
      BY <2>1 DEF ExtRow, ExtStatuses
  <2>3. ext' = [ext EXCEPT ![e] = x] /\ UNCHANGED <<leave, qr, location, cancel, completing, due, recovered>>
    BY <1>13 DEF RequestExtension
  <2>. HIDE DEF x
  <2>. QED
    BY <2>2, <2>3
<1>14. ASSUME NEW e \in Exts, CreateExtension(e)
       PROVE  TypeOK'
  <2>1. Opened(ext[e]) \in ExtRow
    BY OpenedExt
  <2>. QED
    BY <1>14, <2>1, ConcludeTyped DEF CreateExtension
<1>15. ASSUME NEW e \in Exts, ExtensionRefused(e)
       PROVE  TypeOK'
  BY <1>15, InitialRows DEF ExtensionRefused
<1>16. ASSUME NEW e \in Exts, NEW isAdmin \in BOOLEAN,
              \/ ApproveExtension(e) \/ ParentApprovesExtension(e)
              \/ RejectExtension(e, isAdmin) \/ ParentRejectsExtension(e)
       PROVE  TypeOK'
  <2>1. DecidingExt(e)
    BY <1>16 DEF ApproveExtension, ParentApprovesExtension, RejectExtension,
         ParentRejectsExtension
  <2>2. \E x \in ExtRow : Conclude(e, x)
    BY <1>16, <2>1, ConclusionRows DEF ApproveExtension, ParentApprovesExtension,
         RejectExtension, ParentRejectsExtension
  <2>. QED
    BY <2>2, ConcludeTyped
<1>17. CASE ExitScan
  BY <1>17 DEF ExitScan, QrPass, Locations
<1>18. CASE ReturnScan
  <2>1. CanTransition(leave.status, "COMPLETE")
    BY <1>18 DEF ReturnScan, Live, CanTransition, NextStatus
  <2>2. leave' \in LeaveRow
    BY <1>18, <2>1, MovedRow DEF ReturnScan
  <2>. QED
    BY <1>18, <2>2 DEF ReturnScan, QrPass, QrStatuses, Locations
<1>19. CASE DailyReturnScan
  BY <1>19 DEF DailyReturnScan, QrPass, Locations
<1>20. CASE InvalidateQr
  BY <1>20 DEF InvalidateQr, Invalidated, QrPass, QrStatuses
<1>21. CASE CleanupQr
  BY <1>21 DEF CleanupQr, QrPass, QrStatuses
<1>22. ASSUME NEW returns \in BOOLEAN, GenerateQr(returns)
       PROVE  TypeOK'
  <2>1. leave.endAt \in Ends \cup {0}
    BY DEF LeaveRow
  <2>. QED
    BY <1>22, <2>1 DEF GenerateQr, NewPass, QrPass, QrStatuses
<1>23. CASE FindOverdue
  BY <1>23 DEF FindOverdue, LeaveRow
<1>24. CASE MarkOverdue
  <2>1. leave' \in LeaveRow
    BY <1>24, MovedRow DEF MarkOverdue
  <2>. QED
    BY <1>24, <2>1 DEF MarkOverdue, Locations
<1>25. CASE OverdueSkipped
  BY <1>25 DEF OverdueSkipped
<1>. QED
  BY <1>1, <1>2, <1>3, <1>4, <1>5, <1>6, <1>7, <1>8, <1>9, <1>10, <1>11, <1>12,
     <1>13, <1>14, <1>15, <1>16, <1>17, <1>18, <1>19, <1>20, <1>21, <1>22, <1>23,
     <1>24, <1>25 DEF Next

(* Whatever the gate, the approvers, the student and the jobs do, in any   *)
(* order, every row of the leave is one the schema allows.                 *)
THEOREM TypeCorrect == Spec => []TypeOK
<1>1. Init => TypeOK
  BY InitialRows DEF Init, TypeOK, Locations
<1>2. TypeOK /\ [Next]_vars => TypeOK'
  <2>1. TypeOK /\ UNCHANGED vars => TypeOK'
    BY DEF vars, TypeOK
  <2>. QED
    BY <2>1, TypeStep
<1>. QED
  BY <1>1, <1>2, PTL DEF Spec

(***************************************************************************)
(* The pass and the gate follow the leave.  Every step of the workflow is  *)
(* first shown to be one of a few kinds, by what it does to the status,    *)
(* the end, the pass and the student; the invariant and the refinement are *)
(* proved of the kinds.                                                    *)
(***************************************************************************)
ExtWants == \A e \in Exts : ext[e].status # "ABSENT" => ext[e].wants \in Ends

(* The strengthening: PassBacked and PassCoversLeave need to know that a   *)
(* pass exists only for a type that has one (so the job's completion of a  *)
(* leave without a pass retires none), the return of a student that nobody *)
(* is out before the leave is approved, the refinement that an extension   *)
(* asks for an end.                                                        *)
PassInv ==
  /\ PassBacked
  /\ PassCoversLeave
  /\ completing => leave.mode = "NONE" /\ leave.status # "ABSENT"
  /\ leave.mode = "NONE" => qr.status = "ABSENT"
  /\ leave.status = "ABSENT" => leave.mode = "NONE" /\ leave.endAt = 0
  /\ leave.status \in {"ABSENT", "PENDING", "REJECTED"} => location = "IN_HOSTEL"
  /\ ~ReturnOnly(leave) /\ Live /\ location # "IN_HOSTEL"
       => qr.status = "ACTIVE" /\ qr.scanned

GateInv == TypeOK /\ ExtWants /\ PassInv

(***************************************************************************)
(* The kinds of steps.                                                     *)
(***************************************************************************)
SameLeave == leave'.endAt = leave.endAt /\ leave'.mode = leave.mode

Issues ==
  \/ UNCHANGED <<qr, location>>
  \/ leave'.status = "APPROVED" /\ IssuePass(leave')

Submits ==
  /\ leave.status = "ABSENT" /\ leave'.status \in {"PENDING", "APPROVED"}
  /\ leave'.endAt \in Ends
  /\ Issues
  /\ UNCHANGED completing

Decides ==
  /\ leave.status \in {"PENDING", "REJECTED"}
  /\ leave'.status \in {"PENDING", "REJECTED", "APPROVED"}
  /\ SameLeave /\ Issues
  /\ UNCHANGED completing

\* A cancellation or an expiry, of a leave nobody is out on by its pass.
Stops ==
  /\ leave.status \in {"PENDING", "APPROVED"}
  /\ leave'.status \in {"CANCELLED", "EXPIRED"}
  /\ SameLeave
  /\ \/ qr' = Invalidated(qr) /\ ~(qr.status = "ACTIVE" /\ qr.scanned)
     \/ UNCHANGED qr /\ leave.status = "PENDING"
  /\ UNCHANGED completing

Completes ==
  /\ leave.status \in {"APPROVED", "OVERDUE"} /\ leave'.status = "COMPLETED"
  /\ SameLeave
  /\ \/ qr' = Retired(qr) /\ UNCHANGED completing
     \/ qr' = [qr EXCEPT !.status = "USED"] /\ UNCHANGED completing /\ qr.status = "ACTIVE"
     \/ completing /\ ~completing' /\ UNCHANGED qr

FallsDue ==
  /\ leave.status = "APPROVED" /\ leave'.status = "OVERDUE"
  /\ SameLeave
  /\ location' = IF location = "OUTSIDE_HOSTEL" THEN "OVERDUE" ELSE location
  /\ UNCHANGED <<qr, completing>>

Prolongs ==
  /\ Live /\ leave'.status = "APPROVED"
  /\ leave'.endAt \in Ends /\ leave'.mode = leave.mode
  /\ \E e \in Exts : /\ ext[e].status \in {"REQUESTED", "PENDING"}
                    /\ ext'[e].status = "APPROVED"
                    /\ leave'.endAt = ext[e].wants
  /\ qr' = Widened(qr, leave'.endAt)
  /\ UNCHANGED <<location, completing>>

AtTheGate ==
  \/ ExitScan \/ DailyReturnScan \/ InvalidateQr \/ CleanupQr
  \/ \E returns \in BOOLEAN : GenerateQr(returns)

Elsewhere ==
  /\ UNCHANGED <<leave, qr, location>>
  /\ \/ UNCHANGED completing
     \/ ~completing'
     \/ leave.mode = "NONE" /\ leave.status = "APPROVED"

Kinds ==
  \/ Submits \/ Decides \/ Stops \/ Completes \/ FallsDue \/ Prolongs
  \/ AtTheGate \/ Elsewhere

LEMMA KindStep ==
  ASSUME TypeOK, ExtWants, Next
  PROVE  Kinds
<1>. USE DEF SameLeave
<1>1. ASSUME NEW mode \in Modes, NEW end \in Ends, CreateLeave(mode, end)
      PROVE  Kinds
  <2>. DEFINE l == RunFrom(Submitted(mode, end), 1)
  <2>1. l.endAt = end /\ l.status \in {"PENDING", "APPROVED"}
    BY SubmittedRow, RunFromLeave
  <2>2. leave.status = "ABSENT" /\ Advance(l) /\ UNCHANGED completing
    BY <1>1 DEF CreateLeave
  <2>. HIDE DEF l
  <2>3. Submits
    BY <2>1, <2>2 DEF Submits, Issues, Advance
  <2>. QED
    BY <2>3 DEF Kinds
<1>2. CASE ApproveLeave \/ ParentApproves
  <2>. DEFINE l == RunFrom(Decide(leave, Current(leave), "APPROVED"), Current(leave) + 1)
  <2>1. Deciding /\ Advance(l) /\ UNCHANGED completing
    BY <1>2 DEF ApproveLeave, ParentApproves
  <2>2. l.endAt = leave.endAt /\ l.mode = leave.mode /\ l.status \in {"PENDING", "APPROVED"}
    BY <2>1, ApprovedStepRow
  <2>. HIDE DEF l
  <2>3. Decides
    BY <2>1, <2>2 DEF Decides, Issues, Advance, Deciding
  <2>. QED
    BY <2>3 DEF Kinds
<1>3. CASE RefuseStep
  <2>1. Decides
    BY <1>3, RefusedStepRow DEF RefuseStep, Decides, Issues, Deciding
  <2>. QED
    BY <2>1 DEF Kinds
<1>4. ASSUME NEW isAdmin \in BOOLEAN, RejectLeave(isAdmin) \/ ParentRejects
      PROVE  Kinds
  <2>1. Current(leave) \in Steps /\ RejectionStep(leave, isAdmin) \in Steps
    BY <1>4, CurrentIsPending, RejectionStepIsPending
    DEF RejectLeave, ParentRejects, Deciding
  <2>2. leave'.status = "REJECTED" /\ SameLeave
    BY <1>4, <2>1, RejectedLeave DEF RejectLeave, ParentRejects, TypeOK
  <2>3. Decides
    BY <1>4, <2>2 DEF RejectLeave, ParentRejects, Decides, Issues, Deciding
  <2>. QED
    BY <2>3 DEF Kinds
<1>5. ASSUME NEW all \in BOOLEAN, Override(all)
      PROVE  Kinds
  <2>. DEFINE o == Overridden(all)
              l == RunFrom(o, 1)
              m == [o EXCEPT !.status = "APPROVED", !.at = 0]
  <2>1. /\ o \in LeaveRow /\ o.status = "PENDING"
        /\ o.endAt = leave.endAt /\ o.mode = leave.mode
    BY OverriddenRow
  <2>2. /\ leave.status \in {"PENDING", "REJECTED"}
        /\ \/ Advance(l)
           \/ leave' = m /\ UNCHANGED <<qr, location>>
        /\ UNCHANGED completing
    BY <1>5, OverrideMeans
  <2>. HIDE DEF o
  <2>3. /\ l.status \in {"PENDING", "APPROVED"}
        /\ l.endAt = leave.endAt /\ l.mode = leave.mode
    BY <2>1, RunFromLeave
  <2>4. m.status = "APPROVED" /\ m.endAt = leave.endAt /\ m.mode = leave.mode
    BY <2>1, ApprovedOutright
  <2>. HIDE DEF l, m
  <2>5. CASE Advance(l)
    BY <2>2, <2>3, <2>5 DEF Decides, Issues, Advance, Kinds
  <2>6. CASE leave' = m /\ UNCHANGED <<qr, location>>
    BY <2>2, <2>4, <2>6 DEF Decides, Issues, Kinds
  <2>. QED
    BY <2>2, <2>5, <2>6
<1>6. CASE BeginCancel \/ CancelRefused \/ FindOverdue \/ OverdueSkipped
  BY <1>6 DEF BeginCancel, CancelRefused, FindOverdue, OverdueSkipped, Elsewhere, Kinds
<1>7. CASE CancelLeave
  <2>1. CanTransition(leave.status, "CANCEL") /\ leave' = CancelPending(Moved("CANCEL"))
    BY <1>7 DEF CancelLeave, Cancellable
  <2>2. /\ leave.status \in {"PENDING", "APPROVED"}
        /\ leave'.status = "CANCELLED" /\ SameLeave
    BY <2>1, MovedRow, CancelPendingLeave DEF TypeOK
  <2>3. \/ qr' = Invalidated(qr) /\ ~(qr.status = "ACTIVE" /\ qr.scanned)
        \/ UNCHANGED qr /\ leave.status = "PENDING"
    BY <1>7, <2>2 DEF CancelLeave, Cancellable, TypeOK, QrPass
  <2>4. Stops
    BY <1>7, <2>2, <2>3 DEF Stops, CancelLeave
  <2>. QED
    BY <2>4 DEF Kinds
<1>8. CASE ExpireLeave
  <2>1. CanTransition(leave.status, "EXPIRE")
        /\ leave' \in {Moved("EXPIRE"), CancelPending(Moved("EXPIRE"))}
    BY <1>8 DEF ExpireLeave
  <2>2. /\ leave.status \in {"PENDING", "APPROVED"}
        /\ leave'.status = "EXPIRED" /\ SameLeave
    BY <2>1, MovedRow, CancelPendingLeave DEF TypeOK
  <2>3. Stops
    BY <1>8, <2>2 DEF Stops, ExpireLeave
  <2>. QED
    BY <2>3 DEF Kinds
<1>9. CASE CompleteLeave
  <2>1. /\ leave.status \in {"APPROVED", "OVERDUE"}
        /\ leave'.status = "COMPLETED" /\ SameLeave
    BY <1>9, MovedRow DEF CompleteLeave, TypeOK
  <2>2. Completes
    BY <1>9, <2>1 DEF Completes, CompleteLeave
  <2>. QED
    BY <2>2 DEF Kinds
<1>10. CASE BeginAutoComplete
  BY <1>10 DEF BeginAutoComplete, Elsewhere, Kinds
<1>11. CASE AutoComplete /\ leave.status = "APPROVED"
  <2>1. leave' = Moved("COMPLETE") /\ CanTransition(leave.status, "COMPLETE")
    BY <1>11 DEF AutoComplete, CanTransition, NextStatus
  <2>2. leave'.status = "COMPLETED" /\ SameLeave
    BY <2>1, MovedRow DEF TypeOK
  <2>3. Completes
    BY <1>11, <2>2 DEF Completes, AutoComplete
  <2>. QED
    BY <2>3 DEF Kinds
<1>12. CASE AutoComplete /\ leave.status # "APPROVED"
  BY <1>12 DEF AutoComplete, Elsewhere, Kinds
<1>13. ASSUME NEW e \in Exts, ext[e].status \in {"REQUESTED", "PENDING"}, Live, NEW x \in ExtRow,
              x.wants = ext[e].wants, Conclude(e, x)
       PROVE  Kinds
  <2>1. x.wants \in Ends
    BY <1>13 DEF ExtWants
  <2>2. CASE x.status = "APPROVED"
    <3>1. leave'.endAt = x.wants /\ leave'.status = "APPROVED" /\ leave'.mode = leave.mode
      BY <1>13, <2>2 DEF Conclude, TypeOK, LeaveRow
    <3>2. ext'[e] = x
      BY <1>13 DEF Conclude, TypeOK
    <3>3. Prolongs
      BY <1>13, <2>1, <2>2, <3>1, <3>2 DEF Prolongs, Conclude
    <3>. QED
      BY <3>3 DEF Kinds
  <2>3. CASE x.status # "APPROVED"
    BY <1>13, <2>3 DEF Conclude, Elsewhere, Kinds
  <2>. QED
    BY <2>2, <2>3
<1>14. ASSUME NEW e \in Exts,
              ExtensionRefused(e) \/ \E end \in Ends : RequestExtension(e, end)
       PROVE  Kinds
  BY <1>14 DEF RequestExtension, ExtensionRefused, Elsewhere, Kinds
<1>15. ASSUME NEW e \in Exts, CreateExtension(e)
       PROVE  Kinds
  <2>1. Opened(ext[e]) \in ExtRow /\ Opened(ext[e]).wants = ext[e].wants
    BY OpenedExt DEF TypeOK
  <2>. QED
    BY <1>13, <1>15, <2>1 DEF CreateExtension
<1>16. ASSUME NEW e \in Exts, NEW isAdmin \in BOOLEAN,
              \/ ApproveExtension(e) \/ ParentApprovesExtension(e)
              \/ RejectExtension(e, isAdmin) \/ ParentRejectsExtension(e)
       PROVE  Kinds
  <2>1. DecidingExt(e)
    BY <1>16 DEF ApproveExtension, ParentApprovesExtension, RejectExtension,
         ParentRejectsExtension
  <2>2. \E x \in ExtRow : x.wants = ext[e].wants /\ Conclude(e, x)
    BY <1>16, <2>1, ConclusionRows DEF ApproveExtension, ParentApprovesExtension,
         RejectExtension, ParentRejectsExtension
  <2>. QED
    BY <1>13, <2>1, <2>2 DEF DecidingExt
<1>17. CASE ReturnScan
  <2>1. CanTransition(leave.status, "COMPLETE") /\ leave' = Moved("COMPLETE")
    BY <1>17 DEF ReturnScan, Live, CanTransition, NextStatus
  <2>2. leave'.status = "COMPLETED" /\ SameLeave
    BY <2>1, MovedRow DEF TypeOK
  <2>3. Completes
    BY <1>17, <2>2 DEF Completes, ReturnScan, Live
  <2>. QED
    BY <2>3 DEF Kinds
<1>18. CASE ExitScan \/ DailyReturnScan \/ InvalidateQr \/ CleanupQr
  BY <1>18 DEF AtTheGate, Kinds
<1>19. ASSUME NEW returns \in BOOLEAN, GenerateQr(returns)
       PROVE  Kinds
  BY <1>19 DEF AtTheGate, Kinds
<1>20. CASE MarkOverdue
  <2>1. leave.status = "APPROVED" /\ leave'.status = "OVERDUE" /\ SameLeave
    BY <1>20, MovedRow DEF MarkOverdue, TypeOK
  <2>2. FallsDue
    BY <1>20, <2>1 DEF FallsDue, MarkOverdue
  <2>. QED
    BY <2>2 DEF Kinds
<1>. QED
  BY <1>1, <1>2, <1>3, <1>4, <1>5, <1>6, <1>7, <1>8, <1>9, <1>10, <1>11, <1>12,
     <1>14, <1>15, <1>16, <1>17, <1>18, <1>19, <1>20 DEF Next

LEMMA ExtWantsStep ==
  ASSUME TypeOK, ExtWants, Next
  PROVE  ExtWants'
<1>1. ASSUME UNCHANGED ext
      PROVE  ExtWants'
  BY <1>1 DEF ExtWants
<1>2. ASSUME NEW e \in Exts, ext[e].status # "ABSENT", NEW x \in ExtRow,
             x.wants = ext[e].wants, Conclude(e, x)
      PROVE  ExtWants'
  <2>1. ext' = [ext EXCEPT ![e] = x] /\ x.wants \in Ends
    BY <1>2 DEF Conclude, ExtWants
  <2>. QED
    BY <2>1 DEF ExtWants, TypeOK
<1>3. CASE CancelLeave
  <2>1. \A e \in Exts : ext'[e] = CancelledExt(e)
    BY <1>3 DEF CancelLeave
  <2>2. ASSUME NEW e \in Exts, ext'[e].status # "ABSENT"
        PROVE  ext'[e].wants \in Ends
    BY <2>1, <2>2, CancelledExts DEF ExtWants
  <2>. QED
    BY <2>2 DEF ExtWants
<1>4. ASSUME NEW e \in Exts, NEW end \in Ends, RequestExtension(e, end)
      PROVE  ExtWants'
  <2>. DEFINE x == [NoExt EXCEPT !.status = "REQUESTED", !.wants = end]
  <2>1. x.wants = end
    BY DEF NoExt
  <2>2. ext' = [ext EXCEPT ![e] = x]
    BY <1>4 DEF RequestExtension
  <2>. HIDE DEF x
  <2>. QED
    BY <2>1, <2>2 DEF ExtWants, TypeOK
<1>5. ASSUME NEW e \in Exts, ExtensionRefused(e)
      PROVE  ExtWants'
  <2>1. ext' = [ext EXCEPT ![e] = NoExt] /\ NoExt.status = "ABSENT"
    BY <1>5 DEF ExtensionRefused, NoExt
  <2>. QED
    BY <2>1 DEF ExtWants, TypeOK
<1>6. ASSUME NEW e \in Exts, CreateExtension(e)
      PROVE  ExtWants'
  <2>1. Opened(ext[e]) \in ExtRow /\ Opened(ext[e]).wants = ext[e].wants
    BY OpenedExt DEF TypeOK
  <2>. QED
    BY <1>2, <1>6, <2>1 DEF CreateExtension
<1>7. ASSUME NEW e \in Exts, NEW isAdmin \in BOOLEAN,
             \/ ApproveExtension(e) \/ ParentApprovesExtension(e)
             \/ RejectExtension(e, isAdmin) \/ ParentRejectsExtension(e)
      PROVE  ExtWants'
  <2>1. DecidingExt(e)
    BY <1>7 DEF ApproveExtension, ParentApprovesExtension, RejectExtension,
         ParentRejectsExtension
  <2>2. \E x \in ExtRow : x.wants = ext[e].wants /\ Conclude(e, x)
    BY <1>7, <2>1, ConclusionRows DEF ApproveExtension, ParentApprovesExtension,
         RejectExtension, ParentRejectsExtension
  <2>. QED
    BY <1>2, <2>1, <2>2 DEF DecidingExt
<1>8. CASE \/ \E mode \in Modes, end \in Ends : CreateLeave(mode, end)
           \/ ApproveLeave \/ RefuseStep \/ ParentApproves \/ ParentRejects
           \/ \E isAdmin \in BOOLEAN : RejectLeave(isAdmin)
           \/ \E all \in BOOLEAN : Override(all)
  BY <1>1, <1>8 DEF CreateLeave, ApproveLeave, RefuseStep, ParentApproves,
     ParentRejects, RejectLeave, Override
<1>9. CASE \/ BeginCancel \/ CancelRefused \/ ExpireLeave \/ CompleteLeave
           \/ BeginAutoComplete \/ AutoComplete
  BY <1>1, <1>9 DEF BeginCancel, CancelRefused, ExpireLeave, CompleteLeave,
     BeginAutoComplete, AutoComplete
<1>10. CASE \/ ExitScan \/ ReturnScan \/ DailyReturnScan \/ InvalidateQr
            \/ CleanupQr \/ \E returns \in BOOLEAN : GenerateQr(returns)
            \/ FindOverdue \/ MarkOverdue \/ OverdueSkipped
  BY <1>1, <1>10 DEF ExitScan, ReturnScan, DailyReturnScan, InvalidateQr,
     CleanupQr, GenerateQr, FindOverdue, MarkOverdue, OverdueSkipped
<1>. QED
  BY <1>3, <1>4, <1>5, <1>6, <1>7, <1>8, <1>9, <1>10 DEF Next

(***************************************************************************)
(* Each kind of step keeps the invariant.                                  *)
(***************************************************************************)
LEMMA PassStep ==
  ASSUME TypeOK, PassInv, Kinds
  PROVE  PassInv'
<1>. USE DEF PassInv, PassBacked, PassCoversLeave, Live, SameLeave,
         ReturnOnly
<1>1. CASE Submits \/ Decides
  <2>1. leave.status \in {"ABSENT", "PENDING", "REJECTED"}
        /\ qr.status # "ACTIVE" /\ location = "IN_HOSTEL"
    BY <1>1 DEF Submits, Decides
  <2>2. CASE UNCHANGED <<qr, location>>
    BY <1>1, <2>1, <2>2 DEF Submits, Decides
  <2>3. CASE leave'.status = "APPROVED" /\ IssuePass(leave')
    BY <1>1, <2>1, <2>3 DEF Submits, Decides, IssuePass, NewPass
  <2>. QED
    BY <1>1, <2>2, <2>3 DEF Submits, Decides, Issues
<1>2. CASE Stops
  <2>1. qr'.status # "ACTIVE" /\ (qr.status = "ABSENT" => qr'.status = "ABSENT")
    BY <1>2 DEF Stops, Invalidated, TypeOK, QrPass
  <2>. QED
    BY <1>2, <2>1 DEF Stops
<1>3. CASE Completes
  <2>1. qr'.status # "ACTIVE" /\ (qr.status = "ABSENT" => qr'.status = "ABSENT")
    BY <1>3 DEF Completes, Retired, Invalidated, TypeOK, QrPass
  <2>. QED
    BY <1>3, <2>1 DEF Completes
<1>4. CASE FallsDue
  BY <1>4 DEF FallsDue
<1>5. CASE Prolongs
  BY <1>5 DEF Prolongs, Widened, TypeOK, QrPass
<1>6. CASE ExitScan
  BY <1>6 DEF ExitScan, TypeOK, QrPass
<1>7. CASE DailyReturnScan
  BY <1>7 DEF DailyReturnScan, TypeOK, QrPass
<1>8. CASE InvalidateQr \/ CleanupQr
  <2>1. qr'.status \in {"INVALIDATED", "EXPIRED"} /\ ~qr.scanned /\ qr.status = "ACTIVE"
    BY <1>8 DEF InvalidateQr, CleanupQr, Invalidated, TypeOK, QrPass
  <2>2. UNCHANGED <<leave, location, completing>>
    BY <1>8 DEF InvalidateQr, CleanupQr
  <2>. QED
    BY <2>1, <2>2
<1>9. ASSUME NEW returns \in BOOLEAN, GenerateQr(returns)
      PROVE  PassInv'
  BY <1>9 DEF GenerateQr, NewPass
<1>10. CASE Elsewhere
  BY <1>10 DEF Elsewhere
<1>. QED
  BY <1>1, <1>2, <1>3, <1>4, <1>5, <1>6, <1>7, <1>8, <1>9, <1>10 DEF Kinds, AtTheGate

LEMMA GateInvariant == Spec => []GateInv
<1>1. Init => GateInv
  <2>1. Init => TypeOK
    BY InitialRows DEF Init, TypeOK, Locations
  <2>. QED
    BY <2>1 DEF Init, GateInv, ExtWants, PassInv, PassBacked, PassCoversLeave,
       Live, NoLeave, NoExt, NoPass, ReturnOnly
<1>2. GateInv /\ [Next]_vars => GateInv'
  <2>1. CASE Next
    BY <2>1, TypeStep, ExtWantsStep, KindStep, PassStep DEF GateInv
  <2>2. CASE UNCHANGED vars
    BY <2>2 DEF vars, GateInv, TypeOK, ExtWants, PassInv, PassBacked,
       PassCoversLeave, OutCanReturn, Live, ReturnOnly
  <2>. QED
    BY <2>1, <2>2
<1>. QED
  BY <1>1, <1>2, PTL DEF Spec

(* The gate accepts a pass only for a leave that is approved or overdue,   *)
(* however the leave came to its end.                                      *)
THEOREM PassEndsWithLeave == Spec => []PassBacked
<1>1. GateInv => PassBacked
  BY DEF GateInv, PassInv
<1>. QED
  BY <1>1, GateInvariant, PTL

(* A pass in use is good until the leave ends, whatever extensions were    *)
(* approved, by whom and in which order.                                   *)
THEOREM WindowFollowsLeave == Spec => []PassCoversLeave
<1>1. GateInv => PassCoversLeave
  BY DEF GateInv, PassInv
<1>. QED
  BY <1>1, GateInvariant, PTL

(* A student who has left on a pass of a type with an exit keeps it as     *)
(* long as the leave is live: no cancellation, expiry, invalidation, job   *)
(* or extension strands the student.                                       *)
THEOREM NobodyStranded == Spec => [](~ReturnOnly(leave) => OutCanReturn)
<1>1. GateInv => (~ReturnOnly(leave) => OutCanReturn)
  BY DEF GateInv, PassInv, OutCanReturn
<1>. QED
  BY <1>1, GateInvariant, PTL

(***************************************************************************)
(* The workflow implements LeaveLifecycle.                                 *)
(***************************************************************************)
LEMMA LifecycleStep ==
  ASSUME GateInv, GateInv', [Next]_vars
  PROVE  [Lifecycle!Next]_<<leave.status, qr.status = "ACTIVE", leave.endAt>>
<1>. USE DEF GateInv, PassInv, PassBacked, Live, SameLeave
<1>. DEFINE usable == qr.status = "ACTIVE"
            Same == leave'.status = leave.status /\ usable' = usable /\ leave'.endAt = leave.endAt
<1>1. CASE UNCHANGED vars
  <2>1. Same
    BY <1>1 DEF vars
  <2>. QED
    BY <2>1
<1>2. CASE Submits
  <2>1. leave'.status = "PENDING" => usable' = usable
    BY <1>2 DEF Submits
  <2>2. Lifecycle!Submit
    BY <1>2, <2>1 DEF Submits, Lifecycle!Submit, Lifecycle!Approve
  <2>. QED
    BY <2>2 DEF Lifecycle!Next
<1>3. CASE Decides
  <2>1. leave'.status # "APPROVED" => usable' = usable
    BY <1>3 DEF Decides
  <2>2. Lifecycle!Decide \/ Same
    BY <1>3, <2>1 DEF Decides, Lifecycle!Decide, Lifecycle!Approve
  <2>. QED
    BY <2>2 DEF Lifecycle!Next
<1>4. CASE Stops \/ Completes
  <2>1. ~usable'
    BY <1>4 DEF Stops, Completes
  <2>2. Lifecycle!End
    BY <1>4, <2>1 DEF Stops, Completes, Lifecycle!End
  <2>. QED
    BY <2>2 DEF Lifecycle!Next
<1>5. CASE FallsDue
  <2>1. Lifecycle!FallDue
    BY <1>5 DEF FallsDue, Lifecycle!FallDue
  <2>. QED
    BY <2>1 DEF Lifecycle!Next
<1>6. CASE Prolongs
  <2>1. usable' = usable
    BY <1>6 DEF Prolongs, Widened, TypeOK, QrPass
  <2>2. Lifecycle!Extend
    BY <1>6, <2>1 DEF Prolongs, Lifecycle!Extend
  <2>. QED
    BY <2>2 DEF Lifecycle!Next
<1>7. CASE ExitScan \/ DailyReturnScan
  <2>1. Same
    BY <1>7 DEF ExitScan, DailyReturnScan, TypeOK, QrPass
  <2>. QED
    BY <2>1
<1>8. CASE InvalidateQr \/ CleanupQr
  <2>1. ~usable'
    BY <1>8 DEF InvalidateQr, CleanupQr, Invalidated, TypeOK, QrPass
  <2>2. Lifecycle!Revoke
    BY <1>8, <2>1 DEF InvalidateQr, CleanupQr, Lifecycle!Revoke
  <2>. QED
    BY <2>2 DEF Lifecycle!Next
<1>9. ASSUME NEW returns \in BOOLEAN, GenerateQr(returns)
      PROVE  Lifecycle!Next
  <2>1. Lifecycle!Reissue
    BY <1>9 DEF GenerateQr, NewPass, Lifecycle!Reissue
  <2>. QED
    BY <2>1 DEF Lifecycle!Next
<1>10. CASE Elsewhere
  <2>1. Same
    BY <1>10 DEF Elsewhere
  <2>. QED
    BY <2>1
<1>. QED
  BY <1>1, <1>2, <1>3, <1>4, <1>5, <1>6, <1>7, <1>8, <1>9, <1>10, KindStep
  DEF Kinds, AtTheGate

(* For every workflow, type of leave and set of extensions the detailed    *)
(* leave does what LeaveLifecycle promises.                                *)
THEOREM WorkflowImplementsLifecycle == Spec => RefinesLifecycle
<1>1. Init => Lifecycle!Init
  BY DEF Init, Lifecycle!Init, NoLeave, NoPass
<1>2. GateInv /\ GateInv' /\ [Next]_vars => [Lifecycle!Next]_Lifecycle!vars
  BY LifecycleStep DEF Lifecycle!vars
<1>. QED
  BY <1>1, <1>2, GateInvariant, PTL DEF Spec, RefinesLifecycle, Lifecycle!Spec

(* A cancelled, completed or expired leave stays so: it is what            *)
(* LeaveLifecycle promises of such a status.                               *)
THEOREM EndIsFinal == Spec => EndedStaysEnded
<1>1. [Lifecycle!Next]_Lifecycle!vars
      => (leave.status \in {"CANCELLED", "COMPLETED", "EXPIRED"}
            => leave'.status = leave.status)
  BY DEF Lifecycle!Next, Lifecycle!vars, Lifecycle!Submit, Lifecycle!Approve,
     Lifecycle!Decide, Lifecycle!End, Lifecycle!Reissue, Lifecycle!Revoke,
     Lifecycle!FallDue, Lifecycle!Extend
<1>2. GateInv /\ GateInv' /\ [Next]_vars => [Lifecycle!Next]_Lifecycle!vars
  BY LifecycleStep DEF Lifecycle!vars
<1>3. GateInv /\ GateInv' /\ [Next]_vars
      => [leave.status \in {"CANCELLED", "COMPLETED", "EXPIRED"}
            => leave'.status = leave.status]_vars
  BY <1>1, <1>2
<1>. QED
  BY <1>3, GateInvariant, PTL DEF Spec, EndedStaysEnded

(* The end of a leave moves only with the approval of an extension that    *)
(* was still open, and to the end it asked for.                            *)
THEOREM WindowIsAskedFor == Spec => WindowMovesByApproval
<1>. DEFINE Moves ==
       leave.endAt # 0 /\ leave'.endAt # leave.endAt =>
         \E e \in Exts : /\ ext[e].status \in {"REQUESTED", "PENDING"}
                         /\ ext'[e].status = "APPROVED"
                         /\ leave'.endAt = ext[e].wants
<1>1. ASSUME GateInv, Next PROVE Moves
  <2>1. Kinds
    BY <1>1, KindStep DEF GateInv
  <2>2. CASE Submits
    BY <1>1, <2>2 DEF Submits, GateInv, PassInv
  <2>3. CASE Decides \/ Stops \/ Completes \/ FallsDue
    BY <2>3 DEF Decides, Stops, Completes, FallsDue, SameLeave
  <2>4. CASE Prolongs
    BY <2>4 DEF Prolongs
  <2>5. CASE AtTheGate \/ Elsewhere
    BY <2>5 DEF AtTheGate, Elsewhere, ExitScan, DailyReturnScan, InvalidateQr,
       CleanupQr, GenerateQr
  <2>. QED
    BY <2>1, <2>2, <2>3, <2>4, <2>5 DEF Kinds
<1>2. GateInv /\ [Next]_vars => [Moves]_vars
  BY <1>1
<1>. QED
  BY <1>2, GateInvariant, PTL DEF Spec, WindowMovesByApproval

(***************************************************************************)
(* The approval chain of a leave never stalls and is never passed with a   *)
(* step undecided, for any number of steps, any of them a parent's or      *)
(* automatic.                                                              *)
(***************************************************************************)
(* The strengthening: an override reopens a rejected leave at its rejected *)
(* step, so there must be exactly one and it must come before every step   *)
(* that was left pending; and a pending leave has no rejected step, nor a  *)
(* cancelled one unless it was reopened.                                   *)
OneRefusal(c) ==
  \E r \in Steps :
    /\ c.decision[r] = "REJECTED"
    /\ \A i \in Steps : c.decision[i] = "REJECTED" => i = r
    /\ \A j \in Steps : c.decision[j] = "PENDING" => r < j

TurnInv ==
  /\ leave.status = "ABSENT" => \A i \in Steps : leave.decision[i] = "PENDING"
  /\ leave.status = "PENDING" =>
       \A i \in Steps : /\ leave.decision[i] # "REJECTED"
                        /\ leave.decision[i] = "CANCELLED" => recovered
  /\ leave.status = "REJECTED" => OneRefusal(leave)
  /\ LeaveHasTurn
  /\ ApprovedByAll

(***************************************************************************)
(* What the walk along the chain leaves behind it, when no step before its *)
(* start is pending.                                                       *)
(***************************************************************************)
LEMMA RunFromTurn ==
  ASSUME NEW l \in LeaveRow, NEW i \in Nat,
         \A j \in Steps : l.decision[j] = "PENDING" => i <= j
  PROVE  LET m == RunFrom(l, i)
         IN /\ \A j \in Steps : \/ m.decision[j] = l.decision[j]
                                \/ l.decision[j] = "PENDING" /\ m.decision[j] = "APPROVED"
            /\ \/ /\ m.status = l.status
                  /\ m.at \in Pending(m) \ AutoSteps
                  /\ Pending(m) \cap 1..(m.at - 1) = {}
               \/ /\ m.status = "APPROVED"
                  /\ \A j \in Steps : m.decision[j] # "PENDING"
<1>. DEFINE waiting == {j \in Pending(l) \ AutoSteps : i <= j}
            stop == IF waiting = {} THEN N + 1 ELSE Earliest(waiting)
            d == [j \in Steps |->
                    IF j \in Pending(l) /\ i <= j /\ j < stop
                    THEN "APPROVED" ELSE l.decision[j]]
            m == RunFrom(l, i)
<1>1. m = [l EXCEPT !.decision = d,
                    !.at = IF waiting = {} THEN 0 ELSE stop,
                    !.status = IF waiting = {} THEN "APPROVED" ELSE @]
  BY DEF RunFrom
<1>2. \A j \in Steps : d[j] = IF l.decision[j] = "PENDING" /\ j < stop
                              THEN "APPROVED" ELSE l.decision[j]
  BY DEF Pending
<1>3. waiting # {} => /\ stop \in waiting
                      /\ \A j \in waiting : stop <= j
  <2>1. waiting \subseteq Nat
    BY StepsAreNatural DEF Pending
  <2>. QED
    BY <2>1, EarliestIs
<1>4. waiting = {j \in Steps \ AutoSteps : l.decision[j] = "PENDING"}
  BY DEF Pending
<1>5. waiting = {} => stop = N + 1
  OBVIOUS
<1>. HIDE DEF d, stop
<1>6. m.decision = d
  BY <1>1 DEF LeaveRow
<1>7. CASE waiting = {}
  <2>1. m.status = "APPROVED"
    BY <1>1, <1>7 DEF LeaveRow
  <2>2. ASSUME NEW j \in Steps
        PROVE  m.decision[j] # "PENDING"
    <3>1. j < stop
      BY <1>5, <1>7, StepsAreNatural DEF Steps
    <3>. QED
      BY <1>2, <1>6, <3>1
  <2>. QED
    BY <1>2, <1>6, <2>1, <2>2
<1>8. CASE waiting # {}
  <2>1. m.status = l.status /\ m.at = stop
    BY <1>1, <1>8 DEF LeaveRow
  <2>2. stop \in Steps \ AutoSteps /\ l.decision[stop] = "PENDING"
    BY <1>3, <1>4, <1>8
  <2>3. ~(stop < stop)
    BY <2>2, StepsAreNatural
  <2>4. d[stop] = "PENDING"
    BY <1>2, <2>2, <2>3
  <2>5. ASSUME NEW j \in Steps, d[j] = "PENDING"
        PROVE  ~(j < stop)
    BY <1>2, <2>5
  <2>6. Pending(m) \cap 1..(stop - 1) = {}
    BY <1>6, <2>2, <2>5, StepsAreNatural DEF Pending, Steps
  <2>7. stop \in Pending(m) \ AutoSteps
    BY <1>6, <2>2, <2>4 DEF Pending
  <2>. QED
    BY <1>2, <1>6, <2>1, <2>6, <2>7
<1>. QED
  BY <1>7, <1>8

(* A chain in order that is walked from there is in order again.           *)
LEMMA WalkedInOrder ==
  ASSUME NEW l \in LeaveRow, NEW i \in Nat, l.status = "PENDING",
         \A j \in Steps : /\ l.decision[j] # "REJECTED"
                          /\ l.decision[j] = "CANCELLED" => recovered'
                          /\ l.decision[j] = "PENDING" => i <= j,
         leave' = RunFrom(l, i)
  PROVE  TurnInv'
<1>1. /\ \A j \in Steps :
            \/ leave'.decision[j] = l.decision[j]
            \/ l.decision[j] = "PENDING" /\ leave'.decision[j] = "APPROVED"
      /\ \/ /\ leave'.status = "PENDING"
            /\ leave'.at \in Pending(leave') \ AutoSteps
            /\ Pending(leave') \cap 1..(leave'.at - 1) = {}
         \/ /\ leave'.status = "APPROVED"
            /\ \A j \in Steps : leave'.decision[j] # "PENDING"
  BY RunFromTurn
<1>2. ASSUME NEW j \in Steps
      PROVE  /\ leave'.decision[j] # "REJECTED"
             /\ leave'.decision[j] = "CANCELLED" => recovered'
  BY <1>1
<1>3. CASE leave'.status = "PENDING"
  BY <1>1, <1>2, <1>3 DEF TurnInv, LeaveHasTurn, ApprovedByAll
<1>4. CASE leave'.status = "APPROVED"
  <2>1. ASSUME NEW j \in Steps
        PROVE  \/ leave'.decision[j] = "APPROVED"
               \/ recovered' /\ leave'.decision[j] = "CANCELLED"
    <3>1. leave' \in LeaveRow
      BY RunFromLeave
    <3>2. leave'.decision[j] \in Decisions
      BY <3>1 DEF LeaveRow, Chain
    <3>3. leave'.decision[j] # "PENDING"
      BY <1>1, <1>4
    <3>4. leave'.decision[j] \in {"APPROVED", "CANCELLED"}
      BY <1>2, <3>2, <3>3 DEF Decisions
    <3>5. leave'.decision[j] = "CANCELLED" => recovered'
      BY <1>2
    <3>. QED
      BY <3>4, <3>5
  <2>. QED
    BY <1>4, <2>1 DEF TurnInv, LeaveHasTurn, ApprovedByAll
<1>. QED
  BY <1>1, <1>3, <1>4

(* A leave that ends, is extended or falls due keeps its decisions.        *)
LEMMA DecidedStays ==
  ASSUME TurnInv, leave.status \in {"APPROVED", "OVERDUE"},
         leave'.status \in {"APPROVED", "OVERDUE", "COMPLETED"},
         leave'.decision = leave.decision, recovered' = recovered
  PROVE  TurnInv'
BY DEF TurnInv, LeaveHasTurn, ApprovedByAll

(* The only step of a pending leave is its first pending one.              *)
LEMMA CurrentComesFirst ==
  ASSUME TypeOK, TurnInv, Deciding
  PROVE  /\ Current(leave) = leave.at /\ leave.at \in Steps
         /\ leave.decision[leave.at] = "PENDING"
         /\ \A j \in Steps : leave.decision[j] = "PENDING" => leave.at <= j
<1>1. leave.at \in Pending(leave) /\ Pending(leave) \cap 1..(leave.at - 1) = {}
  BY DEF TurnInv, LeaveHasTurn, Deciding
<1>2. leave.at \in Steps /\ leave.decision[leave.at] = "PENDING"
  BY <1>1 DEF Pending
<1>3. ASSUME NEW j \in Steps, leave.decision[j] = "PENDING"
      PROVE  leave.at <= j
  <2>1. j \notin 1..(leave.at - 1)
    BY <1>1, <1>3 DEF Pending
  <2>. QED
    BY <1>2, <2>1, StepsAreNatural DEF Steps
<1>4. Current(leave) = leave.at
  BY <1>2, StepsAreNatural DEF Current, Steps
<1>. QED
  BY <1>2, <1>3, <1>4

LEMMA ApproveTurn ==
  ASSUME TypeOK, TurnInv, ApproveLeave \/ ParentApproves
  PROVE  TurnInv'
<1>. DEFINE i == leave.at
            b == Decide(leave, i, "APPROVED")
<1>1. Deciding /\ recovered' = recovered
  BY DEF ApproveLeave, ParentApproves
<1>2. /\ Current(leave) = i /\ i \in Steps /\ leave.decision[i] = "PENDING"
      /\ \A j \in Steps : leave.decision[j] = "PENDING" => i <= j
  BY <1>1, CurrentComesFirst
<1>3. leave' = RunFrom(b, i + 1) /\ i + 1 \in Nat
  <2>. DEFINE c == Current(leave)
  <2>1. leave' = RunFrom(Decide(leave, c, "APPROVED"), c + 1)
    BY DEF ApproveLeave, ParentApproves, Advance
  <2>2. c = i
    BY <1>2
  <2>3. i + 1 \in Nat
    <3>1. i \in Nat
      BY <1>2, StepsAreNatural
    <3>. HIDE DEF i
    <3>. QED
      BY <3>1
  <2>. HIDE DEF c
  <2>. QED
    BY <2>1, <2>2, <2>3
<1>4. "APPROVED" \in Decisions
  BY DEF Decisions
<1>5. /\ b \in LeaveRow /\ b.status = "PENDING" /\ b.decision[i] = "APPROVED"
      /\ \A j \in Steps \ {i} : b.decision[j] = leave.decision[j]
  BY <1>1, <1>2, <1>4, DecideLeave DEF TypeOK, Deciding
<1>. HIDE DEF b
<1>6. ASSUME NEW j \in Steps
      PROVE  /\ b.decision[j] # "REJECTED"
             /\ b.decision[j] = "CANCELLED" => recovered'
             /\ b.decision[j] = "PENDING" => i + 1 <= j
  <2>1. CASE j = i
    BY <1>5, <2>1
  <2>2. CASE j # i
    <3>1. b.decision[j] = leave.decision[j]
      BY <1>5, <2>2
    <3>2. /\ leave.decision[j] # "REJECTED"
          /\ leave.decision[j] = "CANCELLED" => recovered
      BY <1>1 DEF TurnInv, Deciding
    <3>3. leave.decision[j] = "PENDING" => i <= j
      BY <1>2
    <3>4. i \in Nat /\ j \in Nat
      BY <1>2, StepsAreNatural
    <3>. HIDE DEF i
    <3>5. b.decision[j] = "PENDING" => i + 1 <= j
      BY <2>2, <3>1, <3>3, <3>4
    <3>. QED
      BY <1>1, <3>1, <3>2, <3>5
  <2>. QED
    BY <2>1, <2>2
<1>. QED
  BY <1>3, <1>5, <1>6, WalkedInOrder

LEMMA RefuseTurn ==
  ASSUME TypeOK, TurnInv, RefuseStep
  PROVE  TurnInv'
<1>. DEFINE i == leave.at
            b == Decide(leave, i, "REJECTED")
<1>1. Deciding
  BY DEF RefuseStep
<1>2. /\ Current(leave) = i /\ i \in Steps /\ leave.decision[i] = "PENDING"
      /\ \A j \in Steps : leave.decision[j] = "PENDING" => i <= j
  BY <1>1, CurrentComesFirst
<1>3. "REJECTED" \in Decisions
  BY DEF Decisions
<1>4. /\ b \in LeaveRow /\ b.decision[i] = "REJECTED"
      /\ \A j \in Steps \ {i} : b.decision[j] = leave.decision[j]
  BY <1>2, <1>3, DecideLeave DEF TypeOK
<1>5. leave' = [b EXCEPT !.status = "REJECTED", !.at = 0]
  <2>. DEFINE c == Decide(leave, Current(leave), "REJECTED")
              s == NextStatus[leave.status].REJECT
  <2>1. leave' = [c EXCEPT !.status = s, !.at = 0]
    BY DEF RefuseStep
  <2>2. c = b
    BY <1>2
  <2>3. s = "REJECTED"
    BY <1>1 DEF Deciding, NextStatus
  <2>. HIDE DEF b, c, s
  <2>. QED
    BY <2>1, <2>2, <2>3
<1>. HIDE DEF b
<1>6. leave'.decision = b.decision /\ leave'.status = "REJECTED"
  BY <1>4, <1>5 DEF LeaveRow
<1>7. ASSUME NEW j \in Steps
      PROVE  /\ leave'.decision[j] = "REJECTED" => j = i
             /\ leave'.decision[j] = "PENDING" => i < j
  <2>1. CASE j = i
    BY <1>4, <1>6, <2>1
  <2>2. CASE j # i
    <3>1. leave'.decision[j] = leave.decision[j]
      BY <1>4, <1>6, <2>2
    <3>2. leave.decision[j] # "REJECTED"
      BY <1>1 DEF TurnInv, Deciding
    <3>3. leave.decision[j] = "PENDING" => i <= j
      BY <1>2
    <3>4. i \in Nat /\ j \in Nat
      BY <1>2, StepsAreNatural
    <3>. HIDE DEF i
    <3>. QED
      BY <2>2, <3>1, <3>2, <3>3, <3>4
  <2>. QED
    BY <2>1, <2>2
<1>8. OneRefusal(leave')
  BY <1>2, <1>4, <1>6, <1>7 DEF OneRefusal
<1>. QED
  BY <1>6, <1>8 DEF TurnInv, LeaveHasTurn, ApprovedByAll

LEMMA RejectTurn ==
  ASSUME TypeOK, TurnInv, NEW isAdmin \in BOOLEAN, RejectLeave(isAdmin) \/ ParentRejects
  PROVE  TurnInv'
<1>1. Deciding
  BY DEF RejectLeave, ParentRejects
<1>2. PICK i \in Steps : leave.decision[i] = "PENDING" /\ leave' = Rejected(leave, i)
  BY <1>1, CurrentIsPending, RejectionStepIsPending
  DEF RejectLeave, ParentRejects, Deciding, Pending
<1>. DEFINE b == Decide(leave, i, "REJECTED")
<1>3. "REJECTED" \in Decisions
  BY DEF Decisions
<1>4. /\ b \in LeaveRow /\ b.decision[i] = "REJECTED"
      /\ \A j \in Steps \ {i} : b.decision[j] = leave.decision[j]
  BY <1>2, <1>3, DecideLeave DEF TypeOK
<1>5. leave'.status = "REJECTED" /\ leave'.decision = CancelPending(b).decision
  BY <1>2, RejectedLeave DEF TypeOK
<1>. HIDE DEF b
<1>6. \A j \in Steps : CancelPending(b).decision[j] =
         IF b.decision[j] = "PENDING" THEN "CANCELLED" ELSE b.decision[j]
  BY <1>4, CancelPendingLeave
<1>7. ASSUME NEW j \in Steps
      PROVE  /\ leave'.decision[j] = "REJECTED" => j = i
             /\ leave'.decision[j] # "PENDING"
             /\ leave'.decision[i] = "REJECTED"
  BY <1>1, <1>4, <1>5, <1>6 DEF TurnInv, Deciding
<1>8. OneRefusal(leave')
  BY <1>7 DEF OneRefusal
<1>. QED
  BY <1>5, <1>8 DEF TurnInv, LeaveHasTurn, ApprovedByAll

LEMMA OverrideTurn ==
  ASSUME TypeOK, TurnInv, NEW all \in BOOLEAN, Override(all)
  PROVE  TurnInv'
<1>. DEFINE o == Overridden(all)
            rejected == IF leave.status = "REJECTED"
                        THEN {i \in Steps : leave.decision[i] = "REJECTED"} ELSE {}
            actionable == Pending(leave) \cup rejected
            chosen == IF all THEN actionable ELSE {Earliest(actionable)}
<1>1. /\ leave.status \in {"PENDING", "REJECTED"}
      /\ recovered' = (recovered \/ leave.status = "REJECTED")
      /\ \/ leave' = RunFrom(o, 1)
         \/ /\ Pending(o) = {}
            /\ leave' = [o EXCEPT !.status = "APPROVED", !.at = 0]
  BY OverrideMeans DEF Advance
<1>2. o \in LeaveRow /\ o.status = "PENDING"
  BY OverriddenRow
<1>3. \A j \in Steps : o.decision[j] =
         IF j \in chosen THEN "APPROVED" ELSE leave.decision[j]
  BY DEF Overridden, TypeOK, LeaveRow
<1>4. actionable \subseteq Nat
  BY StepsAreNatural DEF Pending
<1>. HIDE DEF o
<1>5. ASSUME leave.status = "REJECTED", NEW j \in Steps
      PROVE  o.decision[j] # "REJECTED"
  <2>1. PICK r \in Steps : /\ leave.decision[r] = "REJECTED"
                           /\ \A i \in Steps : leave.decision[i] = "REJECTED" => i = r
                           /\ \A i \in Steps : leave.decision[i] = "PENDING" => r < i
    BY <1>5 DEF TurnInv, OneRefusal
  <2>2. r \in actionable /\ \A i \in actionable : i = r \/ r < i
    BY <1>5, <2>1 DEF Pending
  <2>3. Earliest(actionable) \in actionable /\ Earliest(actionable) <= r
    BY <1>4, <2>2, EarliestIs
  <2>4. Earliest(actionable) = r
    <3>. DEFINE x == Earliest(actionable)
    <3>1. /\ x \in Nat /\ r \in Nat /\ x <= r
          /\ x = r \/ r < x
      BY <1>4, <2>2, <2>3
    <3>2. x = r
      <4>. HIDE DEF x
      <4>. QED
        BY <3>1
    <3>. QED
      BY <3>2
  <2>5. r \in chosen
    BY <2>2, <2>4
  <2>. HIDE DEF chosen
  <2>. QED
    BY <1>3, <2>1, <2>5
<1>6. ASSUME NEW j \in Steps
      PROVE  /\ o.decision[j] # "REJECTED"
             /\ o.decision[j] = "CANCELLED" => recovered'
             /\ o.decision[j] = "PENDING" => 1 <= j
  <2>. HIDE DEF chosen
  <2>1. CASE leave.status = "REJECTED"
    <3>1. recovered'
      BY <1>1, <2>1
    <3>. QED
      BY <1>5, <2>1, <3>1 DEF Steps
  <2>2. CASE leave.status = "PENDING"
    <3>1. /\ leave.decision[j] # "REJECTED"
          /\ leave.decision[j] = "CANCELLED" => recovered
      BY <2>2 DEF TurnInv
    <3>2. recovered => recovered'
      BY <1>1
    <3>3. o.decision[j] \in {leave.decision[j], "APPROVED"} /\ 1 <= j
      BY <1>3 DEF Steps
    <3>. QED
      BY <3>1, <3>2, <3>3
  <2>. QED
    BY <1>1, <2>1, <2>2
<1>7. CASE leave' = RunFrom(o, 1)
  BY <1>2, <1>6, <1>7, WalkedInOrder
<1>8. CASE /\ Pending(o) = {}
           /\ leave' = [o EXCEPT !.status = "APPROVED", !.at = 0]
  <2>1. leave'.status = "APPROVED" /\ leave'.decision = o.decision
    BY <1>2, <1>8 DEF LeaveRow
  <2>2. ASSUME NEW j \in Steps
        PROVE  \/ leave'.decision[j] = "APPROVED"
               \/ recovered' /\ leave'.decision[j] = "CANCELLED"
    <3>1. o.decision[j] \in Decisions /\ o.decision[j] # "PENDING"
      BY <1>2, <1>8 DEF LeaveRow, Chain, Pending
    <3>2. leave'.decision[j] \in {"APPROVED", "CANCELLED"}
      BY <1>6, <2>1, <3>1 DEF Decisions
    <3>3. leave'.decision[j] = "CANCELLED" => recovered'
      BY <1>6, <2>1
    <3>. QED
      BY <3>2, <3>3
  <2>. QED
    BY <2>1, <2>2 DEF TurnInv, LeaveHasTurn, ApprovedByAll
<1>. QED
  BY <1>1, <1>7, <1>8

LEMMA SubmitTurn ==
  ASSUME NEW mode \in Modes, NEW end \in Ends, CreateLeave(mode, end)
  PROVE  TurnInv'
<1>. DEFINE l == Submitted(mode, end)
<1>1. l \in LeaveRow /\ l.status = "PENDING"
  BY SubmittedRow
<1>2. \A j \in Steps : l.decision[j] = "PENDING" /\ 1 <= j
  BY DEF Submitted, NoLeave, NoDecisions, Steps
<1>3. leave' = RunFrom(l, 1)
  BY DEF CreateLeave, Advance
<1>. HIDE DEF l
<1>. QED
  BY <1>1, <1>2, <1>3, WalkedInOrder

LEMMA TurnStep ==
  ASSUME TypeOK, TurnInv, Next
  PROVE  TurnInv'
<1>1. ASSUME NEW e \in Exts, NEW x, Conclude(e, x), Live
      PROVE  TurnInv'
  <2>1. /\ leave'.status \in {"APPROVED", "OVERDUE"}
        /\ leave'.decision = leave.decision /\ recovered' = recovered
    BY <1>1 DEF Conclude, TypeOK, LeaveRow, Live
  <2>. QED
    BY <1>1, <2>1, DecidedStays DEF Live
<1>2. ASSUME UNCHANGED <<leave, recovered>>
      PROVE  TurnInv'
  BY <1>2 DEF TurnInv, LeaveHasTurn, ApprovedByAll
<1>3. ASSUME leave'.status \in {"CANCELLED", "EXPIRED"}
      PROVE  TurnInv'
  BY <1>3 DEF TurnInv, LeaveHasTurn, ApprovedByAll
<1>4. ASSUME NEW action \in {"COMPLETE", "MARK_OVERDUE"},
             CanTransition(leave.status, action), leave' = Moved(action),
             recovered' = recovered
      PROVE  TurnInv'
  <2>1. /\ leave.status \in {"APPROVED", "OVERDUE"}
        /\ leave'.status \in {"APPROVED", "OVERDUE", "COMPLETED"}
    BY <1>4, MovedRow DEF TypeOK
  <2>2. leave'.decision = leave.decision
    BY <1>4 DEF Moved, TypeOK, LeaveRow
  <2>. QED
    BY <1>4, <2>1, <2>2, DecidedStays
<1>5. CASE CancelLeave
  <2>1. CanTransition(leave.status, "CANCEL") /\ leave' = CancelPending(Moved("CANCEL"))
    BY <1>5 DEF CancelLeave, Cancellable
  <2>2. leave'.status = "CANCELLED"
    BY <2>1, MovedRow, CancelPendingLeave DEF TypeOK
  <2>. QED
    BY <1>3, <2>2
<1>6. CASE ExpireLeave
  <2>1. CanTransition(leave.status, "EXPIRE")
        /\ leave' \in {Moved("EXPIRE"), CancelPending(Moved("EXPIRE"))}
    BY <1>6 DEF ExpireLeave
  <2>2. leave'.status = "EXPIRED"
    BY <2>1, MovedRow, CancelPendingLeave DEF TypeOK
  <2>. QED
    BY <1>3, <2>2
<1>7. CASE CompleteLeave
  BY <1>4, <1>7 DEF CompleteLeave
<1>8. CASE AutoComplete
  <2>1. leave.status = "APPROVED" => CanTransition(leave.status, "COMPLETE")
    BY DEF CanTransition, NextStatus
  <2>. QED
    BY <1>2, <1>4, <1>8, <2>1 DEF AutoComplete
<1>9. CASE ReturnScan
  <2>1. CanTransition(leave.status, "COMPLETE")
    BY <1>9 DEF ReturnScan, Live, CanTransition, NextStatus
  <2>. QED
    BY <1>4, <1>9, <2>1 DEF ReturnScan
<1>10. CASE MarkOverdue
  BY <1>4, <1>10 DEF MarkOverdue
<1>11. ASSUME NEW e \in Exts,
              \/ CreateExtension(e) \/ ApproveExtension(e)
              \/ ParentApprovesExtension(e) \/ ParentRejectsExtension(e)
              \/ \E isAdmin \in BOOLEAN : RejectExtension(e, isAdmin)
       PROVE  TurnInv'
  BY <1>1, <1>11 DEF CreateExtension, ApproveExtension, ParentApprovesExtension,
     ParentRejectsExtension, RejectExtension, DecidingExt
<1>12. ASSUME NEW e \in Exts,
              ExtensionRefused(e) \/ \E end \in Ends : RequestExtension(e, end)
       PROVE  TurnInv'
  BY <1>2, <1>12 DEF ExtensionRefused, RequestExtension
<1>13. CASE \/ BeginCancel \/ CancelRefused \/ BeginAutoComplete \/ ExitScan
            \/ DailyReturnScan \/ InvalidateQr \/ CleanupQr \/ FindOverdue
            \/ OverdueSkipped \/ \E returns \in BOOLEAN : GenerateQr(returns)
  BY <1>2, <1>13 DEF BeginCancel, CancelRefused, BeginAutoComplete, ExitScan,
     DailyReturnScan, InvalidateQr, CleanupQr, FindOverdue, OverdueSkipped, GenerateQr
<1>. QED
  BY <1>5, <1>6, <1>7, <1>8, <1>9, <1>10, <1>11, <1>12, <1>13, SubmitTurn,
     ApproveTurn, RefuseTurn, RejectTurn, OverrideTurn DEF Next

LEMMA TurnInvariant == Spec => [](TypeOK /\ TurnInv)
<1>1. Init => TypeOK /\ TurnInv
  <2>1. Init => TypeOK
    BY InitialRows DEF Init, TypeOK, Locations
  <2>2. Init => leave.status = "ABSENT" /\ \A i \in Steps : leave.decision[i] = "PENDING"
    BY DEF Init, NoLeave, NoDecisions
  <2>. QED
    BY <2>1, <2>2 DEF TurnInv, LeaveHasTurn, ApprovedByAll
<1>2. TypeOK /\ TurnInv /\ [Next]_vars => (TypeOK /\ TurnInv)'
  <2>1. CASE Next
    BY <2>1, TypeStep, TurnStep
  <2>2. CASE UNCHANGED vars
    BY <2>2 DEF vars, TypeOK, TurnInv, LeaveHasTurn, ApprovedByAll
  <2>. QED
    BY <2>1, <2>2
<1>. QED
  BY <1>1, <1>2, PTL DEF Spec

(* A leave that waits for a decision waits at a step somebody has to       *)
(* decide, and at the first one: no walk over automatic steps, refusal or  *)
(* override leaves it waiting on nobody.                                   *)
THEOREM SomebodyHasTheTurn == Spec => []LeaveHasTurn
<1>1. TypeOK /\ TurnInv => LeaveHasTurn
  BY DEF TurnInv
<1>. QED
  BY <1>1, TurnInvariant, PTL

(* Nobody leaves on a leave some step of whose chain was not approved; the *)
(* one exception are the steps cancelled with a rejection that an override *)
(* has lifted.                                                             *)
THEOREM NoStepSkipped == Spec => []ApprovedByAll
<1>1. TypeOK /\ TurnInv => ApprovedByAll
  BY DEF TurnInv
<1>. QED
  BY <1>1, TurnInvariant, PTL

(***************************************************************************)
(* Extensions.                                                             *)
(***************************************************************************)
InTurn(c) ==
  /\ c.at \in Pending(c)
  /\ Pending(c) \cap 1..(c.at - 1) = {}

LEMMA OpenedInTurn ==
  ASSUME AutoSteps = {}, NEW x \in ExtRow
  PROVE  InTurn(Opened(x))
<1>1. Opened(x).at = 1 /\ 1 \in Steps
  BY StepsAreNatural DEF Opened, ExtRow, Steps
<1>2. Opened(x).decision = [i \in Steps |-> "PENDING"]
  BY DEF Opened, ExtRow
<1>. QED
  BY <1>1, <1>2 DEF InTurn, Pending

LEMMA MovedOnInTurn ==
  ASSUME NEW x \in ExtRow, x.status = "PENDING", InTurn(x), NEW i, i = Current(x)
  PROVE  LET y == MoveOn(Decide(x, i, "APPROVED"), i)
         IN y.status = "PENDING" => InTurn(y)
<1>. DEFINE b == Decide(x, i, "APPROVED")
            y == MoveOn(b, i)
            rest == PendingAfter(b, i)
<1>1. i = x.at /\ i \in Steps /\ x.decision[i] = "PENDING"
  <2>1. x.at \in Steps /\ x.decision[x.at] = "PENDING"
    BY DEF InTurn, Pending
  <2>2. x.at # 0
    BY <2>1, StepsAreNatural DEF Steps
  <2>. QED
    BY <2>1, <2>2 DEF Current
<1>2. ASSUME NEW j \in Steps, x.decision[j] = "PENDING"
      PROVE  ~(j < i)
  <2>1. j \notin 1..(i - 1)
    BY <1>1, <1>2 DEF InTurn, Pending
  <2>2. j \in Nat /\ i \in Nat /\ 1 <= j
    BY <1>1, StepsAreNatural DEF Steps
  <2>. QED
    BY <2>1, <2>2
<1>3. "APPROVED" \in Decisions
  BY DEF Decisions
<1>4. b \in ExtRow /\ b.status = "PENDING"
  BY <1>1, <1>3, DecideExt
<1>5. b.decision = [x.decision EXCEPT ![i] = "APPROVED"]
  BY <1>1 DEF Decide, ExtRow, Chain
<1>6. \A j \in Steps : b.decision[j] = IF j = i THEN "APPROVED" ELSE x.decision[j]
  BY <1>5 DEF ExtRow, Chain
<1>. HIDE DEF b
<1>7. rest \subseteq Steps /\ rest \subseteq Nat
  BY StepsAreNatural DEF PendingAfter, Pending
<1>8. CASE rest = {}
  <2>1. y.status = "APPROVED"
    BY <1>4, <1>8 DEF MoveOn, ExtRow
  <2>. QED
    BY <2>1 DEF b
<1>9. CASE rest # {}
  <2>. DEFINE f == Earliest(rest)
  <2>1. f \in rest /\ \A j \in rest : f <= j
    BY <1>7, <1>9, EarliestIs
  <2>2. y = [b EXCEPT !.at = f]
    BY <1>9 DEF MoveOn
  <2>3. f \in Steps /\ f \in Nat
    BY <1>7, <2>1
  <2>. HIDE DEF f, y
  <2>4. y.at = f /\ y.decision = b.decision
    BY <1>4, <2>2 DEF ExtRow
  <2>5. f \in Pending(y)
    BY <2>1, <2>4 DEF Pending, PendingAfter
  <2>6. ASSUME NEW j \in Pending(y), j < f
        PROVE  FALSE
    <3>1. j \in Steps /\ b.decision[j] = "PENDING"
      BY <2>4, <2>6 DEF Pending
    <3>2. j # i /\ ~(j < i)
      BY <1>2, <1>6, <3>1
    <3>3. j \in Nat /\ i \in Nat
      BY <1>1, <3>1, StepsAreNatural
    <3>4. i < j
      BY <3>2, <3>3
    <3>5. j \in rest
      BY <3>1, <3>4 DEF PendingAfter, Pending
    <3>. QED
      BY <2>1, <2>3, <2>6, <3>3, <3>5
  <2>7. Pending(y) \cap 1..(f - 1) = {}
    <3>1. ASSUME NEW j \in Pending(y), j \in 1..(f - 1) PROVE FALSE
      BY <2>3, <2>6, <3>1
    <3>. QED
      BY <3>1
  <2>8. InTurn(y)
    BY <2>4, <2>5, <2>7 DEF InTurn
  <2>. QED
    BY <2>8 DEF y, b
<1>. QED
  BY <1>8, <1>9

ExtTurns ==
  \A e \in Exts : ext[e].status = "PENDING" => InTurn(ext[e])

LEMMA ExtTurnStep ==
  ASSUME AutoSteps = {}, TypeOK, ExtTurns, Next
  PROVE  ExtTurns'
<1>1. ASSUME UNCHANGED ext
      PROVE  ExtTurns'
  BY <1>1 DEF ExtTurns, InTurn, Pending
<1>2. ASSUME NEW e \in Exts, NEW x, ext' = [ext EXCEPT ![e] = x],
             x.status = "PENDING" => InTurn(x)
      PROVE  ExtTurns'
  <2>1. ASSUME NEW f \in Exts, ext'[f].status = "PENDING"
        PROVE  InTurn(ext'[f])
    <3>1. CASE f = e
      BY <1>2, <2>1, <3>1 DEF TypeOK
    <3>2. CASE f # e
      <4>1. ext'[f] = ext[f]
        BY <1>2, <3>2 DEF TypeOK
      <4>. QED
        BY <2>1, <4>1 DEF ExtTurns
    <3>. QED
      BY <3>1, <3>2
  <2>. QED
    BY <2>1 DEF ExtTurns, InTurn, Pending
<1>3. ASSUME NEW e \in Exts, CreateExtension(e)
      PROVE  ExtTurns'
  <2>1. InTurn(Opened(ext[e]))
    BY OpenedInTurn DEF TypeOK
  <2>2. ext' = [ext EXCEPT ![e] = Opened(ext[e])]
    BY <1>3 DEF CreateExtension, Conclude
  <2>. QED
    BY <1>2, <2>1, <2>2
<1>4. ASSUME NEW e \in Exts, ApproveExtension(e) \/ ParentApprovesExtension(e)
      PROVE  ExtTurns'
  <2>. DEFINE x == MoveOn(Decide(ext[e], Current(ext[e]), "APPROVED"), Current(ext[e]))
  <2>1. ext[e] \in ExtRow /\ ext[e].status = "PENDING" /\ InTurn(ext[e])
    BY <1>4 DEF ApproveExtension, ParentApprovesExtension, DecidingExt, ExtTurns, TypeOK
  <2>2. x.status = "PENDING" => InTurn(x)
    BY <2>1, MovedOnInTurn
  <2>3. ext' = [ext EXCEPT ![e] = x]
    BY <1>4 DEF ApproveExtension, ParentApprovesExtension, Conclude
  <2>. HIDE DEF x
  <2>. QED
    BY <1>2, <2>2, <2>3
<1>5. ASSUME NEW e \in Exts, NEW isAdmin \in BOOLEAN,
             RejectExtension(e, isAdmin) \/ ParentRejectsExtension(e)
      PROVE  ExtTurns'
  <2>1. Current(ext[e]) \in Steps /\ RejectionStep(ext[e], isAdmin) \in Steps
    BY <1>5, CurrentIsPending, RejectionStepIsPending
    DEF RejectExtension, ParentRejectsExtension, DecidingExt
  <2>2. \E x : x.status = "REJECTED" /\ ext' = [ext EXCEPT ![e] = x]
    BY <1>5, <2>1, RejectedExt
    DEF RejectExtension, ParentRejectsExtension, Conclude, TypeOK
  <2>. QED
    BY <1>2, <2>2
<1>6. ASSUME NEW e \in Exts, NEW end \in Ends, RequestExtension(e, end)
      PROVE  ExtTurns'
  <2>. DEFINE x == [NoExt EXCEPT !.status = "REQUESTED", !.wants = end]
  <2>1. x.status = "REQUESTED"
    BY DEF NoExt
  <2>2. ext' = [ext EXCEPT ![e] = x]
    BY <1>6 DEF RequestExtension
  <2>. HIDE DEF x
  <2>. QED
    BY <1>2, <2>1, <2>2
<1>7. ASSUME NEW e \in Exts, ExtensionRefused(e)
      PROVE  ExtTurns'
  <2>1. ext' = [ext EXCEPT ![e] = NoExt] /\ NoExt.status = "ABSENT"
    BY <1>7 DEF ExtensionRefused, NoExt
  <2>. QED
    BY <1>2, <2>1
<1>8. CASE CancelLeave
  <2>1. ASSUME NEW e \in Exts, ext'[e].status = "PENDING"
        PROVE  ext'[e] = ext[e]
    <3>1. ext'[e] = CancelledExt(e)
      BY <1>8 DEF CancelLeave
    <3>2. ext[e].status = "PENDING"
      BY <2>1, <3>1, CancelledExts
    <3>3. CASE cancel.locked = {}
      BY <3>1, <3>3 DEF CancelledExt
    <3>4. CASE cancel.locked # {}
      <4>. DEFINE w == [ext[e] EXCEPT !.status = "CANCELLED", !.at = 0]
      <4>1. CancelledExt(e) = IF e \in cancel.locked THEN CancelPending(w) ELSE w
        BY <3>2, <3>4 DEF CancelledExt, PendingExts
      <4>2. 0 \in ChainSteps
        BY StepsAreNatural DEF ChainSteps
      <4>3. w \in ExtRow /\ w.status = "CANCELLED"
        BY <4>2 DEF TypeOK, ExtRow, ExtStatuses
      <4>. HIDE DEF w
      <4>4. CancelledExt(e).status = "CANCELLED"
        BY <4>1, <4>3, CancelPendingExt
      <4>. QED
        BY <2>1, <3>1, <4>4
    <3>. QED
      BY <3>3, <3>4
  <2>2. ASSUME NEW e \in Exts, ext'[e].status = "PENDING"
        PROVE  InTurn(ext'[e])
    <3>1. ext'[e] = ext[e]
      BY <2>1, <2>2
    <3>. QED
      BY <2>2, <3>1 DEF ExtTurns
  <2>. QED
    BY <2>2 DEF ExtTurns, InTurn, Pending
<1>9. CASE \/ \E mode \in Modes, end \in Ends : CreateLeave(mode, end)
           \/ ApproveLeave \/ RefuseStep \/ ParentApproves \/ ParentRejects
           \/ \E isAdmin \in BOOLEAN : RejectLeave(isAdmin)
           \/ \E all \in BOOLEAN : Override(all)
  BY <1>1, <1>9 DEF CreateLeave, ApproveLeave, RefuseStep, ParentApproves,
     ParentRejects, RejectLeave, Override
<1>10. CASE \/ BeginCancel \/ CancelRefused \/ ExpireLeave \/ CompleteLeave
            \/ BeginAutoComplete \/ AutoComplete
  BY <1>1, <1>10 DEF BeginCancel, CancelRefused, ExpireLeave, CompleteLeave,
     BeginAutoComplete, AutoComplete
<1>11. CASE \/ ExitScan \/ ReturnScan \/ DailyReturnScan \/ InvalidateQr
            \/ CleanupQr \/ \E returns \in BOOLEAN : GenerateQr(returns)
            \/ FindOverdue \/ MarkOverdue \/ OverdueSkipped
  BY <1>1, <1>11 DEF ExitScan, ReturnScan, DailyReturnScan, InvalidateQr,
     CleanupQr, GenerateQr, FindOverdue, MarkOverdue, OverdueSkipped
<1>. QED
  BY <1>3, <1>4, <1>5, <1>6, <1>7, <1>8, <1>9, <1>10, <1>11 DEF Next

(* Without automatic steps, whose handling skips steps, an extension waits *)
(* at the first step that is undecided, through any order of decisions and *)
(* cancellations.                                                          *)
THEOREM ExtensionsInTurn ==
  ASSUME AutoSteps = {}
  PROVE  Spec => []ExtensionHasTurn
<1>1. Init => TypeOK /\ ExtTurns
  <2>1. Init => TypeOK
    BY InitialRows DEF Init, TypeOK, Locations
  <2>. QED
    BY <2>1 DEF Init, ExtTurns, NoExt
<1>2. TypeOK /\ ExtTurns /\ [Next]_vars => (TypeOK /\ ExtTurns)'
  <2>1. CASE Next
    BY <2>1, TypeStep, ExtTurnStep
  <2>2. CASE UNCHANGED vars
    BY <2>2 DEF vars, TypeOK, ExtTurns, InTurn, Pending
  <2>. QED
    BY <2>1, <2>2
<1>3. ExtTurns => ExtensionHasTurn
  BY DEF ExtTurns, InTurn, ExtensionHasTurn, PendingExts
<1>. QED
  BY <1>1, <1>2, <1>3, PTL DEF Spec
=============================================================================
