--------------------------- MODULE LeaveWorkflow ---------------------------
(***************************************************************************)
(* One leave request of one student from submission to its end: the        *)
(* approval chain, overrides, extensions with chains of their own, the     *)
(* gate pass issued on approval, cancellation, expiry and completion.      *)
(*                                                                         *)
(* A transaction that takes the row locks it needs before it reads is one  *)
(* action.  Four of them read first: cancelLeave and the auto-completion   *)
(* job look for pending extensions (and lock the ones they find) before    *)
(* they lock the leave, createExtension checks the leave and its           *)
(* extensions before it does, and the overdue job lists its leaves first.  *)
(* Each of these is an action that reads and one that commits or rolls     *)
(* back.  A refused request changes nothing and is not an action.          *)
(*                                                                         *)
(* There is no clock: every operation that depends on the window of the    *)
(* leave can also be asked for at any time by the staff endpoints, or is   *)
(* taken to happen within the window (the gate scans) or after it (the     *)
(* overdue job, which may find any approved leave that is out).            *)
(***************************************************************************)
EXTENDS ApprovalChain, FiniteSets

CONSTANTS
  Exts,           \* extension requests, by id
  Ends,           \* instants a leave may end at
  Modes,          \* the leave types on offer, by their qrMode
  MaxExtensions   \* maxExtensionCount of the leave type

\* BOTH stands for every mode with an exit pass (EXIT_ONLY, OPTIONAL too); a
\* type the code treats as return-only or recurring by its code, for that mode.
QrModes == {"NONE", "BOTH", "RETURN_ONLY", "DAILY_RECURRING"}

ASSUME LeaveAssumption ==
  /\ Ends \subseteq Nat \ {0} /\ Modes \subseteq QrModes /\ MaxExtensions \in Nat

VARIABLES
  leave,       \* the leave_requests row, with its chain
  ext,         \* the leave_extensions rows, with their chains
  qr,          \* the qr_passes row of the leave
  location,    \* currentLocationState of the student
  cancel,      \* a cancelLeave call between its two locks
  completing,  \* an auto-completion between its two locks
  due,         \* the end the overdue job has found passed, until it acts on it
  recovered    \* history: an override has reopened the rejected leave

vars == <<leave, ext, qr, location, cancel, completing, due, recovered>>

LeaveStatuses == {"PENDING", "APPROVED", "REJECTED", "CANCELLED", "OVERDUE",
                  "COMPLETED", "EXPIRED"}
\* REQUESTED is no row yet: a createExtension call between its two locks.
ExtStatuses == {"ABSENT", "REQUESTED", "PENDING", "APPROVED", "REJECTED",
                "CANCELLED"}
QrStatuses == {"ABSENT", "ACTIVE", "USED", "INVALIDATED", "EXPIRED"}
Locations == {"IN_HOSTEL", "OUTSIDE_HOSTEL", "OVERDUE"}

Chain == [Steps -> Decisions]
\* mode: the qrMode of the leave's type.
LeaveRow == [status: LeaveStatuses \cup {"ABSENT"}, at: ChainSteps,
             decision: Chain, endAt: Ends \cup {0}, mode: QrModes]
ExtRow == [status: ExtStatuses, at: ChainSteps, decision: Chain,
           wants: Ends \cup {0}]
\* returns: the pass is a LEAVE_RETURN one, not a LEAVE_EXIT one.
QrPass == [status: QrStatuses, scanned: BOOLEAN, returns: BOOLEAN,
           until: Ends \cup {0}]

NoDecisions == [i \in Steps |-> "PENDING"]
NoLeave == [status |-> "ABSENT", at |-> 0, decision |-> NoDecisions,
            endAt |-> 0, mode |-> "NONE"]
NoExt == [status |-> "ABSENT", at |-> 0, decision |-> NoDecisions, wants |-> 0]
NoPass == [status |-> "ABSENT", scanned |-> FALSE, returns |-> FALSE, until |-> 0]
Idle == [open |-> FALSE, locked |-> {}]

Init ==
  /\ leave = NoLeave
  /\ ext = [e \in Exts |-> NoExt]
  /\ qr = NoPass
  /\ location = "IN_HOSTEL"
  /\ cancel = Idle
  /\ completing = FALSE
  /\ due = 0
  /\ recovered = FALSE

(***************************************************************************)
(* lib/workflows/leave-state-machine.ts, as the table of its transitions.  *)
(***************************************************************************)
NextStatus == [
  PENDING |-> [EXPIRE |-> "EXPIRED", APPROVE |-> "APPROVED",
               REJECT |-> "REJECTED", CANCEL |-> "CANCELLED"],
  APPROVED |-> [COMPLETE |-> "COMPLETED", EXPIRE |-> "EXPIRED",
                MARK_OVERDUE |-> "OVERDUE", EXTEND |-> "APPROVED",
                CANCEL |-> "CANCELLED"],
  OVERDUE |-> [COMPLETE |-> "COMPLETED", EXTEND |-> "OVERDUE"]]

CanTransition(status, action) ==
  /\ status \in DOMAIN NextStatus
  /\ action \in DOMAIN NextStatus[status]

\* The leave moves along the table and has no current step any more.
Moved(action) ==
  [leave EXCEPT !.status = NextStatus[leave.status][action], !.at = 0]

ReturnOnly(l) == l.mode \in {"RETURN_ONLY", "DAILY_RECURRING"}
Live == leave.status \in {"APPROVED", "OVERDUE"}
PendingExts == {e \in Exts : ext[e].status = "PENDING"}
Free(e) == e \notin cancel.locked

(***************************************************************************)
(* issueQrPassForApprovedLeave.  A return-only pass lets the student in,   *)
(* so the student is taken to be out from the approval on.                 *)
(***************************************************************************)
NewPass(returns, end) ==
  [status |-> "ACTIVE", scanned |-> FALSE, returns |-> returns, until |-> end]

IssuePass(l) ==
  IF l.mode # "NONE" /\ qr.status = "ABSENT"
  THEN /\ qr' = NewPass(ReturnOnly(l), l.endAt)
       /\ location' = IF ReturnOnly(l) /\ location = "IN_HOSTEL"
                      THEN "OUTSIDE_HOSTEL" ELSE location
  ELSE UNCHANGED <<qr, location>>

\* A decided chain becomes the leave's; if that approves it, with its pass.
Advance(l) ==
  /\ leave' = l
  /\ IF l.status = "APPROVED" THEN IssuePass(l)
     ELSE UNCHANGED <<qr, location>>

\* A pass that was never scanned is invalidated, a scanned one is left alone.
Invalidated(p) ==
  IF p.status = "ACTIVE" /\ ~p.scanned THEN [p EXCEPT !.status = "INVALIDATED"]
  ELSE p

\* retireQrPassOnLeaveCompletion
Retired(p) ==
  IF p.status = "ACTIVE" /\ p.scanned THEN [p EXCEPT !.status = "USED"]
  ELSE Invalidated(p)

\* Slip: the window follows only while the student is out.
WidenedIfScanned(p, end) ==
  IF p.status = "ACTIVE" /\ p.scanned THEN [p EXCEPT !.until = end] ELSE p

\* extendQrPassWindow
Widened(p, end) == IF p.status = "ACTIVE" THEN [p EXCEPT !.until = end] ELSE p

(***************************************************************************)
(* Submission and the decisions on the leave's own chain.                  *)
(***************************************************************************)
Submitted(mode, end) ==
  [NoLeave EXCEPT !.status = "PENDING", !.endAt = end, !.mode = mode]

CreateLeave(mode, end) ==
  /\ leave.status = "ABSENT"
  /\ CanRun(Submitted(mode, end), 1)
  /\ Advance(RunFrom(Submitted(mode, end), 1))
  /\ UNCHANGED <<ext, cancel, completing, due, recovered>>

Deciding == leave.status = "PENDING" /\ HasCurrent(leave)

\* approveLeave; an administrator may force a parent's step.
ApproveLeave ==
  /\ Deciding
  /\ LET i == Current(leave)
         decided == Decide(leave, i, "APPROVED")
     IN CanRun(decided, i + 1) /\ Advance(RunFrom(decided, i + 1))
  /\ UNCHANGED <<ext, cancel, completing, due, recovered>>

\* approveLeave with the decision REJECTED: the remaining rows stay as they are.
RefuseStep ==
  /\ Deciding
  /\ leave' = [Decide(leave, Current(leave), "REJECTED")
                 EXCEPT !.status = NextStatus[leave.status].REJECT, !.at = 0]
  /\ UNCHANGED <<ext, qr, location, cancel, completing, due, recovered>>

\* rejectLeave
RejectLeave(isAdmin) ==
  /\ Deciding
  /\ leave' = Rejected(leave, RejectionStep(leave, isAdmin))
  /\ UNCHANGED <<ext, qr, location, cancel, completing, due, recovered>>

\* parentApproveDecision on the leave: the parent answers the step it was
\* asked about, and only while that step is the current one.
ParentStepOf(c) == HasCurrent(c) /\ Current(c) \in ParentSteps

ParentApproves ==
  /\ Deciding /\ ParentStepOf(leave)
  /\ LET i == Current(leave)
         decided == Decide(leave, i, "APPROVED")
     IN CanRun(decided, i + 1) /\ Advance(RunFrom(decided, i + 1))
  /\ UNCHANGED <<ext, cancel, completing, due, recovered>>

ParentRejects ==
  /\ Deciding /\ ParentStepOf(leave)
  /\ leave' = Rejected(leave, Current(leave))
  /\ UNCHANGED <<ext, qr, location, cancel, completing, due, recovered>>

\* superadminOverrideLeave: approves the first or all of the rows that are
\* pending, and of the rejected ones when the leave is rejected; the leave is
\* reopened or, when nothing is left to decide, approved.
Override(all) ==
  LET reopens == leave.status = "REJECTED"
      actionable == Pending(leave) \cup
        (IF reopens THEN {i \in Steps : leave.decision[i] = "REJECTED"} ELSE {})
      chosen == IF all THEN actionable ELSE {Earliest(actionable)}
      decided == [leave EXCEPT
        !.status = "PENDING",
        !.decision = [i \in Steps |->
           IF i \in chosen THEN "APPROVED" ELSE leave.decision[i]]]
  IN /\ leave.status \in {"PENDING", "REJECTED"}
     /\ actionable # {}
     /\ IF Pending(decided) # {}
        THEN CanRun(decided, 1) /\ Advance(RunFrom(decided, 1))
        ELSE /\ leave' = [decided EXCEPT !.status = "APPROVED", !.at = 0]
             /\ UNCHANGED <<qr, location>>
     /\ recovered' = (recovered \/ reopens)
     /\ UNCHANGED <<ext, cancel, completing, due>>

(***************************************************************************)
(* The ends of a leave.                                                    *)
(***************************************************************************)
Cancellable ==
  /\ CanTransition(leave.status, "CANCEL")
  /\ leave.status = "APPROVED" =>
       /\ ~qr.scanned /\ qr.status # "USED"
       /\ ReturnOnly(leave) \/ location = "IN_HOSTEL"

\* cancelLeave up to lockPendingByLeaveRequestId.  Bound: one call at a time.
BeginCancel ==
  /\ ~cancel.open /\ Cancellable
  /\ cancel' = [open |-> TRUE, locked |-> PendingExts]
  /\ UNCHANGED <<leave, ext, qr, location, completing, due, recovered>>

\* The extensions a cancellation takes along: when it has found any, every one
\* pending by now, and the approvals of those it has found.
CancelledExt(e) ==
  LET withdrawn == IF cancel.locked # {} /\ e \in PendingExts
                   THEN [ext[e] EXCEPT !.status = "CANCELLED", !.at = 0]
                   ELSE ext[e]
  IN IF e \in cancel.locked THEN CancelPending(withdrawn) ELSE withdrawn

CancelLeave ==
  /\ cancel.open /\ Cancellable
  /\ leave' = CancelPending(Moved("CANCEL"))
  /\ ext' = [e \in Exts |-> CancelledExt(e)]
  /\ IF leave.status = "APPROVED"
     THEN /\ qr' = Invalidated(qr)
          /\ location' = IF ReturnOnly(leave) /\ location = "OUTSIDE_HOSTEL"
                         THEN "IN_HOSTEL" ELSE location
     ELSE UNCHANGED <<qr, location>>
  /\ cancel' = Idle
  /\ UNCHANGED <<completing, due, recovered>>

CancelRefused ==
  /\ cancel.open /\ ~Cancellable
  /\ cancel' = Idle
  /\ UNCHANGED <<leave, ext, qr, location, completing, due, recovered>>

\* expireSingleLeave, from the job, the staff endpoint or an expired parent link.
ExpireLeave ==
  /\ CanTransition(leave.status, "EXPIRE")
  /\ ~(qr.status = "ACTIVE" /\ qr.scanned)
  /\ leave' = IF leave.status = "PENDING" THEN CancelPending(Moved("EXPIRE"))
              ELSE Moved("EXPIRE")
  /\ qr' = Invalidated(qr)
  /\ UNCHANGED <<ext, location, cancel, completing, due, recovered>>

\* Slip: the pass is left to the cleanup job.
CompleteLeaveOnly ==
  /\ CanTransition(leave.status, "COMPLETE")
  /\ leave' = Moved("COMPLETE")
  /\ UNCHANGED <<ext, qr, location, cancel, completing, due, recovered>>

\* completeLeave, the endpoint
CompleteLeave ==
  /\ CanTransition(leave.status, "COMPLETE")
  /\ leave' = Moved("COMPLETE")
  /\ qr' = Retired(qr)
  /\ UNCHANGED <<ext, location, cancel, completing, due, recovered>>

\* completeNonQrLeave: no extension is pending (one a cancellation has locked
\* would block the job), then the leave is locked.
BeginAutoComplete ==
  /\ leave.mode = "NONE" /\ ~completing
  /\ leave.status = "APPROVED" /\ PendingExts = {}
  /\ completing' = TRUE
  /\ UNCHANGED <<leave, ext, qr, location, cancel, due, recovered>>

\* Slip: the status is not read again under the lock.
AutoCompleteStale ==
  /\ completing
  /\ leave' = [leave EXCEPT !.status = "COMPLETED", !.at = 0]
  /\ completing' = FALSE
  /\ UNCHANGED <<ext, qr, location, cancel, due, recovered>>

AutoComplete ==
  /\ completing
  /\ leave' = IF leave.status = "APPROVED" THEN Moved("COMPLETE") ELSE leave
  /\ completing' = FALSE
  /\ UNCHANGED <<ext, qr, location, cancel, due, recovered>>

(***************************************************************************)
(* Extensions.                                                             *)
(***************************************************************************)
\* createExtension up to lockPendingByLeaveRequestId, which finds nothing.  A
\* change between the unlocked checks and that statement can as well come
\* after it, so the two reads are one step.
RequestExtension(e, end) ==
  /\ ext[e].status = "ABSENT"
  /\ Live /\ end > leave.endAt
  /\ PendingExts = {}
  /\ Cardinality({x \in Exts : ext[x].status = "APPROVED"}) < MaxExtensions
  /\ ext' = [ext EXCEPT ![e] = [NoExt EXCEPT !.status = "REQUESTED", !.wants = end]]
  /\ UNCHANGED <<leave, qr, location, cancel, completing, due, recovered>>

\* Slip: an extension without a current step counts as approved.
ConcludeByStep(e, x) ==
  /\ ext' = [ext EXCEPT ![e] = x]
  /\ IF x.at = 0
     THEN /\ leave' = [leave EXCEPT !.endAt = x.wants, !.status = "APPROVED"]
          /\ qr' = Widened(qr, x.wants)
     ELSE UNCHANGED <<leave, qr>>
  /\ UNCHANGED <<location, cancel, completing, due, recovered>>

\* A decided extension becomes row e; if that approves it, the leave ends when
\* the extension says, an overdue leave is in order again, and the pass window
\* follows.
Conclude(e, x) ==
  /\ ext' = [ext EXCEPT ![e] = x]
  /\ IF x.status = "APPROVED"
     THEN /\ leave' = [leave EXCEPT !.endAt = x.wants, !.status = "APPROVED"]
          /\ qr' = Widened(qr, x.wants)
     ELSE UNCHANGED <<leave, qr>>
  /\ UNCHANGED <<location, cancel, completing, due, recovered>>

\* createExtension from the lock on the leave on
CreateExtension(e) ==
  /\ ext[e].status = "REQUESTED" /\ Live
  /\ Conclude(e, Opened(ext[e]))

ExtensionRefused(e) ==
  /\ ext[e].status = "REQUESTED" /\ ~Live
  /\ ext' = [ext EXCEPT ![e] = NoExt]
  /\ UNCHANGED <<leave, qr, location, cancel, completing, due, recovered>>

DecidingExt(e) == Free(e) /\ ext[e].status = "PENDING" /\ Live /\ HasCurrent(ext[e])

ApproveExtension(e) ==
  /\ DecidingExt(e)
  /\ LET i == Current(ext[e]) IN Conclude(e, MoveOn(Decide(ext[e], i, "APPROVED"), i))

RejectExtension(e, isAdmin) ==
  /\ DecidingExt(e)
  /\ Conclude(e, Rejected(ext[e], RejectionStep(ext[e], isAdmin)))

ParentApprovesExtension(e) ==
  /\ DecidingExt(e) /\ ParentStepOf(ext[e])
  /\ LET i == Current(ext[e]) IN Conclude(e, MoveOn(Decide(ext[e], i, "APPROVED"), i))

ParentRejectsExtension(e) ==
  /\ DecidingExt(e) /\ ParentStepOf(ext[e])
  /\ Conclude(e, Rejected(ext[e], Current(ext[e])))

(***************************************************************************)
(* The pass and the gate: the transactions of scanQrPass within the window *)
(* of the pass, the services and the job that change the pass itself, and  *)
(* markOverdueSingleLeave.                                                 *)
(***************************************************************************)
ExitScan ==
  /\ qr.status = "ACTIVE" /\ ~qr.scanned /\ ~qr.returns
  /\ Live /\ location = "IN_HOSTEL"
  /\ qr' = [qr EXCEPT !.scanned = TRUE]
  /\ location' = "OUTSIDE_HOSTEL"
  /\ UNCHANGED <<leave, ext, cancel, completing, due, recovered>>

\* The last return closes the pass and completes the leave; a return pass needs
\* no exit before it.
ReturnScan ==
  /\ qr.status = "ACTIVE" /\ (qr.scanned \/ qr.returns) /\ Live
  /\ qr' = [qr EXCEPT !.status = "USED"]
  /\ location' = "IN_HOSTEL"
  /\ leave' = Moved("COMPLETE")
  /\ UNCHANGED <<ext, cancel, completing, due, recovered>>

\* An earlier return on a recurring pass keeps both going.
DailyReturnScan ==
  /\ leave.mode = "DAILY_RECURRING" /\ qr.status = "ACTIVE" /\ Live
  /\ qr' = [qr EXCEPT !.scanned = FALSE]
  /\ location' = "IN_HOSTEL"
  /\ UNCHANGED <<leave, ext, cancel, completing, due, recovered>>

\* invalidateQrPass; a scan of an unused pass after its window does the same.
InvalidateQr ==
  /\ qr.status = "ACTIVE" /\ ~qr.scanned
  /\ qr' = Invalidated(qr)
  /\ UNCHANGED <<leave, ext, location, cancel, completing, due, recovered>>

\* Slip: the job takes passes that are out.
CleanupAnyQr ==
  /\ qr.status = "ACTIVE"
  /\ qr' = [qr EXCEPT !.status = "EXPIRED"]
  /\ UNCHANGED <<leave, ext, location, cancel, completing, due, recovered>>

\* runCleanupQrJob on this pass
CleanupQr ==
  /\ qr.status = "ACTIVE" /\ ~qr.scanned
  /\ qr' = [qr EXCEPT !.status = "EXPIRED"]
  /\ UNCHANGED <<leave, ext, location, cancel, completing, due, recovered>>

\* generateQrPass creates the missing pass or gives an unused dead one a new
\* life; the student says whether to leave or to return, which only a
\* return-only type restricts.  Rotating the token of an active pass changes
\* nothing here.
GenerateQr(returns) ==
  /\ leave.mode # "NONE" /\ leave.status = "APPROVED"
  /\ ReturnOnly(leave) => returns
  /\ qr.status \in {"ABSENT", "INVALIDATED", "EXPIRED"} /\ ~qr.scanned
  /\ qr' = NewPass(returns, leave.endAt)
  /\ UNCHANGED <<leave, ext, location, cancel, completing, due, recovered>>

\* markOverdueLeaves: the job lists the leaves that are out after their end and
\* then takes them one by one, each in a transaction that looks at the status
\* only.  Bound: one job at a time.
FindOverdue ==
  /\ due = 0 /\ leave.status = "APPROVED" /\ qr.scanned /\ qr.status # "USED"
  /\ due' = leave.endAt
  /\ UNCHANGED <<leave, ext, qr, location, cancel, completing, recovered>>

MarkOverdue ==
  /\ due # 0 /\ CanTransition(leave.status, "MARK_OVERDUE")
  /\ leave' = Moved("MARK_OVERDUE")
  /\ location' = IF location = "OUTSIDE_HOSTEL" THEN "OVERDUE" ELSE location
  /\ due' = 0
  /\ UNCHANGED <<ext, qr, cancel, completing, recovered>>

OverdueSkipped ==
  /\ due # 0 /\ ~CanTransition(leave.status, "MARK_OVERDUE")
  /\ due' = 0
  /\ UNCHANGED <<leave, ext, qr, location, cancel, completing, recovered>>

Next ==
  \/ \E mode \in Modes, end \in Ends : CreateLeave(mode, end)
  \/ ApproveLeave
  \/ RefuseStep
  \/ \E isAdmin \in BOOLEAN : RejectLeave(isAdmin)
  \/ ParentApproves
  \/ ParentRejects
  \/ \E all \in BOOLEAN : Override(all)
  \/ BeginCancel
  \/ CancelLeave
  \/ CancelRefused
  \/ ExpireLeave
  \/ CompleteLeave
  \/ BeginAutoComplete
  \/ AutoComplete
  \/ \E e \in Exts :
       \/ \E end \in Ends : RequestExtension(e, end)
       \/ CreateExtension(e)
       \/ ExtensionRefused(e)
       \/ ApproveExtension(e)
       \/ \E isAdmin \in BOOLEAN : RejectExtension(e, isAdmin)
       \/ ParentApprovesExtension(e)
       \/ ParentRejectsExtension(e)
  \/ ExitScan
  \/ ReturnScan
  \/ DailyReturnScan
  \/ InvalidateQr
  \/ CleanupQr
  \/ \E returns \in BOOLEAN : GenerateQr(returns)
  \/ FindOverdue
  \/ MarkOverdue
  \/ OverdueSkipped

Spec == Init /\ [][Next]_vars

(***************************************************************************)
(* Properties.                                                             *)
(***************************************************************************)

\* Every row and every call in flight is one the code can write.
TypeOK ==
  /\ leave \in LeaveRow
  /\ ext \in [Exts -> ExtRow]
  /\ qr \in QrPass
  /\ location \in Locations
  /\ cancel \in [open: BOOLEAN, locked: SUBSET Exts]
  /\ completing \in BOOLEAN
  /\ due \in Ends \cup {0}
  /\ recovered \in BOOLEAN

\* No pass outlives its leave: whatever ends the leave, by whichever path and
\* in whichever order with the gate, also retires the pass, so that a pass the
\* gate accepts belongs to a leave that is approved or overdue.
PassBacked == qr.status = "ACTIVE" => Live

\* The pass is good until the leave ends, through any order of extensions: the
\* window of the pass and the end of the leave are moved by different
\* statements, on three approval paths.
PassCoversLeave == qr.status = "ACTIVE" => qr.until = leave.endAt

\* While somebody still has to decide on the leave, its current step is an
\* undecided one that is not automatic, and every earlier step is settled: the
\* leave never waits on nobody, nor on a step before its turn.
LeaveHasTurn ==
  leave.status = "PENDING" =>
    /\ leave.at \in Pending(leave) \ AutoSteps
    /\ Pending(leave) \cap 1..(leave.at - 1) = {}

\* A leave becomes good for the gate only when every step of its chain has
\* been approved, by the person or by an override; only a leave reopened after
\* a rejection may have steps that were cancelled.
ApprovedByAll ==
  leave.status \in {"APPROVED", "OVERDUE", "COMPLETED"} =>
    \A i \in Steps :
      \/ leave.decision[i] = "APPROVED"
      \/ recovered /\ leave.decision[i] = "CANCELLED"

\* A leave that has been cancelled, completed or has expired stays so: no late
\* decision, extension, scan or job brings it back (the comment at
\* approve-extension.service.ts:70 names the case).
EndedStaysEnded ==
  [][leave.status \in {"CANCELLED", "COMPLETED", "EXPIRED"}
       => leave'.status = leave.status]_vars

\* An extension never moves the leave or its pass after it has been decided or
\* withdrawn: the window changes only with an extension that becomes approved
\* in the same step, and to the end that extension asked for.
WindowMovesByApproval ==
  [][leave.endAt # 0 /\ leave'.endAt # leave.endAt =>
       \E e \in Exts : /\ ext[e].status \in {"REQUESTED", "PENDING"}
                       /\ ext'[e].status = "APPROVED"
                       /\ leave'.endAt = ext[e].wants]_vars

\* As long as the leave is live, a student who is out of the hostel holds the
\* pass to come back with: nothing that happens meanwhile takes it away
\* (invalidate-qr.service.ts:53 says so of an invalidation).
OutCanReturn ==
  Live /\ location # "IN_HOSTEL" =>
    qr.status = "ACTIVE" /\ (qr.scanned \/ qr.returns)

\* The leave does what LeaveLifecycle promises: statuses move along the state
\* machine, the pass becomes usable only by an approval and stops being usable
\* with the leave, the window moves only while the leave is live.
Lifecycle == INSTANCE LeaveLifecycle WITH
  status <- leave.status, usable <- (qr.status = "ACTIVE"), endAt <- leave.endAt

RefinesLifecycle == Lifecycle!Spec

\* A pending extension has an undecided current step and every earlier step is
\* settled: an approver never decides out of turn.
ExtensionHasTurn ==
  \A e \in PendingExts :
    /\ ext[e].at \in Pending(ext[e])
    /\ Pending(ext[e]) \cap 1..(ext[e].at - 1) = {}
=============================================================================
