----------------------------- MODULE GateMovement -----------------------------
(***************************************************************************)
(* One student at the gate: several approved leaves with a pass each, the  *)
(* scans by day, the operations of the staff, the ends of the leaves and   *)
(* the movements the outbox handler records when an event reaches it.      *)
(*                                                                         *)
(* Only what takes the row lock of the leave or of the student before it   *)
(* reads is one action.  A scan checks for conflicts and for the limit of  *)
(* the day before its transaction; a return scan reads the open session    *)
(* before the location; cancelLeave and expireSingleLeave lock the leave,  *)
(* read the pass and then write; the staff operations read the location    *)
(* outside their transaction and a pass or a leave without a lock inside   *)
(* it.  Each of these is several actions, and each may give up in between. *)
(*                                                                         *)
(* Who holds a leave's row FOR UPDATE keeps out whoever locks it, and also *)
(* every movement on it, whose foreign key locks the same row.             *)
(*                                                                         *)
(* The chain, extensions and re-issued passes are in LeaveWorkflow; leaves *)
(* here keep their window.  Events are delivered at any time and any       *)
(* number of times, as EventDelivery allows.                               *)
(***************************************************************************)
EXTENDS Naturals, FiniteSets

CONSTANTS
  Leaves,       \* the leaves of the student
  ReturnTypes,  \* those whose pass is for the return only (qrType LEAVE_RETURN)
  Recurring,    \* those of them that are used every day (DAILY_RECURRING)
  StartDay,     \* the day a leave starts on
  EndDay,       \* the day it ends on, at noon
  LastTick,     \* bound: half days that pass
  MaxTaps,      \* bound: scans of one pass at the same time
  None          \* no leave

ASSUME GateAssumption ==
  /\ ReturnTypes \subseteq Leaves /\ Recurring \subseteq ReturnTypes /\ None \notin Leaves
  /\ LastTick \in Nat /\ MaxTaps \in Nat
  /\ StartDay \in [Leaves -> Nat] /\ EndDay \in [Leaves -> Nat]

VARIABLES
  tick,      \* the time, in half days
  leave,     \* status of each leave
  pass,      \* status of its pass; OPEN is ACTIVE with firstScanAt set
  location,  \* currentLocationState of the student
  taps,      \* scans of each pass between their checks and their transaction
  returned,  \* successful return scans of the day, for each pass
  scanning,  \* passes of the return scans that have found no other session
  ending,    \* a cancellation or expiry that has locked its leave: both
  staff,     \* a staff operation that has read the location
  events,    \* LEAVE_* events that were published
  slips      \* history: what a stale read has done

vars == <<tick, leave, pass, location, taps, returned, scanning, ending, staff, events, slips>>

LeaveStatuses == {"PENDING", "APPROVED", "OVERDUE", "COMPLETED", "CANCELLED", "EXPIRED"}
PassStatuses == {"ABSENT", "ACTIVE", "OPEN", "USED", "INVALIDATED", "EXPIRED"}
OutStates == {"CHECKED_OUT", "OUTSIDE_HOSTEL", "OVERDUE"}
Locations == {"IN_HOSTEL"} \cup OutStates
Kinds == {"CANCELLED", "EXPIRED", "OVERDUE"}
\* saw: what the transaction has read, the pass for a return and the leave for
\* an overdue mark, and "" before that.
StaffCalls ==
  [op: {"none", "checkout", "return", "overdue"}, from: Locations,
   target: Leaves \cup {None}, saw: LeaveStatuses \cup PassStatuses \cup {""}]
NoCall == [op |-> "none", from |-> "IN_HOSTEL", target |-> None, saw |-> ""]
NoEnding == [leave |-> None, to |-> "EXPIRED"]
Slips == {"blindMove", "crossedReturn", "overlookedPass"}

Ended(status) == status \in {"COMPLETED", "CANCELLED", "EXPIRED"}
Usable(status) == status \in {"APPROVED", "OVERDUE"}
OpenSessions == {l \in Leaves : pass[l] = "OPEN"}
LiveLeaves == {l \in Leaves : Usable(leave[l])}

Init ==
  /\ tick = 0
  /\ leave = [l \in Leaves |-> "PENDING"]
  /\ pass = [l \in Leaves |-> "ABSENT"]
  /\ location = "IN_HOSTEL"
  /\ taps = [l \in Leaves |-> 0] /\ returned = [l \in Leaves |-> 0]
  /\ scanning = {} /\ ending = NoEnding /\ staff = NoCall
  /\ events = {} /\ slips = {}

(***************************************************************************)
(* Days and windows (qr-window.ts).                                        *)
(***************************************************************************)
Day == tick \div 2
EndPassed(l) == tick > 2 * EndDay[l]
\* The last day of an exit: the day before the end, or the day of a leave
\* that starts and ends on one.
ExitDays(l) == StartDay[l]..(IF EndDay[l] > StartDay[l] THEN EndDay[l] - 1 ELSE StartDay[l])
ReturnDays(l) == StartDay[l]..EndDay[l]
\* expiresAt is a day after the end.
PassExpired(l) == tick > 2 * EndDay[l] + 2

\* A return scan takes the time once: as a bound, no half day passes in it.
Tick ==
  /\ tick < LastTick /\ scanning = {} /\ tick' = tick + 1
  /\ returned' = [l \in Leaves |-> IF tick' % 2 = 0 THEN 0 ELSE returned[l]]
  /\ UNCHANGED <<leave, pass, location, taps, scanning, ending, staff, events, slips>>

(***************************************************************************)
(* Row locks that are held across two actions.                             *)
(***************************************************************************)
Locked == {l \in Leaves : l \in scanning \/ ending.leave = l}

\* recordMovement: the student row is locked and still where it is expected.
Moves(from, to) == location = from /\ location' = to

(***************************************************************************)
(* Approval and the scans.                                                 *)
(***************************************************************************)
\* Slip: an approval takes the student to the location of the old contract.
ApproveLeaveLegacy(l) ==
  /\ leave[l] = "PENDING" /\ l \notin Locked
  /\ leave' = [leave EXCEPT ![l] = "APPROVED"]
  /\ pass' = [pass EXCEPT ![l] = "ACTIVE"]
  /\ location' = IF location = "IN_HOSTEL" THEN "APPROVED_LEAVE" ELSE location
  /\ UNCHANGED <<tick, taps, returned, scanning, ending, staff, events, slips>>

\* issueQrPassForApprovedLeave: a return-only type takes the student out.
ApproveLeave(l) ==
  /\ leave[l] = "PENDING" /\ l \notin Locked
  /\ leave' = [leave EXCEPT ![l] = "APPROVED"]
  /\ pass' = [pass EXCEPT ![l] = "ACTIVE"]
  /\ location' = IF l \in ReturnTypes /\ location = "IN_HOSTEL"
                 THEN "OUTSIDE_HOSTEL" ELSE location
  /\ UNCHANGED <<tick, taps, returned, scanning, ending, staff, events, slips>>

\* findUsableExitPassForStudent, which counts return-only passes too.
Conflicting(l) ==
  {m \in Leaves \ {l} : pass[m] = "ACTIVE" /\ tick >= 2 * StartDay[m] /\ ~PassExpired(m)}

\* returnSessionError: a return goes to the open session; without one only a
\* return-only pass is taken.
ReturnMatches(l) == OpenSessions \subseteq {l} /\ (l \in ReturnTypes \/ pass[l] = "OPEN")

Tap(l) ==
  /\ taps[l] < MaxTaps /\ taps' = [taps EXCEPT ![l] = @ + 1]
  /\ UNCHANGED <<tick, leave, pass, location, returned, scanning, ending, staff, events, slips>>

\* scanQrPass, EXIT_SCAN, up to the transaction.
TapExit(l) ==
  /\ l \notin ReturnTypes /\ pass[l] = "ACTIVE"
  /\ Day \in ExitDays(l) /\ Conflicting(l) = {} /\ OpenSessions = {}
  /\ Tap(l)

\* Slip: a recurring pass has no limit per day.
TapReturnUnlimited(l) ==
  /\ pass[l] \in {"ACTIVE", "OPEN"} /\ Day \in ReturnDays(l) /\ ReturnMatches(l)
  /\ Tap(l)

\* RETURN_SCAN: a recurring pass is good for two returns a day.
TapReturn(l) ==
  /\ pass[l] \in {"ACTIVE", "OPEN"} /\ Day \in ReturnDays(l) /\ ReturnMatches(l)
  /\ l \in Recurring => returned[l] < 2
  /\ Tap(l)

\* The checks before the transaction may have been passed in vain.
TapRefused(l) ==
  /\ taps[l] > 0 /\ (l \in scanning => taps[l] > 1)
  /\ taps' = [taps EXCEPT ![l] = @ - 1]
  /\ UNCHANGED <<tick, leave, pass, location, returned, scanning, ending, staff, events, slips>>

\* Slip: the student is moved from wherever he is.
ExitScanBlind(l) ==
  /\ taps[l] > 0 /\ taps' = [taps EXCEPT ![l] = @ - 1]
  /\ l \notin Locked /\ Usable(leave[l])
  /\ l \notin ReturnTypes /\ pass[l] = "ACTIVE" /\ Day \in ExitDays(l)
  /\ Moves(location, "OUTSIDE_HOSTEL")
  /\ pass' = [pass EXCEPT ![l] = "OPEN"]
  /\ UNCHANGED <<tick, leave, returned, scanning, ending, staff, events, slips>>

\* The exit's transaction: the pass, the leave and the window are read again,
\* the conflicts and the open session are not.
ExitScan(l) ==
  /\ taps[l] > 0 /\ taps' = [taps EXCEPT ![l] = @ - 1]
  /\ l \notin Locked /\ Usable(leave[l])
  /\ l \notin ReturnTypes /\ pass[l] = "ACTIVE" /\ Day \in ExitDays(l)
  /\ Moves("IN_HOSTEL", "OUTSIDE_HOSTEL")
  /\ pass' = [pass EXCEPT ![l] = "OPEN"]
  /\ UNCHANGED <<tick, leave, returned, scanning, ending, staff, events, slips>>

KeepAllButScanning ==
  UNCHANGED <<tick, leave, pass, location, returned, ending, staff, events, slips>>

\* The return's transaction locks the leave and repeats every check but the
\* limit of the day.
ReadReturnScan(l) ==
  /\ taps[l] > 0 /\ l \notin Locked /\ Usable(leave[l])
  /\ pass[l] \in {"ACTIVE", "OPEN"} /\ Day \in ReturnDays(l) /\ ReturnMatches(l)
  /\ scanning' = scanning \cup {l}
  /\ UNCHANGED taps /\ KeepAllButScanning

ReturnScanEnds(l) ==
  /\ l \in scanning /\ scanning' = scanning \ {l}
  /\ taps' = [taps EXCEPT ![l] = @ - 1]

\* A recurring pass is used up by the second return of the last day, or by
\* one after the leave's end.
LastReturn(l) ==
  l \in Recurring => Day >= EndDay[l] /\ (returned[l] >= 1 \/ tick > 2 * EndDay[l])

\* Then it reads the location, from each of which ENTER is allowed, and moves
\* the student, who may have left on another leave since.
ReturnScan(l) ==
  /\ ReturnScanEnds(l) /\ pass[l] \in {"ACTIVE", "OPEN"}
  /\ Moves(location, "IN_HOSTEL")
  /\ pass' = [pass EXCEPT ![l] = IF LastReturn(l) THEN "USED" ELSE "ACTIVE"]
  /\ leave' = [leave EXCEPT ![l] = IF LastReturn(l) THEN "COMPLETED" ELSE @]
  /\ returned' = [returned EXCEPT ![l] = @ + 1]
  /\ slips' = IF OpenSessions \subseteq {l} THEN slips ELSE slips \cup {"crossedReturn"}
  /\ UNCHANGED <<tick, ending, staff, events>>

ReturnScanRefused(l) == ReturnScanEnds(l) /\ KeepAllButScanning

\* A scan after the last day invalidates the pass, unless it opened a session.
ScanTooLate(l) ==
  /\ pass[l] = "ACTIVE"
  /\ \A d \in (IF l \in ReturnTypes THEN ReturnDays(l) ELSE ExitDays(l)) : Day > d
  /\ pass' = [pass EXCEPT ![l] = "INVALIDATED"]
  /\ UNCHANGED <<tick, leave, location, taps, returned, scanning, ending, staff, events, slips>>

\* runCleanupQrJob
CleanupQr(l) ==
  /\ pass[l] = "ACTIVE" /\ PassExpired(l)
  /\ pass' = [pass EXCEPT ![l] = "EXPIRED"]
  /\ UNCHANGED <<tick, leave, location, taps, returned, scanning, ending, staff, events, slips>>

(***************************************************************************)
(* The ends of a leave.                                                    *)
(***************************************************************************)
ReadEnding(l, to) ==
  /\ ending = NoEnding /\ l \notin Locked /\ leave[l] \in {"PENDING", "APPROVED"}
  /\ ending' = [leave |-> l, to |-> to]
  /\ UNCHANGED <<tick, leave, pass, location, taps, returned, scanning, staff, events, slips>>

\* Slip: a pass in use does not protect its leave.
ReadAnyExpiry(l) == ReadEnding(l, "EXPIRED")

\* expireSingleLeave locks the leave and reads the pass.
ReadExpiry(l) == pass[l] # "OPEN" /\ ReadEnding(l, "EXPIRED")

\* cancelLeave: and the location of the student.
ReadCancel(l) ==
  /\ leave[l] = "APPROVED" => /\ pass[l] \notin {"OPEN", "USED"}
                              /\ l \in ReturnTypes \/ location = "IN_HOSTEL"
  /\ ReadEnding(l, "CANCELLED")

\* The write.  An unused pass is invalidated, one used meanwhile is left alone;
\* cancelling a return-only leave brings the student in.
EndLeave ==
  /\ ending # NoEnding
  /\ LET l == ending.leave
         broughtIn == /\ ending.to = "CANCELLED" /\ leave[l] = "APPROVED"
                      /\ l \in ReturnTypes /\ location = "OUTSIDE_HOSTEL"
     IN
     /\ leave' = [leave EXCEPT ![l] = ending.to]
     /\ pass' = [pass EXCEPT ![l] = IF @ = "ACTIVE" THEN "INVALIDATED" ELSE @]
     /\ events' = events \cup {<<l, ending.to>>}
     /\ IF broughtIn THEN Moves("OUTSIDE_HOSTEL", "IN_HOSTEL") ELSE UNCHANGED location
     /\ slips' = IF broughtIn /\ OpenSessions # {} THEN slips \cup {"blindMove"} ELSE slips
  /\ ending' = NoEnding
  /\ UNCHANGED <<tick, taps, returned, scanning, staff>>

EndingRefused ==
  /\ ending # NoEnding /\ ending' = NoEnding
  /\ UNCHANGED <<tick, leave, pass, location, taps, returned, scanning, staff, events, slips>>

\* Slip: the pass is left as it is.
CompleteLeaveOnly(l) ==
  /\ Usable(leave[l]) /\ l \notin Locked
  /\ leave' = [leave EXCEPT ![l] = "COMPLETED"]
  /\ UNCHANGED <<tick, pass, location, taps, returned, scanning, ending, staff, events, slips>>

\* completeLeave, with its pass; the student stays where the gate saw him last.
CompleteLeave(l) ==
  /\ Usable(leave[l]) /\ l \notin Locked
  /\ leave' = [leave EXCEPT ![l] = "COMPLETED"]
  /\ pass' = [pass EXCEPT ![l] = CASE @ = "OPEN" -> "USED"
                                   [] @ = "ACTIVE" -> "INVALIDATED"
                                   [] OTHER -> @]
  /\ UNCHANGED <<tick, location, taps, returned, scanning, ending, staff, events, slips>>

\* markOverdueSingleLeave, by the job, whose list is taken to be current.
MarkOverdueLeave(l) ==
  /\ leave[l] = "APPROVED" /\ pass[l] = "OPEN" /\ EndPassed(l)
  /\ l \notin Locked
  /\ leave' = [leave EXCEPT ![l] = "OVERDUE"]
  /\ location' = IF location \in {"CHECKED_OUT", "OUTSIDE_HOSTEL"} THEN "OVERDUE" ELSE location
  /\ events' = events \cup {<<l, "OVERDUE">>}
  /\ UNCHANGED <<tick, pass, taps, returned, scanning, ending, staff, slips>>

(***************************************************************************)
(* The staff.  One operation at a time; l may be no leave.                 *)
(***************************************************************************)
Call(op, l) == staff' = [op |-> op, from |-> location, target |-> l, saw |-> ""]
KeepAllButStaff ==
  UNCHANGED <<tick, leave, pass, location, taps, returned, scanning, ending, events, slips>>

\* manualCheckout, before and in its transaction.
ReadCheckout(l) ==
  /\ staff.op = "none" /\ location = "IN_HOSTEL"
  /\ l # None => leave[l] = "APPROVED"
  /\ Call("checkout", l) /\ KeepAllButStaff

ManualCheckout ==
  /\ staff.op = "checkout" /\ staff.target \notin Locked
  /\ Moves(staff.from, "CHECKED_OUT")
  /\ pass' = [m \in Leaves |-> IF m = staff.target /\ pass[m] = "ACTIVE" THEN "OPEN" ELSE pass[m]]
  /\ staff' = NoCall
  /\ UNCHANGED <<tick, leave, taps, returned, scanning, ending, events, slips>>

\* manualReturn reads the location and the open session, and falls back on the
\* leave it was given.
ReadReturn(l) ==
  /\ staff.op = "none" /\ location \in OutStates
  /\ OpenSessions # {} => l \in OpenSessions
  /\ staff' = [op |-> "return", from |-> location, target |-> l,
               saw |-> IF l \in OpenSessions THEN "OPEN" ELSE ""]
  /\ KeepAllButStaff

\* Its transaction begins with the pass of that leave.
SeeReturn ==
  /\ staff.op = "return" /\ staff.saw = "" /\ staff.target # None
  /\ staff' = [staff EXCEPT !.saw = pass[staff.target]]
  /\ KeepAllButStaff

\* It moves the student, closes the pass it has seen and completes the leave,
\* which it reads behind the movement's lock.
Returning ==
  /\ staff.op = "return" /\ staff.saw # "" /\ staff.target \notin Locked
  /\ Moves(staff.from, "IN_HOSTEL") /\ staff' = NoCall
  /\ UNCHANGED <<tick, taps, returned, scanning, ending, events>>

Completed(l) == [leave EXCEPT ![l] = IF Usable(@) THEN "COMPLETED" ELSE @]
Closed(l, seen) ==
  [pass EXCEPT ![l] = IF {seen, @} \subseteq {"ACTIVE", "OPEN"} THEN "USED" ELSE @]

\* What it may leave behind: a session that was opened since it looked, and
\* the pass of a leave that was approved after it looked for one.
LeftBehind(l) ==
  {slip \in {"crossedReturn", "overlookedPass"} :
     IF slip = "crossedReturn" THEN \E m \in Leaves : pass'[m] = "OPEN"
     ELSE Usable(leave[l]) /\ pass'[l] \in {"ACTIVE", "OPEN"}}

\* Slip: the session is left open.
ManualReturnOpen ==
  /\ Returning
  /\ leave' = Completed(staff.target)
  /\ slips' = IF OpenSessions \subseteq {staff.target} THEN slips ELSE slips \cup {"crossedReturn"}
  /\ UNCHANGED pass

\* Slip: the leave is completed whatever its status was.
ManualReturnAny ==
  /\ Returning
  /\ leave' = [leave EXCEPT ![staff.target] = "COMPLETED"]
  /\ pass' = Closed(staff.target, staff.saw)
  /\ slips' = slips \cup LeftBehind(staff.target)

ManualReturn ==
  /\ Returning
  /\ leave' = Completed(staff.target)
  /\ pass' = Closed(staff.target, staff.saw)
  /\ slips' = slips \cup LeftBehind(staff.target)

ManualReturnAlone ==
  /\ staff.op = "return" /\ staff.target = None
  /\ Moves(staff.from, "IN_HOSTEL") /\ staff' = NoCall
  /\ slips' = IF OpenSessions = {} THEN slips ELSE slips \cup {"crossedReturn"}
  /\ UNCHANGED <<tick, leave, pass, taps, returned, scanning, ending, events>>

\* markOverdue by the staff, for a leave or for none.
ReadOverdue(l) ==
  /\ staff.op = "none" /\ location \in {"CHECKED_OUT", "OUTSIDE_HOSTEL"}
  /\ Call("overdue", l) /\ KeepAllButStaff

SeeOverdue ==
  /\ staff.op = "overdue" /\ staff.saw = "" /\ staff.target # None
  /\ staff' = [staff EXCEPT !.saw = leave[staff.target]]
  /\ KeepAllButStaff

MarkOverdue ==
  /\ staff.op = "overdue" /\ (staff.saw # "" \/ staff.target = None)
  /\ staff.target \notin Locked /\ Moves(staff.from, "OVERDUE")
  /\ IF staff.saw = "APPROVED"
     THEN /\ leave' = [leave EXCEPT ![staff.target] = "OVERDUE"]
          /\ events' = events \cup {<<staff.target, "OVERDUE">>}
     ELSE UNCHANGED <<leave, events>>
  /\ staff' = NoCall
  /\ UNCHANGED <<tick, pass, taps, returned, scanning, ending, slips>>

StaffRefused ==
  /\ staff.op # "none" /\ staff' = NoCall
  /\ KeepAllButStaff

(***************************************************************************)
(* handleLeaveEvent: the movement an event stands for, by the location the *)
(* student is in when the event is delivered.                              *)
(***************************************************************************)
Deliver(l, kind) ==
  /\ <<l, kind>> \in events /\ l \notin Locked
  /\ IF kind = "OVERDUE"
     THEN /\ location \in {"CHECKED_OUT", "OUTSIDE_HOSTEL"} /\ location' = "OVERDUE"
          /\ UNCHANGED slips
     ELSE /\ l \in ReturnTypes /\ location = "OUTSIDE_HOSTEL" /\ location' = "IN_HOSTEL"
          /\ slips' = IF OpenSessions # {} THEN slips \cup {"blindMove"} ELSE slips
  /\ UNCHANGED <<tick, leave, pass, taps, returned, scanning, ending, staff, events>>

Next ==
  \/ Tick \/ EndLeave \/ EndingRefused \/ StaffRefused
  \/ ManualCheckout \/ SeeReturn \/ ManualReturn \/ ManualReturnAlone
  \/ SeeOverdue \/ MarkOverdue
  \/ \E l \in Leaves : \/ ApproveLeave(l) \/ TapExit(l) \/ TapReturn(l) \/ TapRefused(l)
                       \/ ExitScan(l) \/ ReadReturnScan(l) \/ ReturnScan(l)
                       \/ ReturnScanRefused(l) \/ ScanTooLate(l) \/ CleanupQr(l)
                       \/ ReadExpiry(l) \/ ReadCancel(l) \/ CompleteLeave(l)
                       \/ MarkOverdueLeave(l)
  \/ \E l \in Leaves \cup {None} : ReadCheckout(l) \/ ReadReturn(l) \/ ReadOverdue(l)
  \/ \E l \in Leaves, kind \in Kinds : Deliver(l, kind)

Spec == Init /\ [][Next]_vars

(***************************************************************************)
(* Properties.                                                             *)
(***************************************************************************)
\* Type invariant of the gate (the enums of schema/leave.ts and movement.ts).
TypeOK ==
  /\ tick \in 0..LastTick
  /\ leave \in [Leaves -> LeaveStatuses] /\ pass \in [Leaves -> PassStatuses]
  /\ location \in Locations
  /\ taps \in [Leaves -> 0..MaxTaps] /\ returned \in [Leaves -> Nat]
  /\ scanning \subseteq Leaves
  /\ ending \in [leave : Leaves \cup {None}, to : {"CANCELLED", "EXPIRED"}]
  /\ staff \in StaffCalls
  /\ events \subseteq (Leaves \X Kinds) /\ slips \subseteq Slips

\* Moves into the hostel that leave a session open: of a cancellation, expiry
\* or its late event, which do not look for one, and of a return that looked
\* before the checkout that opened it.
Astray == slips \cap {"blindMove", "crossedReturn"} # {}

\* scanQrPass and findOpenSessionPassForStudent: although the exit looks for an
\* open session before its transaction only, a student has at most one, for
\* the transaction fails on the location, unless the student was brought in
\* behind a session's back.
OneSession == Astray \/ \A l, m \in OpenSessions : l = m

\* recordMovement: an open session and the location of the student agree, over
\* every interleaving of scans, staff operations, ends of leaves and late
\* events, until such a move.
SessionIsOut == Astray \/ OpenSessions = {} \/ location # "IN_HOSTEL"

\* cancelLeave, expireSingleLeave, completeLeave, manualReturn, manualCheckout
\* and the scans race each other: whoever wins, a pass that opens the gate
\* belongs to a leave that can still be completed, unless a manual return has
\* completed a leave that was approved after it had looked for its pass.
CredentialBacked ==
  "overlookedPass" \in slips
    \/ \A l \in Leaves : pass[l] \in {"ACTIVE", "OPEN"} => Usable(leave[l])

\* An ended leave keeps its status over every race of scans, staff operations,
\* jobs and decisions, but for one: markOverdue by the staff writes OVERDUE
\* over the end when it has read the leave as APPROVED before.
EndedStaysEnded ==
  [][\A l \in Leaves : Ended(leave[l]) /\ leave'[l] # leave[l] =>
       staff.op = "overdue" /\ staff.target = l /\ staff.saw = "APPROVED"]_vars

\* scanQrPass checks the limit of two returns a day before its transaction:
\* the scans at the same time go past it, and no others.
DailyReturnsBounded == \A l \in Recurring : returned[l] <= 1 + MaxTaps

\* recordMovement, scanQrPass, manualCheckout, manualReturn and the ends of a
\* leave, over every interleaving of their reads and writes: the student goes
\* out from inside and with no other session open, on a leave that is live; he
\* comes in with his session closed; and a leave does not end with its session
\* open.  The races that may break this are named in the promise.
Presence == INSTANCE StudentPresence WITH
  inside <- location = "IN_HOSTEL",
  live <- LiveLeaves,
  sessions <- OpenSessions
RefinesPresence == Presence!Spec
===============================================================================
