------------------------------ MODULE MovementProofs ------------------------------
(***************************************************************************)
(* Proofs about the gate for any number of leaves of every kind, any days  *)
(* and any number of scans at once: its types, that a session is of a      *)
(* student who is out and the only one, that a pass belongs to a leave     *)
(* that can be completed, that an ended leave stays ended, and the bound   *)
(* on the returns of a day.                                                *)
(***************************************************************************)
EXTENDS GateMovement, TLAPS

USE GateAssumption

(* What a call has read: a checkout a student who is in, the overdue mark  *)
(* one who is out, and a leave only of a call that has one.                *)
CallsRead ==
  /\ staff.op = "checkout" => staff.from = "IN_HOSTEL"
  /\ staff.op = "overdue" => staff.from # "IN_HOSTEL"
  /\ staff.saw # "" => staff.target \in Leaves

(* A cancellation or expiry under way holds a leave that has not ended,    *)
(* with a pass that is not in use.                                         *)
EndingHolds ==
  ending # NoEnding =>
    /\ ending.leave \in Leaves
    /\ leave[ending.leave] \in {"PENDING", "APPROVED"}
    /\ pass[ending.leave] # "OPEN"

(* A return scan in its transaction holds a leave that can be completed.   *)
ScansHold ==
  /\ ending.leave \notin scanning
  /\ \A l \in scanning : Usable(leave[l]) /\ taps[l] > 0

(* No pass before the approval.                                            *)
PendingUnissued == \A l \in Leaves : leave[l] = "PENDING" => pass[l] = "ABSENT"

(* The returns of the day and the scans under way together.                *)
TapsCounted == \A l \in Recurring : returned[l] + taps[l] <= 1 + MaxTaps

-----------------------------------------------------------------------------
LEMMA TypeInit == Init => TypeOK
<1>1. SUFFICES ASSUME Init PROVE TypeOK
  OBVIOUS
<1>2. NoCall \in StaffCalls
  BY DEF NoCall, StaffCalls, Locations
<1>3. leave \in [Leaves -> LeaveStatuses] /\ pass \in [Leaves -> PassStatuses]
  BY <1>1 DEF Init, LeaveStatuses, PassStatuses
<1>4. taps \in [Leaves -> 0..MaxTaps] /\ returned \in [Leaves -> Nat]
  BY <1>1 DEF Init
<1>. QED
  BY <1>1, <1>2, <1>3, <1>4 DEF Init, TypeOK, Locations, NoEnding

LEMMA TypeTap ==
  ASSUME TypeOK, NEW l \in Leaves,
         Tap(l) \/ TapRefused(l)
  PROVE  TypeOK'
<1>1. taps[l] \in 0..MaxTaps
  BY DEF TypeOK
<1>2. taps' \in [Leaves -> 0..MaxTaps]
  BY <1>1 DEF Tap, TapRefused, TypeOK
<1>. QED
  BY <1>2 DEF Tap, TapRefused, TypeOK

LEMMA TypeScan ==
  ASSUME TypeOK, ScansHold, NEW l \in Leaves,
         ExitScan(l) \/ ReadReturnScan(l) \/ ReturnScan(l) \/ ReturnScanRefused(l)
  PROVE  TypeOK'
<1>. USE DEF TypeOK
<1>1. CASE ExitScan(l)
  BY <1>1 DEF ExitScan, Moves, Locations, OutStates, PassStatuses
<1>2. CASE ReadReturnScan(l)
  BY <1>2 DEF ReadReturnScan, KeepAllButScanning
<1>3. ASSUME ReturnScanEnds(l)
      PROVE  taps' \in [Leaves -> 0..MaxTaps] /\ scanning' \subseteq Leaves
  BY <1>3 DEF ReturnScanEnds, ScansHold
<1>4. CASE ReturnScan(l)
  <2>1. pass' \in [Leaves -> PassStatuses] /\ leave' \in [Leaves -> LeaveStatuses]
        /\ returned' \in [Leaves -> Nat]
    BY <1>4 DEF ReturnScan, PassStatuses, LeaveStatuses
  <2>. QED
    BY <1>3, <1>4, <2>1 DEF ReturnScan, Moves, Locations, Slips
<1>5. CASE ReturnScanRefused(l)
  BY <1>3, <1>5 DEF ReturnScanRefused, KeepAllButScanning
<1>. QED
  BY <1>1, <1>2, <1>4, <1>5

LEMMA TypeLeave ==
  ASSUME TypeOK, NEW l \in Leaves,
         \/ ApproveLeave(l) \/ ScanTooLate(l) \/ CleanupQr(l) \/ ReadExpiry(l)
         \/ ReadCancel(l) \/ CompleteLeave(l) \/ MarkOverdueLeave(l)
  PROVE  TypeOK'
<1>. USE DEF TypeOK, LeaveStatuses, PassStatuses, Locations, OutStates, Kinds
<1>1. CASE ApproveLeave(l)
  BY <1>1 DEF ApproveLeave
<1>2. CASE ScanTooLate(l) \/ CleanupQr(l)
  BY <1>2 DEF ScanTooLate, CleanupQr
<1>3. CASE ReadExpiry(l) \/ ReadCancel(l)
  BY <1>3 DEF ReadExpiry, ReadCancel, ReadEnding
<1>4. CASE CompleteLeave(l)
  BY <1>4 DEF CompleteLeave
<1>5. CASE MarkOverdueLeave(l)
  BY <1>5 DEF MarkOverdueLeave
<1>. QED
  BY <1>1, <1>2, <1>3, <1>4, <1>5

LEMMA TypeStaff ==
  ASSUME TypeOK, CallsRead,
         \/ \E l \in Leaves \cup {None} : ReadCheckout(l) \/ ReadReturn(l) \/ ReadOverdue(l)
         \/ SeeReturn \/ SeeOverdue \/ StaffRefused
         \/ ManualCheckout \/ ManualReturn \/ ManualReturnAlone \/ MarkOverdue
  PROVE  TypeOK'
<1>. USE DEF TypeOK
<1>1. NoCall \in StaffCalls
  BY DEF NoCall, StaffCalls, Locations
<1>2. ASSUME NEW l \in Leaves \cup {None}, ReadCheckout(l) \/ ReadReturn(l) \/ ReadOverdue(l)
      PROVE  TypeOK'
  <2>1. \E o \in {"checkout", "return", "overdue"}, seen \in {"OPEN", ""} :
          staff' = [op |-> o, from |-> location, target |-> l, saw |-> seen]
    BY <1>2 DEF ReadCheckout, ReadReturn, ReadOverdue, Call
  <2>2. ASSUME NEW o \in {"checkout", "return", "overdue"}, NEW seen \in {"OPEN", ""}
        PROVE  [op |-> o, from |-> location, target |-> l, saw |-> seen] \in StaffCalls
    BY DEF StaffCalls, PassStatuses
  <2>3. staff' \in StaffCalls
    BY <2>1, <2>2
  <2>. QED
    BY <1>2, <2>3 DEF ReadCheckout, ReadReturn, ReadOverdue, KeepAllButStaff
<1>3. CASE SeeReturn \/ SeeOverdue
  <2>1. staff.target \in Leaves
    BY <1>3 DEF SeeReturn, SeeOverdue, StaffCalls
  <2>2. staff' \in StaffCalls
    BY <1>3, <2>1 DEF SeeReturn, SeeOverdue, StaffCalls
  <2>. QED
    BY <1>3, <2>2 DEF SeeReturn, SeeOverdue, KeepAllButStaff
<1>4. CASE StaffRefused
  BY <1>1, <1>4 DEF StaffRefused, KeepAllButStaff
<1>5. CASE ManualCheckout
  BY <1>1, <1>5 DEF ManualCheckout, Moves, Locations, OutStates, PassStatuses
<1>6. CASE ManualReturn
  <2>1. pass' \in [Leaves -> PassStatuses]
    BY <1>6 DEF ManualReturn, Closed, PassStatuses
  <2>2. leave' \in [Leaves -> LeaveStatuses]
    BY <1>6 DEF ManualReturn, Completed, LeaveStatuses
  <2>3. slips' \subseteq Slips
    BY <1>6 DEF ManualReturn, LeftBehind, Slips
  <2>. QED
    BY <1>1, <1>6, <2>1, <2>2, <2>3 DEF ManualReturn, Returning, Moves, Locations
<1>7. CASE ManualReturnAlone
  BY <1>1, <1>7 DEF ManualReturnAlone, Moves, Locations, Slips
<1>8. CASE MarkOverdue
  <2>1. location' \in Locations /\ staff' = NoCall
        /\ UNCHANGED <<tick, pass, taps, returned, scanning, ending, slips>>
    BY <1>8 DEF MarkOverdue, Moves, Locations, OutStates
  <2>2. CASE staff.saw = "APPROVED"
    <3>1. staff.target \in Leaves
      BY <2>2 DEF CallsRead
    <3>. QED
      BY <1>1, <1>8, <2>1, <2>2, <3>1 DEF MarkOverdue, LeaveStatuses, Kinds
  <2>3. CASE staff.saw # "APPROVED"
    BY <1>1, <1>8, <2>1, <2>3 DEF MarkOverdue
  <2>. QED
    BY <2>2, <2>3
<1>. QED
  BY <1>2, <1>3, <1>4, <1>5, <1>6, <1>7, <1>8

-----------------------------------------------------------------------------
(* Most steps open no session; then only a move into the hostel matters.   *)
LEMMA FewerSessions ==
  ASSUME SessionIsOut, OneSession, slips \subseteq slips',
         \A m \in Leaves : pass'[m] = "OPEN" => pass[m] = "OPEN",
         \/ slips' \cap {"blindMove", "crossedReturn"} # {}
         \/ \A m \in Leaves : pass'[m] # "OPEN"
         \/ location' # "IN_HOSTEL"
         \/ location' = location
  PROVE  SessionIsOut' /\ OneSession'
BY DEF SessionIsOut, OneSession, OpenSessions, Astray

LEMMA SessionsOfLeaves ==
  ASSUME TypeOK, SessionIsOut, OneSession, NEW l \in Leaves,
         \/ ApproveLeave(l) \/ ScanTooLate(l) \/ CleanupQr(l) \/ ReadExpiry(l)
         \/ ReadCancel(l) \/ CompleteLeave(l) \/ MarkOverdueLeave(l)
         \/ Tap(l) \/ TapRefused(l) \/ ReturnScan(l)
  PROVE  SessionIsOut' /\ OneSession'
<1>. USE DEF TypeOK
<1>1. CASE ApproveLeave(l)
  BY <1>1, FewerSessions DEF ApproveLeave
<1>2. CASE ScanTooLate(l) \/ CleanupQr(l)
  BY <1>2, FewerSessions DEF ScanTooLate, CleanupQr
<1>3. CASE ReadExpiry(l) \/ ReadCancel(l)
  BY <1>3, FewerSessions DEF ReadExpiry, ReadCancel, ReadEnding
<1>4. CASE CompleteLeave(l)
  BY <1>4, FewerSessions DEF CompleteLeave
<1>5. CASE MarkOverdueLeave(l)
  BY <1>5, FewerSessions DEF MarkOverdueLeave
<1>6. CASE Tap(l) \/ TapRefused(l)
  BY <1>6, FewerSessions DEF Tap, TapRefused
<1>7. CASE ReturnScan(l)
  <2>1. \A m \in Leaves : pass'[m] = "OPEN" => pass[m] = "OPEN" /\ m # l
    BY <1>7 DEF ReturnScan
  <2>2. slips \subseteq slips' /\ ("crossedReturn" \in slips' \/ OpenSessions \subseteq {l})
    BY <1>7 DEF ReturnScan
  <2>3. "crossedReturn" \in slips' \/ \A m \in Leaves : pass'[m] # "OPEN"
    BY <2>1, <2>2 DEF OpenSessions
  <2>. QED
    BY <2>1, <2>2, <2>3, FewerSessions
<1>. QED
  BY <1>1, <1>2, <1>3, <1>4, <1>5, <1>6, <1>7

(* A session opens only for a student who is in, who has no other one.     *)
LEMMA SessionOpens ==
  ASSUME TypeOK, SessionIsOut, OneSession, slips \subseteq slips', NEW l,
         location = "IN_HOSTEL", location' # "IN_HOSTEL",
         \A m \in Leaves \ {l} : pass'[m] = pass[m]
  PROVE  SessionIsOut' /\ OneSession'
BY DEF SessionIsOut, OneSession, OpenSessions, Astray

LEMMA SessionsOfStaff ==
  ASSUME TypeOK, CallsRead, SessionIsOut, OneSession,
         \/ ManualCheckout \/ ManualReturn \/ ManualReturnAlone \/ MarkOverdue \/ EndLeave
  PROVE  SessionIsOut' /\ OneSession'
<1>. USE DEF TypeOK
<1>1. CASE ManualCheckout
  <2>1. location = "IN_HOSTEL" /\ location' = "CHECKED_OUT" /\ slips \subseteq slips'
    BY <1>1 DEF ManualCheckout, Moves, CallsRead
  <2>2. \A m \in Leaves \ {staff.target} : pass'[m] = pass[m]
    BY <1>1 DEF ManualCheckout
  <2>. QED
    BY <2>1, <2>2, SessionOpens
<1>2. CASE ManualReturn
  <2>1. \A m \in Leaves : pass'[m] = "OPEN" => pass[m] = "OPEN"
    BY <1>2 DEF ManualReturn, Closed
  <2>2. slips \subseteq slips'
        /\ ("crossedReturn" \in slips' \/ \A m \in Leaves : pass'[m] # "OPEN")
    BY <1>2 DEF ManualReturn, LeftBehind
  <2>. QED
    BY <2>1, <2>2, FewerSessions
<1>3. CASE ManualReturnAlone
  <2>1. pass' = pass /\ slips \subseteq slips'
        /\ ("crossedReturn" \in slips' \/ OpenSessions = {})
    BY <1>3 DEF ManualReturnAlone
  <2>. QED
    BY <2>1, FewerSessions DEF OpenSessions
<1>4. CASE MarkOverdue
  BY <1>4, FewerSessions DEF MarkOverdue, Moves
<1>5. CASE EndLeave
  <2>1. \A m \in Leaves : pass'[m] = "OPEN" => pass[m] = "OPEN"
    BY <1>5 DEF EndLeave
  <2>2. slips \subseteq slips'
        /\ (location' = location \/ "blindMove" \in slips' \/ OpenSessions = {})
    BY <1>5 DEF EndLeave
  <2>. QED
    BY <2>1, <2>2, FewerSessions DEF OpenSessions
<1>. QED
  BY <1>1, <1>2, <1>3, <1>4, <1>5

LEMMA SessionsKeep ==
  ASSUME TypeOK, CallsRead, SessionIsOut, OneSession, [Next]_vars
  PROVE  SessionIsOut' /\ OneSession'
<1>1. ASSUME NEW l \in Leaves, ExitScan(l) PROVE SessionIsOut' /\ OneSession'
  <2>1. location = "IN_HOSTEL" /\ location' = "OUTSIDE_HOSTEL" /\ slips' = slips
        /\ \A m \in Leaves \ {l} : pass'[m] = pass[m]
    BY <1>1 DEF ExitScan, Moves, TypeOK
  <2>. QED
    BY <2>1, SessionOpens
<1>2. ASSUME NEW l \in Leaves, NEW kind \in Kinds, Deliver(l, kind)
      PROVE  SessionIsOut' /\ OneSession'
  <2>1. pass' = pass /\ slips \subseteq slips'
        /\ (location' # "IN_HOSTEL" \/ "blindMove" \in slips' \/ OpenSessions = {})
    BY <1>2 DEF Deliver
  <2>. QED
    BY <2>1, FewerSessions DEF OpenSessions
<1>3. ASSUME UNCHANGED <<pass, location, slips>> PROVE SessionIsOut' /\ OneSession'
  BY <1>3 DEF SessionIsOut, OneSession, OpenSessions, Astray
<1>4. CASE Tick \/ EndingRefused \/ StaffRefused \/ SeeReturn \/ SeeOverdue
  BY <1>3, <1>4 DEF Tick, EndingRefused, StaffRefused, SeeReturn, SeeOverdue, KeepAllButStaff
<1>5. CASE \E l \in Leaves \cup {None} : ReadCheckout(l) \/ ReadReturn(l) \/ ReadOverdue(l)
  BY <1>3, <1>5 DEF ReadCheckout, ReadReturn, ReadOverdue, KeepAllButStaff
<1>6. CASE UNCHANGED vars
  BY <1>3, <1>6 DEF vars
<1>7. ASSUME NEW l \in Leaves, TapExit(l) \/ TapReturn(l) PROVE Tap(l)
  BY <1>7 DEF TapExit, TapReturn
<1>8. CASE \E l \in Leaves : ReadReturnScan(l) \/ ReturnScanRefused(l)
  BY <1>3, <1>8 DEF ReadReturnScan, ReturnScanRefused, KeepAllButScanning
<1>. QED
  BY <1>1, <1>2, <1>4, <1>5, <1>6, <1>7, <1>8, SessionsOfLeaves, SessionsOfStaff DEF Next

-----------------------------------------------------------------------------
(* The pass and its leave, and who holds or has read both.                 *)
Backed == CredentialBacked /\ EndingHolds /\ ScansHold

(* A step that touches one leave, which nobody holds after it, or which it *)
(* leaves as it is, and its pass.                                          *)
LEMMA BackedByLeave ==
  ASSUME TypeOK, Backed, NEW l \in Leaves,
         \A m \in Leaves \ {l} :
           leave'[m] = leave[m] /\ pass'[m] = pass[m] /\ taps'[m] = taps[m],
         slips \subseteq slips', ending' = ending, scanning' \subseteq scanning,
         \/ "overlookedPass" \in slips'
         \/ pass'[l] \in {"ACTIVE", "OPEN"} => Usable(leave'[l]),
         \/ l \notin scanning' /\ ending.leave # l
         \/ leave'[l] = leave[l] /\ pass'[l] # "OPEN" /\ taps'[l] = taps[l]
  PROVE  Backed'
<1>. USE DEF TypeOK, Backed
<1>1. CredentialBacked'
  BY DEF CredentialBacked
<1>2. EndingHolds'
  BY DEF EndingHolds
<1>3. ScansHold'
  BY DEF ScansHold
<1>. QED
  BY <1>1, <1>2, <1>3

LEMMA BackedOfLeaves ==
  ASSUME TypeOK, Backed, NEW l \in Leaves,
         \/ ApproveLeave(l) \/ ScanTooLate(l) \/ CleanupQr(l)
         \/ CompleteLeave(l) \/ MarkOverdueLeave(l) \/ ExitScan(l) \/ ReturnScan(l)
  PROVE  Backed'
<1>. USE DEF TypeOK, Usable, Locked
<1>1. CASE ApproveLeave(l)
  BY <1>1, BackedByLeave DEF ApproveLeave
<1>2. CASE ScanTooLate(l) \/ CleanupQr(l)
  BY <1>2, BackedByLeave DEF ScanTooLate, CleanupQr
<1>3. CASE CompleteLeave(l)
  BY <1>3, BackedByLeave DEF CompleteLeave
<1>4. CASE MarkOverdueLeave(l)
  BY <1>4, BackedByLeave DEF MarkOverdueLeave
<1>5. CASE ExitScan(l)
  BY <1>5, BackedByLeave DEF ExitScan
<1>6. CASE ReturnScan(l)
  <2>1. l \in scanning /\ l \notin scanning' /\ scanning' \subseteq scanning
        /\ ending' = ending /\ slips \subseteq slips'
    BY <1>6 DEF ReturnScan, ReturnScanEnds
  <2>2. \A m \in Leaves \ {l} :
          leave'[m] = leave[m] /\ pass'[m] = pass[m] /\ taps'[m] = taps[m]
    BY <1>6 DEF ReturnScan, ReturnScanEnds
  <2>3. ending.leave # l /\ Usable(leave[l])
    BY <2>1 DEF Backed, ScansHold
  <2>4. pass'[l] = "ACTIVE" => leave'[l] = leave[l]
    BY <1>6 DEF ReturnScan
  <2>5. pass'[l] # "OPEN"
    BY <1>6 DEF ReturnScan
  <2>. QED
    BY <2>1, <2>2, <2>3, <2>4, <2>5, BackedByLeave
<1>. QED
  BY <1>1, <1>2, <1>3, <1>4, <1>5, <1>6

LEMMA BackedOfStaff ==
  ASSUME TypeOK, CallsRead, Backed,
         ManualCheckout \/ ManualReturn \/ ManualReturnAlone \/ MarkOverdue
  PROVE  Backed'
<1>. USE DEF TypeOK, Usable, Locked
<1>1. CASE ManualCheckout
  <2>1. UNCHANGED <<leave, ending, scanning, slips, taps>>
    BY <1>1 DEF ManualCheckout
  <2>2. \A m \in Leaves : pass'[m] =
          IF m = staff.target /\ pass[m] = "ACTIVE" THEN "OPEN" ELSE pass[m]
    BY <1>1 DEF ManualCheckout
  <2>3. staff.target \in Leaves => ending.leave # staff.target
    BY <1>1 DEF ManualCheckout
  <2>4. CredentialBacked'
    BY <2>1, <2>2 DEF Backed, CredentialBacked
  <2>5. EndingHolds' /\ ScansHold'
    BY <2>1, <2>2, <2>3 DEF Backed, EndingHolds, ScansHold
  <2>. QED
    BY <2>4, <2>5 DEF Backed
<1>2. CASE ManualReturn
  <2>. DEFINE l == staff.target
  <2>1. l \in Leaves /\ l \notin Locked /\ slips \subseteq slips'
        /\ UNCHANGED <<ending, scanning, taps>>
    BY <1>2 DEF ManualReturn, Returning, CallsRead
  <2>2. \A m \in Leaves \ {l} : leave'[m] = leave[m] /\ pass'[m] = pass[m]
    BY <1>2, <2>1 DEF ManualReturn, Completed, Closed
  <2>3. \/ "overlookedPass" \in slips'
        \/ pass'[l] \in {"ACTIVE", "OPEN"} => Usable(leave'[l])
    <3>1. CASE Usable(leave[l])
      BY <1>2, <3>1 DEF ManualReturn, LeftBehind
    <3>2. CASE ~Usable(leave[l])
      <4>1. leave'[l] = leave[l]
        BY <1>2, <2>1, <3>2 DEF ManualReturn, Completed
      <4>2. pass'[l] \in {"ACTIVE", "OPEN"} => pass'[l] = pass[l]
        BY <1>2, <2>1 DEF ManualReturn, Closed
      <4>. QED
        BY <2>1, <4>1, <4>2 DEF Backed, CredentialBacked
    <3>. QED
      BY <3>1, <3>2
  <2>. HIDE DEF l
  <2>. QED
    BY <2>1, <2>2, <2>3, BackedByLeave
<1>3. CASE ManualReturnAlone
  <2>1. UNCHANGED <<leave, pass, ending, scanning, taps>> /\ slips \subseteq slips'
    BY <1>3 DEF ManualReturnAlone
  <2>. QED
    BY <2>1 DEF Backed, CredentialBacked, EndingHolds, ScansHold
<1>4. CASE MarkOverdue
  <2>1. UNCHANGED <<pass, ending, scanning, slips, taps>>
    BY <1>4 DEF MarkOverdue
  <2>2. CASE staff.saw = "APPROVED"
    <3>1. staff.target \in Leaves
      BY <2>2 DEF CallsRead
    <3>2. staff.target \notin Locked /\ leave'[staff.target] = "OVERDUE"
          /\ \A m \in Leaves \ {staff.target} : leave'[m] = leave[m]
      BY <1>4, <2>2, <3>1 DEF MarkOverdue
    <3>. QED
      BY <2>1, <3>1, <3>2, BackedByLeave
  <2>3. CASE staff.saw # "APPROVED"
    BY <1>4, <2>1, <2>3 DEF MarkOverdue, Backed, CredentialBacked, EndingHolds, ScansHold
  <2>. QED
    BY <2>2, <2>3
<1>. QED
  BY <1>1, <1>2, <1>3, <1>4

LEMMA BackedOfEndings ==
  ASSUME TypeOK, Backed, PendingUnissued,
         \/ EndLeave \/ EndingRefused
         \/ \E l \in Leaves : ReadExpiry(l) \/ ReadCancel(l)
         \/ \E l \in Leaves : ReadReturnScan(l) \/ ReturnScanRefused(l)
  PROVE  Backed'
<1>. USE DEF TypeOK, Backed, Locked
<1>1. CASE EndLeave
  <2>1. ending' = NoEnding /\ ending.leave \in Leaves /\ slips \subseteq slips'
        /\ UNCHANGED <<scanning, taps>>
    BY <1>1 DEF EndLeave, EndingHolds
  <2>2. \A m \in Leaves \ {ending.leave} : leave'[m] = leave[m] /\ pass'[m] = pass[m]
    BY <1>1 DEF EndLeave
  <2>3. pass'[ending.leave] \notin {"ACTIVE", "OPEN"}
    BY <1>1, <2>1 DEF EndLeave, EndingHolds
  <2>4. CredentialBacked'
    BY <2>1, <2>2, <2>3 DEF CredentialBacked
  <2>5. ScansHold' /\ EndingHolds'
    BY <2>1, <2>2 DEF ScansHold, EndingHolds, NoEnding
  <2>. QED
    BY <2>4, <2>5
<1>2. CASE EndingRefused
  <2>1. ending' = NoEnding /\ UNCHANGED <<leave, pass, scanning, taps, slips>>
    BY <1>2 DEF EndingRefused
  <2>. QED
    BY <2>1 DEF CredentialBacked, EndingHolds, ScansHold, NoEnding
<1>3. ASSUME NEW l \in Leaves, ReadExpiry(l) \/ ReadCancel(l) PROVE Backed'
  <2>1. UNCHANGED <<leave, pass, slips, scanning, taps>> /\ ending'.leave = l
        /\ leave[l] \in {"PENDING", "APPROVED"} /\ l \notin scanning
    BY <1>3 DEF ReadExpiry, ReadCancel, ReadEnding
  <2>2. pass[l] # "OPEN"
    BY <1>3, <2>1 DEF ReadExpiry, ReadCancel, PendingUnissued
  <2>. QED
    BY <2>1, <2>2 DEF CredentialBacked, EndingHolds, ScansHold
<1>4. ASSUME NEW l \in Leaves, ReadReturnScan(l) PROVE Backed'
  <2>1. UNCHANGED <<leave, pass, slips, ending, taps>> /\ scanning' = scanning \cup {l}
        /\ ending.leave # l /\ Usable(leave[l]) /\ taps[l] > 0
    BY <1>4 DEF ReadReturnScan, KeepAllButScanning
  <2>. QED
    BY <2>1 DEF CredentialBacked, EndingHolds, ScansHold
<1>5. ASSUME NEW l \in Leaves, ReturnScanRefused(l) PROVE Backed'
  <2>1. UNCHANGED <<leave, pass, slips, ending>> /\ scanning' = scanning \ {l}
        /\ \A m \in Leaves \ {l} : taps'[m] = taps[m]
    BY <1>5 DEF ReturnScanRefused, ReturnScanEnds, KeepAllButScanning
  <2>. QED
    BY <2>1 DEF CredentialBacked, EndingHolds, ScansHold
<1>. QED
  BY <1>1, <1>2, <1>3, <1>4, <1>5

LEMMA BackedKeeps ==
  ASSUME TypeOK, CallsRead, Backed, PendingUnissued, [Next]_vars
  PROVE  Backed'
<1>1. ASSUME UNCHANGED <<leave, pass, ending, slips, scanning, taps>> PROVE Backed'
  BY <1>1 DEF Backed, CredentialBacked, EndingHolds, ScansHold
<1>2. ASSUME NEW l \in Leaves, NEW kind \in Kinds, Deliver(l, kind) PROVE Backed'
  <2>1. UNCHANGED <<leave, pass, ending, scanning, taps>> /\ slips \subseteq slips'
    BY <1>2 DEF Deliver
  <2>. QED
    BY <2>1 DEF Backed, CredentialBacked, EndingHolds, ScansHold
<1>3. CASE Tick \/ StaffRefused \/ SeeReturn \/ SeeOverdue
  BY <1>1, <1>3 DEF Tick, StaffRefused, SeeReturn, SeeOverdue, KeepAllButStaff
<1>4. CASE \E l \in Leaves \cup {None} : ReadCheckout(l) \/ ReadReturn(l) \/ ReadOverdue(l)
  BY <1>1, <1>4 DEF ReadCheckout, ReadReturn, ReadOverdue, KeepAllButStaff
<1>5. ASSUME NEW l \in Leaves, Tap(l) \/ TapRefused(l) PROVE Backed'
  <2>1. UNCHANGED <<leave, pass, ending, slips, scanning>>
    BY <1>5 DEF Tap, TapRefused
  <2>2. \A m \in scanning : taps[m] > 0 => taps'[m] > 0
    BY <1>5 DEF Tap, TapRefused, TypeOK
  <2>. QED
    BY <2>1, <2>2 DEF Backed, CredentialBacked, EndingHolds, ScansHold
<1>6. ASSUME NEW l \in Leaves, TapExit(l) \/ TapReturn(l) PROVE Tap(l)
  BY <1>6 DEF TapExit, TapReturn
<1>7. CASE UNCHANGED vars
  BY <1>1, <1>7 DEF vars
<1>. QED
  BY <1>2, <1>3, <1>4, <1>5, <1>6, <1>7, BackedOfLeaves, BackedOfStaff, BackedOfEndings DEF Next

-----------------------------------------------------------------------------
LEMMA CallsKeep ==
  ASSUME TypeOK, CallsRead, [Next]_vars
  PROVE  CallsRead'
<1>. USE DEF TypeOK, StaffCalls
<1>1. ASSUME staff' = staff \/ staff' = NoCall PROVE CallsRead'
  <2>1. NoCall.op = "none" /\ NoCall.saw = ""
    BY DEF NoCall
  <2>2. CASE staff' = staff
    BY <2>2 DEF CallsRead
  <2>3. CASE staff' = NoCall
    BY <2>1, <2>3 DEF CallsRead
  <2>. QED
    BY <1>1, <2>2, <2>3
<1>2. ASSUME NEW l \in Leaves \cup {None}, ReadCheckout(l) \/ ReadReturn(l) \/ ReadOverdue(l)
      PROVE  CallsRead'
  <2>1. CASE ReadCheckout(l)
    <3>1. staff' = [op |-> "checkout", from |-> location, target |-> l, saw |-> ""]
          /\ location = "IN_HOSTEL"
      BY <2>1 DEF ReadCheckout, Call
    <3>. QED
      BY <3>1 DEF CallsRead
  <2>2. CASE ReadReturn(l)
    <3>1. staff'.op = "return" /\ staff'.target = l /\ (staff'.saw # "" => l \in OpenSessions)
      BY <2>2 DEF ReadReturn
    <3>. QED
      BY <3>1 DEF CallsRead, OpenSessions
  <2>3. CASE ReadOverdue(l)
    <3>1. staff' = [op |-> "overdue", from |-> location, target |-> l, saw |-> ""]
          /\ location # "IN_HOSTEL"
      BY <2>3 DEF ReadOverdue, Call
    <3>. QED
      BY <3>1 DEF CallsRead
  <2>. QED
    BY <1>2, <2>1, <2>2, <2>3
<1>3. CASE SeeReturn \/ SeeOverdue
  BY <1>3 DEF SeeReturn, SeeOverdue, CallsRead
<1>4. CASE \/ StaffRefused \/ ManualCheckout \/ ManualReturn \/ ManualReturnAlone \/ MarkOverdue
  BY <1>1, <1>4 DEF StaffRefused, ManualCheckout, ManualReturn, Returning, ManualReturnAlone,
     MarkOverdue
<1>5. CASE Tick \/ EndLeave \/ EndingRefused \/ UNCHANGED vars
  BY <1>1, <1>5 DEF Tick, EndLeave, EndingRefused, vars
<1>6. CASE \E l \in Leaves :
             \/ ApproveLeave(l) \/ ScanTooLate(l) \/ CleanupQr(l) \/ ReadExpiry(l)
             \/ ReadCancel(l) \/ CompleteLeave(l) \/ MarkOverdueLeave(l)
  BY <1>1, <1>6 DEF ApproveLeave, ScanTooLate, CleanupQr, ReadExpiry, ReadCancel, ReadEnding,
     CompleteLeave, MarkOverdueLeave
<1>7. CASE \E l \in Leaves :
             \/ TapExit(l) \/ TapReturn(l) \/ TapRefused(l) \/ ExitScan(l)
             \/ ReadReturnScan(l) \/ ReturnScan(l) \/ ReturnScanRefused(l)
  BY <1>1, <1>7 DEF TapExit, TapReturn, TapRefused, Tap, ExitScan, ReadReturnScan, ReturnScan,
     ReturnScanRefused, ReturnScanEnds, KeepAllButScanning
<1>8. CASE \E l \in Leaves, kind \in Kinds : Deliver(l, kind)
  BY <1>1, <1>8 DEF Deliver
<1>. QED
  BY <1>2, <1>3, <1>4, <1>5, <1>6, <1>7, <1>8 DEF Next

(* Approval is what issues the pass, and no leave is to be approved again. *)
LEMMA PendingKeeps ==
  ASSUME TypeOK, CallsRead, Backed, PendingUnissued, [Next]_vars
  PROVE  PendingUnissued'
<1>. USE DEF TypeOK, PendingUnissued
<1>1. ASSUME UNCHANGED <<leave, pass>> PROVE PendingUnissued'
  BY <1>1
<1>2. ASSUME NEW l \in Leaves, ApproveLeave(l) PROVE PendingUnissued'
  BY <1>2 DEF ApproveLeave
<1>3. ASSUME NEW l \in Leaves,
             \/ ScanTooLate(l) \/ CleanupQr(l) \/ CompleteLeave(l) \/ MarkOverdueLeave(l)
      PROVE  PendingUnissued'
  BY <1>3 DEF ScanTooLate, CleanupQr, CompleteLeave, MarkOverdueLeave
<1>4. ASSUME NEW l \in Leaves, ExitScan(l) \/ ReturnScan(l) PROVE PendingUnissued'
  BY <1>4 DEF ExitScan, ReturnScan, ReturnScanEnds, Backed, ScansHold, Usable
<1>5. CASE ManualCheckout \/ ManualReturn
  BY <1>5 DEF ManualCheckout, ManualReturn, Completed, Closed
<1>6. CASE EndLeave
  BY <1>6 DEF EndLeave, Backed, EndingHolds
<1>7. CASE MarkOverdue
  BY <1>7 DEF MarkOverdue
<1>8. CASE \/ Tick \/ EndingRefused \/ StaffRefused \/ SeeReturn \/ ManualReturnAlone
           \/ SeeOverdue \/ UNCHANGED vars
  BY <1>1, <1>8 DEF Tick, EndingRefused, StaffRefused, SeeReturn, ManualReturnAlone,
     SeeOverdue, KeepAllButStaff, vars
<1>9. CASE \E l \in Leaves :
             \/ TapExit(l) \/ TapReturn(l) \/ TapRefused(l) \/ ReadExpiry(l) \/ ReadCancel(l)
             \/ ReadReturnScan(l) \/ ReturnScanRefused(l)
  BY <1>1, <1>9 DEF TapExit, TapReturn, Tap, TapRefused, ReadExpiry, ReadCancel, ReadEnding,
     ReadReturnScan, ReturnScanRefused, KeepAllButScanning
<1>10. CASE \E l \in Leaves \cup {None} : ReadCheckout(l) \/ ReadReturn(l) \/ ReadOverdue(l)
  BY <1>1, <1>10 DEF ReadCheckout, ReadReturn, ReadOverdue, KeepAllButStaff
<1>11. CASE \E l \in Leaves, kind \in Kinds : Deliver(l, kind)
  BY <1>1, <1>11 DEF Deliver
<1>. QED
  BY <1>2, <1>3, <1>4, <1>5, <1>6, <1>7, <1>8, <1>9, <1>10, <1>11 DEF Next

LEMMA TapsKeep ==
  ASSUME TypeOK, TapsCounted, [Next]_vars
  PROVE  TapsCounted'
<1>. USE DEF TypeOK
<1>1. ASSUME UNCHANGED <<taps, returned>> PROVE TapsCounted'
  BY <1>1 DEF TapsCounted
<1>2. \A l \in Leaves : taps[l] \in 0..MaxTaps /\ returned[l] \in Nat
  OBVIOUS
<1>3. CASE Tick
  <2>1. taps' = taps /\ \A l \in Leaves : returned'[l] = 0 \/ returned'[l] = returned[l]
    BY <1>3 DEF Tick
  <2>. QED
    BY <1>2, <2>1 DEF TapsCounted
<1>4. ASSUME NEW l \in Leaves, TapExit(l) PROVE TapsCounted'
  BY <1>4 DEF TapExit, Tap, TapsCounted
<1>5. ASSUME NEW l \in Leaves, TapReturn(l) PROVE TapsCounted'
  <2>1. returned' = returned /\ taps[l] < MaxTaps /\ taps' = [taps EXCEPT ![l] = @ + 1]
        /\ (l \in Recurring => returned[l] < 2)
    BY <1>5 DEF TapReturn, Tap
  <2>2. ASSUME NEW m \in Recurring PROVE returned'[m] + taps'[m] <= 1 + MaxTaps
    BY <1>2, <2>1 DEF TapsCounted
  <2>. QED
    BY <2>2 DEF TapsCounted
<1>6. ASSUME NEW l \in Leaves, TapRefused(l) PROVE TapsCounted'
  BY <1>2, <1>6 DEF TapRefused, TapsCounted
<1>7. ASSUME NEW l \in Leaves, ExitScan(l) PROVE TapsCounted'
  BY <1>2, <1>7 DEF ExitScan, TapsCounted
<1>8. ASSUME NEW l \in Leaves, ReturnScan(l) PROVE TapsCounted'
  <2>1. taps' = [taps EXCEPT ![l] = @ - 1] /\ returned' = [returned EXCEPT ![l] = @ + 1]
    BY <1>8 DEF ReturnScan, ReturnScanEnds
  <2>. QED
    BY <1>2, <2>1 DEF TapsCounted
<1>9. CASE \/ EndLeave \/ EndingRefused \/ StaffRefused \/ ManualCheckout \/ SeeReturn
           \/ ManualReturn \/ ManualReturnAlone \/ SeeOverdue \/ MarkOverdue \/ UNCHANGED vars
  BY <1>1, <1>9 DEF EndLeave, EndingRefused, StaffRefused, ManualCheckout, SeeReturn,
     ManualReturn, Returning, ManualReturnAlone, SeeOverdue, MarkOverdue, KeepAllButStaff, vars
<1>10. CASE \E l \in Leaves :
             \/ ApproveLeave(l) \/ ScanTooLate(l) \/ CleanupQr(l) \/ ReadExpiry(l)
             \/ ReadCancel(l) \/ CompleteLeave(l) \/ MarkOverdueLeave(l)
  BY <1>1, <1>10 DEF ApproveLeave, ScanTooLate, CleanupQr, ReadExpiry, ReadCancel, ReadEnding,
     CompleteLeave, MarkOverdueLeave
<1>11. CASE \E l \in Leaves \cup {None} : ReadCheckout(l) \/ ReadReturn(l) \/ ReadOverdue(l)
  BY <1>1, <1>11 DEF ReadCheckout, ReadReturn, ReadOverdue, KeepAllButStaff
<1>12. CASE \E l \in Leaves, kind \in Kinds : Deliver(l, kind)
  BY <1>1, <1>12 DEF Deliver
<1>13. ASSUME NEW l \in Leaves, ReadReturnScan(l) \/ ReturnScanRefused(l) PROVE TapsCounted'
  BY <1>2, <1>13 DEF ReadReturnScan, ReturnScanRefused, ReturnScanEnds, KeepAllButScanning,
     TapsCounted
<1>. QED
  BY <1>3, <1>4, <1>5, <1>6, <1>7, <1>8, <1>9, <1>10, <1>11, <1>12, <1>13 DEF Next

LEMMA TypeKeeps ==
  ASSUME TypeOK, CallsRead, EndingHolds, ScansHold, [Next]_vars
  PROVE  TypeOK'
<1>. USE DEF TypeOK
<1>1. CASE Tick
  BY <1>1 DEF Tick
<1>2. CASE EndLeave
  <2>1. ending.leave \in Leaves /\ ending.to \in {"CANCELLED", "EXPIRED"}
    BY <1>2 DEF EndLeave, EndingHolds
  <2>2. leave' \in [Leaves -> LeaveStatuses] /\ pass' \in [Leaves -> PassStatuses]
        /\ events' \subseteq (Leaves \X Kinds)
    BY <1>2, <2>1 DEF EndLeave, LeaveStatuses, PassStatuses, Kinds
  <2>3. location' \in Locations /\ slips' \subseteq Slips
    BY <1>2 DEF EndLeave, Moves, Locations, Slips
  <2>. QED
    BY <1>2, <2>2, <2>3 DEF EndLeave, NoEnding
<1>3. CASE EndingRefused
  BY <1>3 DEF EndingRefused, NoEnding
<1>4. ASSUME NEW l \in Leaves, NEW kind \in Kinds, Deliver(l, kind) PROVE TypeOK'
  BY <1>4 DEF Deliver, Locations, OutStates, Slips
<1>5. ASSUME NEW l \in Leaves, TapExit(l) \/ TapReturn(l) \/ TapRefused(l) PROVE TypeOK'
  BY <1>5, TypeTap DEF TapExit, TapReturn
<1>6. CASE UNCHANGED vars
  BY <1>6 DEF vars
<1>. QED
  BY <1>1, <1>2, <1>3, <1>4, <1>5, <1>6, TypeScan, TypeLeave, TypeStaff DEF Next

-----------------------------------------------------------------------------
IInv ==
  /\ TypeOK /\ CallsRead /\ Backed /\ PendingUnissued /\ TapsCounted
  /\ SessionIsOut /\ OneSession

LEMMA InitIInv == Init => IInv
<1>1. SUFFICES ASSUME Init PROVE IInv
  OBVIOUS
<1>2. staff.op = "none" /\ staff.saw = "" /\ ending = NoEnding /\ scanning = {}
      /\ \A l \in Leaves : pass[l] = "ABSENT" /\ returned[l] = 0 /\ taps[l] = 0
  BY <1>1 DEF Init, NoCall
<1>3. CallsRead /\ TapsCounted
  <2>1. 0 + 0 <= 1 + MaxTaps
    OBVIOUS
  <2>2. TapsCounted
    BY <1>2, <2>1 DEF TapsCounted
  <2>. QED
    BY <1>2, <2>2 DEF CallsRead
<1>4. Backed
  BY <1>2 DEF Backed, CredentialBacked, EndingHolds, ScansHold
<1>5. SessionIsOut /\ OneSession
  BY <1>2 DEF SessionIsOut, OneSession, OpenSessions
<1>6. PendingUnissued
  BY <1>2 DEF PendingUnissued
<1>. QED
  BY <1>1, <1>3, <1>4, <1>5, <1>6, TypeInit DEF IInv

LEMMA NextKeeps == IInv /\ [Next]_vars => IInv'
<1>1. IInv => EndingHolds /\ ScansHold
  BY DEF IInv, Backed
<1>. QED
  BY <1>1, TypeKeeps, CallsKeep, BackedKeeps, PendingKeeps, TapsKeep, SessionsKeep DEF IInv

LEMMA Inductive == Spec => []IInv
BY InitIInv, NextKeeps, PTL DEF Spec

(* The student, the leaves, their passes and the calls keep their types.   *)
THEOREM TypeCorrect == Spec => []TypeOK
BY Inductive, PTL DEF IInv

(* Until a move that overlooks a session, an open one is of a student who  *)
(* is out of the hostel.                                                   *)
THEOREM SessionsAreOut == Spec => []SessionIsOut
BY Inductive, PTL DEF IInv

(* Until such a move the student has one open session at most.             *)
THEOREM SessionIsTheOnlyOne == Spec => []OneSession
BY Inductive, PTL DEF IInv

(* A pass that opens the gate belongs to a leave that can be completed,    *)
(* until a manual return overlooks the pass of a leave approved meanwhile. *)
THEOREM CredentialsAreBacked == Spec => []CredentialBacked
BY Inductive, PTL DEF IInv, Backed

(* The scans under way together are all that can go past the limit of a    *)
(* day.                                                                    *)
THEOREM ReturnsAreBounded == Spec => []DailyReturnsBounded
<1>1. ASSUME IInv PROVE DailyReturnsBounded
  <2>1. \A l \in Recurring : taps[l] \in Nat /\ returned[l] \in Nat
    BY <1>1 DEF IInv, TypeOK
  <2>. QED
    BY <1>1, <2>1 DEF IInv, TapsCounted, DailyReturnsBounded
<1>. QED
  BY <1>1, Inductive, PTL

(* Only the staff's overdue mark, when it read the leave before it ended,  *)
(* brings it to another status.                                            *)
THEOREM EndIsFinal == Spec => EndedStaysEnded
<1>. DEFINE Stays == \A l \in Leaves : Ended(leave[l]) /\ leave'[l] # leave[l] =>
                       staff.op = "overdue" /\ staff.target = l /\ staff.saw = "APPROVED"
<1>1. ASSUME IInv, [Next]_vars PROVE Stays
  <2>. USE <1>1 DEF IInv, TypeOK, Ended, Usable
  <2>1. CASE leave' = leave
    BY <2>1
  <2>2. ASSUME NEW l \in Leaves,
               ApproveLeave(l) \/ CompleteLeave(l) \/ MarkOverdueLeave(l) \/ ReturnScan(l)
        PROVE  Stays
    BY <2>2 DEF ApproveLeave, CompleteLeave, MarkOverdueLeave, ReturnScan, ReturnScanEnds,
       Backed, ScansHold
  <2>3. CASE EndLeave
    BY <2>3 DEF EndLeave, Backed, EndingHolds
  <2>4. CASE ManualReturn
    BY <2>4 DEF ManualReturn, Completed
  <2>5. CASE MarkOverdue
    BY <2>5 DEF MarkOverdue
  <2>6. CASE \E l \in Leaves :
               \/ TapExit(l) \/ TapReturn(l) \/ TapRefused(l) \/ ExitScan(l)
               \/ ScanTooLate(l) \/ CleanupQr(l) \/ ReadExpiry(l) \/ ReadCancel(l)
               \/ ReadReturnScan(l) \/ ReturnScanRefused(l)
    BY <2>1, <2>6 DEF TapExit, TapReturn, Tap, TapRefused, ExitScan, ScanTooLate, CleanupQr,
       ReadExpiry, ReadCancel, ReadEnding, ReadReturnScan, ReturnScanRefused, KeepAllButScanning
  <2>7. CASE \/ Tick \/ EndingRefused \/ StaffRefused \/ ManualCheckout \/ SeeReturn
             \/ ManualReturnAlone \/ SeeOverdue \/ UNCHANGED vars
             \/ \E l \in Leaves, kind \in Kinds : Deliver(l, kind)
    BY <2>1, <2>7 DEF Tick, EndingRefused, StaffRefused, ManualCheckout, SeeReturn,
       ManualReturnAlone, SeeOverdue, KeepAllButStaff, Deliver, vars
  <2>8. CASE \E l \in Leaves \cup {None} : ReadCheckout(l) \/ ReadReturn(l) \/ ReadOverdue(l)
    BY <2>1, <2>8 DEF ReadCheckout, ReadReturn, ReadOverdue, KeepAllButStaff
  <2>. QED
    BY <2>2, <2>3, <2>4, <2>5, <2>6, <2>7, <2>8 DEF Next
<1>2. IInv /\ [Next]_vars => [Stays]_vars
  BY <1>1
<1>. QED
  BY <1>2, Inductive, PTL DEF Spec, EndedStaysEnded

-----------------------------------------------------------------------------
(***************************************************************************)
(* The promise of StudentPresence.  A step moves the student, or not; the  *)
(* lemmas say what is left to show of it in terms of statuses and passes.  *)
(***************************************************************************)
SameLive == \A m \in Leaves : Usable(leave'[m]) <=> Usable(leave[m])
OneEnds(l) ==
  /\ Usable(leave[l]) /\ ~Usable(leave'[l])
  /\ \A m \in Leaves \ {l} : Usable(leave'[m]) <=> Usable(leave[m])
  /\ pass'[l] = "OPEN" => "overlookedPass" \in slips'
SameSessions == \A m \in Leaves : pass'[m] = "OPEN" <=> pass[m] = "OPEN"
NoneOpens == \A m \in Leaves : pass'[m] = "OPEN" => pass[m] = "OPEN"
SamePlace == location' = "IN_HOSTEL" <=> location = "IN_HOSTEL"

LEMMA LiveStays ==
  ASSUME SameLive
  PROVE  LiveLeaves' = LiveLeaves
BY DEF SameLive, LiveLeaves

LEMMA SessionsStay ==
  ASSUME SameSessions
  PROVE  OpenSessions' = OpenSessions
BY DEF SameSessions, OpenSessions

LEMMA SessionsShrink ==
  ASSUME NoneOpens
  PROVE  OpenSessions' \subseteq OpenSessions
BY DEF NoneOpens, OpenSessions

LEMMA LeaveEnds ==
  ASSUME NEW l \in Leaves, OneEnds(l)
  PROVE  Presence!End(l)
<1>1. l \in LiveLeaves /\ LiveLeaves' = LiveLeaves \ {l}
  BY DEF OneEnds, LiveLeaves
<1>2. l \in OpenSessions' => "overlookedPass" \in slips'
  BY DEF OneEnds, OpenSessions
<1>. QED
  BY <1>1, <1>2 DEF Presence!End, Presence!Overlooked

LEMMA StaysPut ==
  ASSUME SamePlace, SameLive, SameSessions, slips' = slips
  PROVE  UNCHANGED Presence!vars
<1>1. (location' = "IN_HOSTEL") = (location = "IN_HOSTEL")
  BY DEF SamePlace
<1>. QED
  BY <1>1, LiveStays, SessionsStay DEF Presence!vars

LEMMA ComesIn ==
  ASSUME location' = "IN_HOSTEL", NoneOpens, SameLive \/ \E l \in Leaves : OneEnds(l),
         slips \subseteq slips', OpenSessions' = {} \/ Astray'
  PROVE  Presence!Next
<1>1. UNCHANGED LiveLeaves \/ \E l \in Leaves : Presence!End(l)
  BY LiveStays, LeaveEnds
<1>2. Presence!ComeIn
  BY <1>1, SessionsShrink DEF Presence!ComeIn, Presence!Lost, Astray
<1>. QED
  BY <1>2 DEF Presence!Next

LEMMA EndsElsewhere ==
  ASSUME SamePlace, NoneOpens, slips' = slips, NEW l \in Leaves, OneEnds(l)
  PROVE  Presence!Next
<1>1. (location' = "IN_HOSTEL") = (location = "IN_HOSTEL")
  BY DEF SamePlace
<1>2. Presence!EndElsewhere(l)
  BY <1>1, LeaveEnds, SessionsShrink DEF Presence!EndElsewhere
<1>. QED
  BY <1>2 DEF Presence!Next

(* A session opens of the leave l, whose pass was not yet in use.          *)
LEMMA GoesOut ==
  ASSUME SessionIsOut, location = "IN_HOSTEL", location' # "IN_HOSTEL",
         slips' = slips, leave' = leave,
         SameSessions \/ \E l \in Leaves :
           /\ Usable(leave[l]) \/ "overlookedPass" \in slips
           /\ pass'[l] = "OPEN" /\ \A m \in Leaves \ {l} : pass'[m] = pass[m]
  PROVE  Presence!Next
<1>1. OpenSessions = {} \/ Presence!Lost
  BY DEF SessionIsOut, Astray, Presence!Lost
<1>2. LiveLeaves' = LiveLeaves
  BY DEF LiveLeaves
<1>3. OpenSessions' = OpenSessions
      \/ \E l \in Leaves : /\ l \in LiveLeaves \/ Presence!Overlooked
                           /\ OpenSessions' = OpenSessions \cup {l}
  <2>1. ASSUME NEW l \in Leaves, Usable(leave[l]) \/ "overlookedPass" \in slips,
               pass'[l] = "OPEN", \A m \in Leaves \ {l} : pass'[m] = pass[m]
        PROVE  /\ l \in LiveLeaves \/ Presence!Overlooked
               /\ OpenSessions' = OpenSessions \cup {l}
    BY <2>1 DEF LiveLeaves, OpenSessions, Presence!Overlooked
  <2>. QED
    BY <2>1, SessionsStay
<1>4. Presence!GoOut
  BY <1>1, <1>2, <1>3 DEF Presence!GoOut
<1>. QED
  BY <1>4 DEF Presence!Next

(* A leave becomes live: the student stays where he is or, with a pass for *)
(* the return only, is out from then on.                                   *)
LEMMA LeaveBegins ==
  ASSUME SessionIsOut, SameSessions, slips' = slips, NEW l \in Leaves,
         ~Usable(leave[l]), Usable(leave'[l]),
         \A m \in Leaves \ {l} : leave'[m] = leave[m],
         SamePlace \/ (location = "IN_HOSTEL" /\ location' # "IN_HOSTEL")
  PROVE  Presence!Next
<1>1. Presence!Admit(l)
  BY DEF LiveLeaves, Presence!Admit
<1>2. CASE SamePlace
  <2>1. (location' = "IN_HOSTEL") = (location = "IN_HOSTEL")
    BY <1>2 DEF SamePlace
  <2>2. Presence!Approve(l)
    BY <1>1, <2>1, SessionsStay DEF Presence!Approve
  <2>. QED
    BY <2>2 DEF Presence!Next
<1>3. CASE location = "IN_HOSTEL" /\ location' # "IN_HOSTEL"
  <2>1. OpenSessions = {} \/ Presence!Lost
    BY <1>3 DEF SessionIsOut, Astray, Presence!Lost
  <2>2. Presence!GoOut
    BY <1>1, <1>3, <2>1, SessionsStay DEF Presence!GoOut
  <2>. QED
    BY <2>2 DEF Presence!Next
<1>. QED
  BY <1>2, <1>3

(* What a step of the gate is to StudentPresence.                          *)
Promised == Presence!Next \/ UNCHANGED Presence!vars

LEMMA PresenceOfLeaves ==
  ASSUME IInv, NEW l \in Leaves,
         \/ ApproveLeave(l) \/ ScanTooLate(l) \/ CleanupQr(l) \/ ReadExpiry(l)
         \/ ReadCancel(l) \/ CompleteLeave(l) \/ MarkOverdueLeave(l)
         \/ Tap(l) \/ TapRefused(l)
  PROVE  Promised
<1>. USE DEF IInv, TypeOK, Promised
<1>1. CASE ApproveLeave(l)
  <2>1. SameSessions
    BY <1>1 DEF ApproveLeave, SameSessions, PendingUnissued
  <2>2. SamePlace \/ (location = "IN_HOSTEL" /\ location' # "IN_HOSTEL")
    BY <1>1 DEF ApproveLeave, SamePlace
  <2>. QED
    BY <1>1, <2>1, <2>2, LeaveBegins DEF ApproveLeave, Usable
<1>2. CASE ScanTooLate(l) \/ CleanupQr(l)
  BY <1>2, StaysPut DEF ScanTooLate, CleanupQr, SamePlace, SameLive, SameSessions
<1>3. CASE ReadExpiry(l) \/ ReadCancel(l) \/ Tap(l) \/ TapRefused(l)
  BY <1>3, StaysPut DEF ReadExpiry, ReadCancel, ReadEnding, Tap, TapRefused,
     SamePlace, SameLive, SameSessions
<1>4. CASE CompleteLeave(l)
  <2>1. OneEnds(l) /\ NoneOpens
    BY <1>4 DEF CompleteLeave, OneEnds, NoneOpens, Usable
  <2>. QED
    BY <1>4, <2>1, EndsElsewhere DEF CompleteLeave, SamePlace
<1>5. CASE MarkOverdueLeave(l)
  <2>1. SameLive /\ SamePlace /\ SameSessions
    BY <1>5 DEF MarkOverdueLeave, SameLive, SamePlace, SameSessions, Usable
  <2>. QED
    BY <1>5, <2>1, StaysPut DEF MarkOverdueLeave
<1>. QED
  BY <1>1, <1>2, <1>3, <1>4, <1>5

LEMMA PresenceOfScans ==
  ASSUME IInv, NEW l \in Leaves,
         ExitScan(l) \/ ReadReturnScan(l) \/ ReturnScan(l) \/ ReturnScanRefused(l)
  PROVE  Promised
<1>. USE DEF IInv, TypeOK, Promised
<1>1. CASE ExitScan(l)
  <2>1. leave' = leave /\ slips' = slips /\ Usable(leave[l])
        /\ location = "IN_HOSTEL" /\ location' = "OUTSIDE_HOSTEL"
        /\ pass'[l] = "OPEN" /\ \A m \in Leaves \ {l} : pass'[m] = pass[m]
    BY <1>1 DEF ExitScan, Moves
  <2>. QED
    BY <2>1, GoesOut
<1>2. CASE ReturnScan(l)
  <2>1. location' = "IN_HOSTEL" /\ Usable(leave[l])
    BY <1>2 DEF ReturnScan, ReturnScanEnds, Moves, Backed, ScansHold
  <2>2. pass'[l] # "OPEN"
        /\ \A m \in Leaves \ {l} : pass'[m] = pass[m] /\ leave'[m] = leave[m]
    BY <1>2 DEF ReturnScan
  <2>3. NoneOpens /\ OpenSessions' = OpenSessions \ {l}
    BY <2>2 DEF NoneOpens, OpenSessions
  <2>4. slips \subseteq slips' /\ (OpenSessions \subseteq {l} \/ "crossedReturn" \in slips')
    BY <1>2 DEF ReturnScan
  <2>5. leave'[l] = leave[l] \/ leave'[l] = "COMPLETED"
    BY <1>2 DEF ReturnScan
  <2>6. SameLive \/ OneEnds(l)
    BY <2>1, <2>2, <2>5 DEF SameLive, OneEnds, Usable
  <2>7. OpenSessions' = {} \/ Astray'
    BY <2>3, <2>4 DEF Astray
  <2>. QED
    BY <2>1, <2>3, <2>4, <2>6, <2>7, ComesIn
<1>3. CASE ReadReturnScan(l) \/ ReturnScanRefused(l)
  BY <1>3, StaysPut DEF ReadReturnScan, ReturnScanRefused, KeepAllButScanning,
     SamePlace, SameLive, SameSessions
<1>. QED
  BY <1>1, <1>2, <1>3

LEMMA PresenceOfStaff ==
  ASSUME IInv, ManualCheckout \/ ManualReturn \/ ManualReturnAlone \/ MarkOverdue
  PROVE  Promised
<1>. USE DEF IInv, TypeOK, Promised
<1>1. CASE ManualCheckout
  <2>1. leave' = leave /\ slips' = slips
        /\ location = "IN_HOSTEL" /\ location' # "IN_HOSTEL"
    BY <1>1 DEF ManualCheckout, Moves, CallsRead
  <2>2. \A m \in Leaves : pass'[m] =
          IF m = staff.target /\ pass[m] = "ACTIVE" THEN "OPEN" ELSE pass[m]
    BY <1>1 DEF ManualCheckout
  <2>3. ASSUME NEW l \in Leaves, l = staff.target, pass[l] = "ACTIVE" PROVE Promised
    <3>1. Usable(leave[l]) \/ "overlookedPass" \in slips
      BY <2>3 DEF Backed, CredentialBacked
    <3>2. pass'[l] = "OPEN" /\ \A m \in Leaves \ {l} : pass'[m] = pass[m]
      BY <2>2, <2>3
    <3>. QED
      BY <2>1, <3>1, <3>2, GoesOut
  <2>4. CASE ~\E l \in Leaves : l = staff.target /\ pass[l] = "ACTIVE"
    <3>1. SameSessions
      BY <2>2, <2>4 DEF SameSessions
    <3>. QED
      BY <2>1, <3>1, GoesOut
  <2>. QED
    BY <2>3, <2>4
<1>2. CASE ManualReturn
  <2>. DEFINE l == staff.target
  <2>1. l \in Leaves /\ location' = "IN_HOSTEL" /\ slips \subseteq slips'
    BY <1>2 DEF ManualReturn, Returning, Moves, CallsRead
  <2>2. NoneOpens
    BY <1>2 DEF ManualReturn, Closed, NoneOpens
  <2>3. OpenSessions' = {} \/ Astray'
    BY <1>2 DEF ManualReturn, LeftBehind, OpenSessions, Astray
  <2>4. \A m \in Leaves \ {l} : leave'[m] = leave[m]
    BY <1>2 DEF ManualReturn, Completed
  <2>5. CASE Usable(leave[l])
    <3>1. ~Usable(leave'[l])
      BY <1>2, <2>1, <2>5 DEF ManualReturn, Completed, Usable
    <3>2. pass'[l] = "OPEN" => "overlookedPass" \in slips'
      BY <1>2, <2>5 DEF ManualReturn, LeftBehind
    <3>3. OneEnds(l)
      BY <2>4, <2>5, <3>1, <3>2 DEF OneEnds
    <3>. HIDE DEF l
    <3>. QED
      BY <2>1, <2>2, <2>3, <3>3, ComesIn
  <2>6. CASE ~Usable(leave[l])
    <3>1. leave'[l] = leave[l]
      BY <1>2, <2>1, <2>6 DEF ManualReturn, Completed
    <3>2. SameLive
      BY <2>4, <3>1 DEF SameLive
    <3>. HIDE DEF l
    <3>. QED
      BY <2>1, <2>2, <2>3, <3>2, ComesIn
  <2>. QED
    BY <2>5, <2>6
<1>3. CASE ManualReturnAlone
  <2>1. location' = "IN_HOSTEL" /\ leave' = leave /\ pass' = pass /\ slips \subseteq slips'
        /\ (OpenSessions = {} \/ "crossedReturn" \in slips')
    BY <1>3 DEF ManualReturnAlone, Moves
  <2>2. SameLive /\ NoneOpens /\ OpenSessions' = OpenSessions
    BY <2>1 DEF SameLive, NoneOpens, OpenSessions
  <2>3. OpenSessions' = {} \/ Astray'
    BY <2>1, <2>2 DEF Astray
  <2>. QED
    BY <2>1, <2>2, <2>3, ComesIn
<1>4. CASE MarkOverdue
  <2>1. pass' = pass /\ slips' = slips /\ SamePlace
    BY <1>4 DEF MarkOverdue, Moves, SamePlace, CallsRead
  <2>2. SameSessions
    BY <2>1 DEF SameSessions
  <2>3. CASE leave' = leave
    BY <2>1, <2>2, <2>3, StaysPut DEF SameLive
  <2>4. CASE leave' # leave
    <3>. DEFINE l == staff.target
    <3>1. l \in Leaves /\ Usable(leave'[l]) /\ \A m \in Leaves \ {l} : leave'[m] = leave[m]
      BY <1>4, <2>4 DEF MarkOverdue, CallsRead, Usable
    <3>. HIDE DEF l
    <3>2. CASE Usable(leave[l])
      BY <2>1, <2>2, <3>1, <3>2, StaysPut DEF SameLive
    <3>3. CASE ~Usable(leave[l])
      BY <2>1, <2>2, <3>1, <3>3, LeaveBegins
    <3>. QED
      BY <3>2, <3>3
  <2>. QED
    BY <2>3, <2>4
<1>. QED
  BY <1>1, <1>2, <1>3, <1>4

LEMMA PresenceOfEndings ==
  ASSUME IInv, EndLeave
  PROVE  Promised
<1>. USE DEF IInv, TypeOK, Promised
<1>. DEFINE l == ending.leave
<1>1. l \in Leaves /\ leave[l] \in {"PENDING", "APPROVED"}
      /\ pass[l] # "OPEN"
  BY DEF EndLeave, Backed, EndingHolds
<1>2. ~Usable(leave'[l]) /\ \A m \in Leaves \ {l} : leave'[m] = leave[m] /\ pass'[m] = pass[m]
  BY <1>1 DEF EndLeave, Usable
<1>3. pass'[l] = "OPEN" <=> pass[l] = "OPEN"
  BY <1>1 DEF EndLeave
<1>4. SameSessions /\ NoneOpens /\ OpenSessions' = OpenSessions
  BY <1>1, <1>2, <1>3 DEF SameSessions, NoneOpens, OpenSessions
<1>5. CASE leave[l] = "PENDING"
  <2>1. SameLive
    BY <1>2, <1>5 DEF SameLive, Usable
  <2>2. SamePlace /\ slips' = slips
    BY <1>5 DEF EndLeave, SamePlace
  <2>. QED
    BY <1>4, <2>1, <2>2, StaysPut
<1>6. CASE leave[l] = "APPROVED"
  <2>1. OneEnds(l)
    BY <1>1, <1>2, <1>3, <1>6 DEF OneEnds, Usable
  <2>2. \/ location' = location /\ slips' = slips
        \/ /\ location' = "IN_HOSTEL"
           /\ slips' = IF OpenSessions # {} THEN slips \cup {"blindMove"} ELSE slips
    BY DEF EndLeave, Moves
  <2>. HIDE DEF l
  <2>3. CASE location' = location /\ slips' = slips
    BY <1>1, <1>4, <2>1, <2>3, EndsElsewhere DEF SamePlace
  <2>4. CASE /\ location' = "IN_HOSTEL"
             /\ slips' = IF OpenSessions # {} THEN slips \cup {"blindMove"} ELSE slips
    <3>1. slips \subseteq slips' /\ (OpenSessions' = {} \/ Astray')
      BY <1>4, <2>4 DEF Astray
    <3>. QED
      BY <1>1, <1>4, <2>1, <2>4, <3>1, ComesIn
  <2>. QED
    BY <2>2, <2>3, <2>4
<1>. QED
  BY <1>1, <1>5, <1>6

LEMMA PresenceStep ==
  ASSUME IInv, [Next]_vars
  PROVE  Promised
<1>1. ASSUME NEW l \in Leaves, NEW kind \in Kinds, Deliver(l, kind) PROVE Promised
  <2>1. pass' = pass /\ leave' = leave
    BY <1>1 DEF Deliver
  <2>2. SameLive /\ SameSessions /\ NoneOpens /\ OpenSessions' = OpenSessions
    BY <2>1 DEF SameLive, SameSessions, NoneOpens, OpenSessions
  <2>3. CASE kind = "OVERDUE"
    BY <1>1, <2>2, <2>3, StaysPut DEF Deliver, SamePlace, Promised
  <2>4. CASE kind # "OVERDUE"
    <3>1. location' = "IN_HOSTEL"
          /\ slips' = (IF OpenSessions # {} THEN slips \cup {"blindMove"} ELSE slips)
      BY <1>1, <2>4 DEF Deliver
    <3>2. slips \subseteq slips' /\ (OpenSessions' = {} \/ Astray')
      BY <2>2, <3>1 DEF Astray
    <3>. QED
      BY <2>2, <3>1, <3>2, ComesIn DEF Promised
  <2>. QED
    BY <2>3, <2>4
<1>2. ASSUME UNCHANGED <<leave, pass, location, slips>> PROVE Promised
  BY <1>2, StaysPut DEF SamePlace, SameLive, SameSessions, Promised
<1>3. CASE \/ Tick \/ EndingRefused \/ StaffRefused \/ SeeReturn \/ SeeOverdue \/ UNCHANGED vars
           \/ \E l \in Leaves \cup {None} : ReadCheckout(l) \/ ReadReturn(l) \/ ReadOverdue(l)
  BY <1>2, <1>3 DEF Tick, EndingRefused, StaffRefused, SeeReturn, SeeOverdue, KeepAllButStaff,
     ReadCheckout, ReadReturn, ReadOverdue, vars
<1>4. ASSUME NEW l \in Leaves, TapExit(l) \/ TapReturn(l) PROVE Tap(l)
  BY <1>4 DEF TapExit, TapReturn
<1>. QED
  BY <1>1, <1>3, <1>4, PresenceOfLeaves, PresenceOfScans, PresenceOfStaff, PresenceOfEndings
  DEF Next

(* For any leaves, days and numbers of scans, over every interleaving of   *)
(* scans, staff, jobs and late events, the gate keeps what StudentPresence *)
(* promises.                                                               *)
THEOREM GateKeepsPresence == Spec => RefinesPresence
<1>1. Init => Presence!Init
  BY DEF Init, Presence!Init, LiveLeaves, OpenSessions, Usable
<1>2. IInv /\ [Next]_vars => [Presence!Next]_Presence!vars
  BY PresenceStep DEF Promised
<1>. QED
  BY <1>1, <1>2, Inductive, PTL DEF Spec, RefinesPresence, Presence!Spec

(* So that the hostel can account for the student by the promise alone: in *)
(* and without a session, or out on one leave at most, that can still be   *)
(* completed; the races the promise names are the only exceptions.         *)
THEOREM StudentIsAccountedFor == Spec => []Presence!Accounted
<1>. USE DEF Presence!Accounted, Presence!Lost, Presence!Overlooked
<1>1. Presence!Init => Presence!Accounted
  BY DEF Presence!Init
<1>2. ASSUME Presence!Accounted, Presence!Next PROVE Presence!Accounted'
  <2>1. CASE Presence!GoOut
    BY <1>2, <2>1 DEF Presence!GoOut, Presence!Admit, OpenSessions
  <2>2. CASE Presence!ComeIn
    BY <1>2, <2>2 DEF Presence!ComeIn, Presence!End
  <2>3. CASE \E l \in Leaves : Presence!Approve(l)
    BY <1>2, <2>3 DEF Presence!Approve, Presence!Admit
  <2>4. CASE \E l \in Leaves : Presence!EndElsewhere(l)
    BY <1>2, <2>4 DEF Presence!EndElsewhere, Presence!End
  <2>. QED
    BY <1>2, <2>1, <2>2, <2>3, <2>4 DEF Presence!Next
<1>3. Presence!Accounted /\ UNCHANGED Presence!vars => Presence!Accounted'
  BY DEF Presence!vars
<1>4. Presence!Spec => []Presence!Accounted
  BY <1>1, <1>2, <1>3, PTL DEF Presence!Spec
<1>. QED
  BY <1>4, GateKeepsPresence, PTL DEF RefinesPresence

=================================================================================
