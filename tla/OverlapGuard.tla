------------------------------ MODULE OverlapGuard ------------------------------
(***************************************************************************)
(* The guard that keeps a student's leaves of one type apart, and every    *)
(* transaction that gives a leave dates or brings one back to life.  A     *)
(* transaction looks at what is committed when it asks.  Creations of one  *)
(* student wait for each other at the student's row; an extension locks    *)
(* its own leave and asks nobody else to wait.  An overdue leave is like   *)
(* an approved one here.                                                   *)
(***************************************************************************)
EXTENDS Naturals

CONSTANTS
  Leaves,  \* the leaves of one student
  Types,
  None,
  LastDay

ASSUME OverlapAssumption == None \notin Leaves /\ LastDay \in Nat \ {0}

VARIABLES
  leave,     \* each leave: status, type and days
  extension, \* the end that a pending extension of each leave asks for (0: none)
  creating,  \* the creation that holds the student's row, past its check
  widening,  \* leaves whose extension is past its check
  unseen     \* pairs of leaves of which neither looked at the other

vars == <<leave, extension, creating, widening, unseen>>

Days == 1..LastDay
Rows == [status : {"absent", "creating", "pending", "approved", "rejected", "ended"},
         type : Types, from : Days, to : Days]
Pairs == {{a, b} : a \in Leaves, b \in Leaves}

Init ==
  /\ leave \in {[l \in Leaves |-> [status |-> "absent", type |-> t, from |-> 1, to |-> 1]]
                 : t \in Types}
  /\ extension = [l \in Leaves |-> 0]
  /\ creating = None /\ widening = {} /\ unseen = {}

Live(l) == leave[l].status \in {"pending", "approved"}

Meets(l, from, to) == leave[l].to >= from /\ leave[l].from <= to

\* assertNoConflictingOverlap for a leave of type t
Clear(l, t, from, to) ==
  \A k \in Leaves \ {l} : Live(k) /\ leave[k].type = t => ~ Meets(k, from, to)

\* The committed rows are what a check sees; the rest is unseen, and what was
\* unseen before and is committed now is seen.
Look(l, hidden) ==
  unseen' = {p \in unseen : l \notin p} \cup {{l, k} : k \in hidden \ {l}}

\* Slip: creations do not lock the student's row.
CreateUnlocked(l) ==
  \E t \in Types, from, to \in Days :
    /\ leave[l].status = "absent" /\ from <= to
    /\ Clear(l, t, from, to)
    /\ leave' = [leave EXCEPT ![l] = [status |-> "creating", type |-> t, from |-> from, to |-> to]]
    /\ creating' = l /\ Look(l, widening)
    /\ UNCHANGED <<extension, widening>>

\* createLeave up to its check
Create(l) ==
  \E t \in Types, from, to \in Days :
    /\ creating = None /\ leave[l].status = "absent" /\ from <= to
    /\ Clear(l, t, from, to)
    /\ leave' = [leave EXCEPT ![l] = [status |-> "creating", type |-> t, from |-> from, to |-> to]]
    /\ creating' = l /\ Look(l, widening)
    /\ UNCHANGED <<extension, widening>>

CommitCreation(l) ==
  /\ leave[l].status = "creating"
  /\ leave' = [leave EXCEPT ![l].status = "pending"] /\ creating' = None
  /\ UNCHANGED <<extension, widening, unseen>>

AbortCreation(l) ==
  /\ leave[l].status = "creating"
  /\ leave' = [leave EXCEPT ![l].status = "absent"] /\ creating' = None
  /\ unseen' = {p \in unseen : l \notin p}
  /\ UNCHANGED <<extension, widening>>

\* A decision, a cancellation, a completion or an expiry: the leave's row is
\* locked by an extension that is past its check.
Decide(l, to) ==
  /\ l \notin widening /\ Live(l)
  /\ to \in IF leave[l].status = "pending" THEN {"approved", "rejected", "ended"} ELSE {"ended"}
  /\ leave' = [leave EXCEPT ![l].status = to]
  /\ UNCHANGED <<extension, creating, widening, unseen>>

\* superadminOverrideLeave of a rejected leave
Recover(l) ==
  /\ leave[l].status = "rejected"
  /\ \E s \in {"pending", "approved"} : leave' = [leave EXCEPT ![l].status = s]
  /\ unseen' = unseen \cup {{l, k} : k \in {k \in Leaves \ {l} : leave[k].status # "absent"}}
  /\ UNCHANGED <<extension, creating, widening>>

\* createExtension: the dates are looked at when it is approved.
RequestExtension(l, to) ==
  /\ leave[l].status = "approved" /\ l \notin widening /\ extension[l] = 0 /\ to > leave[l].to
  /\ extension' = [extension EXCEPT ![l] = to]
  /\ UNCHANGED <<leave, creating, widening, unseen>>

\* approveExtension up to its check
Widen(l) ==
  /\ extension[l] > 0 /\ leave[l].status = "approved" /\ l \notin widening
  /\ Clear(l, leave[l].type, leave[l].from, extension[l])
  /\ widening' = widening \cup {l}
  /\ Look(l, (widening \cup {creating}) \ {None})
  /\ UNCHANGED <<leave, extension, creating>>

CommitWidening(l) ==
  /\ l \in widening
  /\ leave' = [leave EXCEPT ![l].to = extension[l]]
  /\ extension' = [extension EXCEPT ![l] = 0]
  /\ widening' = widening \ {l}
  /\ UNCHANGED <<creating, unseen>>

\* handleExtensionDecision, the parent's approval as the last step: the end is
\* moved and no other leave is looked at.
WidenByParent(l) ==
  /\ extension[l] > 0 /\ leave[l].status = "approved" /\ l \notin widening
  /\ leave' = [leave EXCEPT ![l].to = extension[l]]
  /\ extension' = [extension EXCEPT ![l] = 0]
  /\ unseen' = unseen \cup {{l, k} : k \in {k \in Leaves \ {l} : Live(k) \/ creating = k}}
  /\ UNCHANGED <<creating, widening>>

RejectExtension(l) ==
  /\ extension[l] > 0 /\ l \notin widening
  /\ extension' = [extension EXCEPT ![l] = 0]
  /\ UNCHANGED <<leave, creating, widening, unseen>>

Next == \E l \in Leaves :
  \/ Create(l) \/ CommitCreation(l) \/ AbortCreation(l)
  \/ Recover(l) \/ Widen(l) \/ CommitWidening(l) \/ WidenByParent(l) \/ RejectExtension(l)
  \/ \E s \in {"approved", "rejected", "ended"} : Decide(l, s)
  \/ \E d \in Days : RequestExtension(l, d)

Spec == Init /\ [][Next]_vars

-----------------------------------------------------------------------------
TypeOK ==
  /\ leave \in [Leaves -> Rows]
  /\ extension \in [Leaves -> 0..LastDay]
  /\ creating \in Leaves \cup {None}
  /\ creating # None => leave[creating].status = "creating"
  /\ widening \subseteq Leaves /\ unseen \subseteq Pairs

Overlap(a, b) ==
  /\ Live(a) /\ Live(b) /\ leave[a].type = leave[b].type
  /\ Meets(a, leave[b].from, leave[b].to)

\* Two leaves of one type overlap only if an administrator recovered one of
\* them, if the last approval an extension of one needed was the parent's, or
\* if it was approved while the other was being created or extended: any other
\* order of transactions, and any number of creations at once, keeps them apart.
OverlapIsUnseen ==
  \A a, b \in Leaves : a # b /\ Overlap(a, b) => {a, b} \in unseen
=================================================================================
