----------------------------- MODULE StudentPresence -----------------------------
(***************************************************************************)
(* What the gate promises the hostel about one student: whether he is in,  *)
(* which of his leaves are live and which he is out on, without the days,  *)
(* the passes, the locks and the reads that lie behind it.  What races of  *)
(* the code are allowed to break is part of the promise.                   *)
(***************************************************************************)
CONSTANT Leaves

VARIABLES
  inside,    \* the student is in the hostel
  live,      \* leaves that may be completed
  sessions,  \* leaves he has left on and not returned from
  slips      \* races that have happened
vars == <<inside, live, sessions, slips>>

\* He was brought in past an open session.
Lost == slips \cap {"blindMove", "crossedReturn"} # {}
\* A leave has ended and left its pass behind.
Overlooked == "overlookedPass" \in slips

Init == inside = TRUE /\ live = {} /\ sessions = {} /\ slips = {}

Admit(l) == l \notin live /\ live' = live \cup {l}

\* A leave takes its session with it.
End(l) == l \in live /\ live' = live \ {l} /\ (l \in sessions' => Overlooked')

Approve(l) == Admit(l) /\ UNCHANGED <<inside, sessions, slips>>

\* From inside only, with no session open; the one that opens is of a live
\* leave.
GoOut ==
  /\ inside /\ ~inside' /\ (sessions = {} \/ Lost) /\ UNCHANGED slips
  /\ \/ \E l \in Leaves : /\ l \in live \/ Overlooked
                          /\ sessions' = sessions \cup {l} /\ UNCHANGED live
     \/ UNCHANGED sessions /\ (UNCHANGED live \/ \E l \in Leaves : Admit(l))

\* With the session; who leaves one open has moved the student past it.
ComeIn ==
  /\ inside' /\ sessions' \subseteq sessions
  /\ UNCHANGED live \/ \E l \in Leaves : End(l)
  /\ slips \subseteq slips' /\ (sessions' = {} \/ Lost')

\* The leave ends without him.
EndElsewhere(l) ==
  /\ End(l) /\ sessions' \subseteq sessions
  /\ UNCHANGED <<inside, slips>>

Next == GoOut \/ ComeIn \/ \E l \in Leaves : Approve(l) \/ EndElsewhere(l)

Spec == Init /\ [][Next]_vars

-----------------------------------------------------------------------------
\* What follows for the hostel: a student who is in has no session and one who
\* is out has one at most, and the leave of a session can be completed.
Accounted ==
  /\ Lost \/ sessions = {} \/ (~inside /\ \E l \in Leaves : sessions = {l})
  /\ Overlooked \/ sessions \subseteq live
=================================================================================
