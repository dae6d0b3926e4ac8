---------------------------- MODULE EventDelivery ----------------------------
(***************************************************************************)
(* What the outbox promises its publishers, without workers, claims or     *)
(* retries: an event is queued once, is settled once, is never dropped     *)
(* unsettled, and counts as delivered only after it has been sent.         *)
(* Delivery is at least once, and sending may still happen after settling. *)
(***************************************************************************)
CONSTANT Events

VARIABLES state, sent

States == {"absent", "queued", "delivered", "dead", "withdrawn", "gone"}

Init ==
  /\ state \in [Events -> {"absent", "queued"}]
  /\ sent = [e \in Events |-> FALSE]

Move(S, from, to) ==
  /\ S # {} /\ \A e \in S : state[e] \in from
  /\ state' = [e \in Events |-> IF e \in S THEN to ELSE state[e]]
  /\ UNCHANGED sent

Enqueue(e) == Move({e}, {"absent"}, "queued")
Deliver(e) == sent[e] /\ Move({e}, {"queued"}, "delivered")
Bury(S) == Move(S, {"queued"}, "dead")
Withdraw(S) == Move(S, {"queued"}, "withdrawn")
Purge(S) == Move(S, {"delivered", "withdrawn"}, "gone")

Send(e) ==
  /\ state[e] # "absent"
  /\ sent' = [sent EXCEPT ![e] = TRUE]
  /\ UNCHANGED state

Next ==
  \/ \E e \in Events : Enqueue(e) \/ Send(e) \/ Deliver(e)
  \/ \E S \in SUBSET Events : Bury(S) \/ Withdraw(S) \/ Purge(S)

Spec == Init /\ [][Next]_<<state, sent>>
=============================================================================
