-------------------------- MODULE NotificationDelivery --------------------------
(***************************************************************************)
(* How a worker delivers the notifications of one event of the outbox: the *)
(* sends that the rules ask for, one after another, each behind a look at  *)
(* the log of what was sent and followed by a row of that log, and then    *)
(* the handler's own work on the student's location.  The claims and       *)
(* retries of Outbox are here as far as they decide who delivers what      *)
(* again: a worker whose lease has lapsed goes on, and only reports in     *)
(* vain.                                                                   *)
(*                                                                         *)
(* A PARENT_APPROVAL_REQUESTED is sent with the link (ParentLinks); no     *)
(* code publishes one as a NOTIFICATION_REQUESTED.                         *)
(***************************************************************************)
EXTENDS Naturals, Sequences

CONSTANTS
  Workers,
  Recipients,   \* what a send goes to: a channel and an address
  Plans,        \* the sends that rules may ask for, in their order
  Dead,         \* recipients the provider always refuses
  None,         \* no worker
  MaxAttempts,  \* MAX_RETRIES of the outbox
  MaxTroubles   \* bound of passing failures and lapsed leases

ASSUME DeliveryAssumption ==
  /\ Plans \subseteq Seq(Recipients) /\ None \notin Workers
  /\ MaxAttempts \in Nat \ {0} /\ MaxTroubles \in Nat

VARIABLES
  kind,      \* "leave": a leave that ended; "request": NOTIFICATION_REQUESTED
  plan,      \* the sends of the event
  event,     \* its row of the outbox
  worker,    \* each worker: its step, the send it is at, whether one failed
  posts,     \* messages each recipient has got
  log,       \* recipients with a SENT row that carries the event's id
  moved,     \* whether the student has been brought in
  troubles,  \* failures so far, of those MaxTroubles bounds
  began      \* log when each worker began

vars == <<kind, plan, event, worker, posts, log, moved, troubles, began>>

Events == [status : {"pending", "claimed", "done", "failed"},
           attempts : 0..MaxAttempts, holder : Workers \cup {None}]
Steps == {"idle", "check", "send", "log", "move", "report"}
WorkerStates == [pc : Steps, at : Nat, failures : BOOLEAN]
Idle == [pc |-> "idle", at |-> 1, failures |-> FALSE]

Init ==
  /\ kind \in {"leave", "request"} /\ plan \in Plans
  /\ event = [status |-> "pending", attempts |-> 0, holder |-> None]
  /\ worker = [w \in Workers |-> Idle]
  /\ posts = [r \in Recipients |-> 0] /\ log = {} /\ moved = FALSE
  /\ troubles = 0 /\ began = [w \in Workers |-> {}]

Claim(w) ==
  /\ worker[w].pc = "idle" /\ event.status = "pending"
  /\ event' = [event EXCEPT !.status = "claimed", !.holder = w]
  /\ worker' = [worker EXCEPT ![w] = [Idle EXCEPT !.pc = "check"]]
  /\ began' = [began EXCEPT ![w] = log]
  /\ UNCHANGED <<kind, plan, posts, log, moved, troubles>>

\* Slip: one attempt more than the budget.
FailedOnceMore(e) ==
  [status |-> IF e.attempts > MaxAttempts THEN "failed" ELSE "pending",
   attempts |-> e.attempts + 1, holder |-> None]

\* releaseForRetry, markFailed and the recovery of a lapsed lease
Failed(e) ==
  [status |-> IF e.attempts + 1 = MaxAttempts THEN "failed" ELSE "pending",
   attempts |-> e.attempts + 1, holder |-> None]

Lapse ==
  /\ event.status = "claimed" /\ troubles < MaxTroubles
  /\ event' = Failed(event) /\ troubles' = troubles + 1
  /\ UNCHANGED <<kind, plan, worker, posts, log, moved, began>>

Recipient(w) == plan[worker[w].at]
Sends(w) == worker[w].at <= Len(plan)

\* Slip: the first failure ends the attempt.
NextSendUnlessFailed(w, failed) ==
  worker' = [worker EXCEPT ![w].pc = IF failed THEN "move" ELSE "check",
                           ![w].at = @ + 1, ![w].failures = @ \/ failed]

\* A failure is collected, and the next recipient is still tried.
NextSend(w, failed) ==
  worker' = [worker EXCEPT ![w].pc = "check", ![w].at = @ + 1, ![w].failures = @ \/ failed]

\* Slip: the log is not asked.
CheckNothing(w) ==
  /\ worker[w].pc = "check" /\ Sends(w)
  /\ worker' = [worker EXCEPT ![w].pc = "send"]
  /\ UNCHANGED <<kind, plan, event, posts, log, moved, troubles, began>>

\* hasSentForOutboxChannel.  A NOTIFICATION_REQUESTED is delivered without
\* the id of its event, so there is nothing to look up.
Check(w) ==
  /\ worker[w].pc = "check" /\ Sends(w)
  /\ IF kind = "leave" /\ Recipient(w) \in log THEN NextSend(w, FALSE)
     ELSE worker' = [worker EXCEPT ![w].pc = "send"]
  /\ UNCHANGED <<kind, plan, event, posts, log, moved, troubles, began>>

Send(w) ==
  /\ worker[w].pc = "send" /\ Recipient(w) \notin Dead
  /\ posts' = [posts EXCEPT ![Recipient(w)] = @ + 1]
  /\ worker' = [worker EXCEPT ![w].pc = "log"]
  /\ UNCHANGED <<kind, plan, event, log, moved, troubles, began>>

\* Slip: a refusal that the provider reports, and does not throw, passes.
RefusedQuietly(w) ==
  /\ worker[w].pc = "send"
  /\ Recipient(w) \in Dead /\ UNCHANGED troubles
  /\ NextSend(w, FALSE)
  /\ UNCHANGED <<kind, plan, event, posts, log, moved, began>>

\* The provider refuses or does not answer.
SendFails(w) ==
  /\ worker[w].pc = "send"
  /\ \/ Recipient(w) \in Dead /\ UNCHANGED troubles
     \/ Recipient(w) \notin Dead /\ troubles < MaxTroubles /\ troubles' = troubles + 1
  /\ NextSend(w, TRUE)
  /\ UNCHANGED <<kind, plan, event, posts, log, moved, began>>

\* The row, or the unique index that says another worker wrote it.
LogSent(w) ==
  /\ worker[w].pc = "log"
  /\ log' = IF kind = "leave" THEN log \cup {Recipient(w)} ELSE log
  /\ NextSend(w, FALSE)
  /\ UNCHANGED <<kind, plan, event, posts, moved, troubles, began>>

LogFails(w) ==
  /\ worker[w].pc = "log" /\ troubles < MaxTroubles
  /\ troubles' = troubles + 1
  /\ NextSend(w, TRUE)
  /\ UNCHANGED <<kind, plan, event, posts, log, moved, began>>

\* notify has returned: a handler throws on its failures before it comes to
\* the location.
Notified(w) ==
  /\ worker[w].pc = "check" /\ ~ Sends(w)
  /\ worker' = [worker EXCEPT ![w].pc = IF worker[w].failures THEN "report" ELSE "move"]
  /\ UNCHANGED <<kind, plan, event, posts, log, moved, troubles, began>>

\* recordMovement, whose error is logged and dropped.
Move(w) ==
  /\ worker[w].pc = "move"
  /\ \/ moved' = (moved \/ kind = "leave") /\ UNCHANGED troubles
     \/ /\ kind = "leave" /\ troubles < MaxTroubles
        /\ troubles' = troubles + 1 /\ UNCHANGED moved
  /\ worker' = [worker EXCEPT ![w].pc = "report"]
  /\ UNCHANGED <<kind, plan, event, posts, log, began>>

\* markProcessed, or the retry; it counts if the claim is still this worker's.
Report(w) ==
  /\ worker[w].pc = "report"
  /\ event' = IF event.holder # w THEN event
              ELSE IF worker[w].failures THEN Failed(event)
              ELSE [event EXCEPT !.status = "done", !.holder = None]
  /\ worker' = [worker EXCEPT ![w] = Idle]
  /\ UNCHANGED <<kind, plan, posts, log, moved, troubles, began>>

Run(w) ==
  \/ Check(w) \/ Send(w) \/ SendFails(w) \/ LogSent(w) \/ LogFails(w)
  \/ Notified(w) \/ Move(w) \/ Report(w)

Next == Lapse \/ \E w \in Workers : Claim(w) \/ Run(w)

Spec == Init /\ [][Next]_vars

\* The cron job claims what is due, and a worker that runs gets on; a worker
\* that does not is one whose lease lapses.
FairSpec ==
  Spec /\ WF_vars(\E w \in Workers : Claim(w)) /\ \A w \in Workers : WF_vars(Run(w))

-----------------------------------------------------------------------------
Planned == {plan[i] : i \in 1..Len(plan)}

TypeOK ==
  /\ kind \in {"leave", "request"} /\ plan \in Plans
  /\ event \in Events
  /\ worker \in [Workers -> WorkerStates]
  /\ posts \in [Recipients -> Nat] /\ log \subseteq Recipients
  /\ moved \in BOOLEAN /\ troubles \in Nat /\ began \in [Workers -> SUBSET Recipients]

\* "A notification that never delivered must not be marked PROCESSED"
\* (leave-event.handler.ts:388): by then every recipient of every rule has
\* got a message, in this attempt or in an earlier one whose worker failed
\* elsewhere, lost its lease or could not write its log.
DoneMeansSent ==
  event.status = "done" => \A r \in Planned : posts[r] > 0

\* An attempt on an event of a leave does not send again what was logged as
\* sent before it began, whoever wrote that log.  (Two attempts that overlap
\* may both send: the unique index keeps the second row out, not the message.)
LoggedIsNotRepeated ==
  \A w \in Workers :
    kind = "leave" /\ worker[w].pc = "send" => Recipient(w) \notin began[w]

\* A recipient whose provider is down for good does not keep the message
\* from the others.
HealthyAreReached ==
  \A r \in Recipients \ Dead : (r \in Planned) ~> (posts[r] > 0)
=================================================================================
