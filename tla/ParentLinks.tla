------------------------------ MODULE ParentLinks ------------------------------
(***************************************************************************)
(* The link a parent answers a leave by: the workers that mint and send it *)
(* for an event of the outbox, the resend by staff or student, the answer, *)
(* and what expires a leave whose link was not answered.                   *)
(*                                                                         *)
(* An event may be delivered to several workers and again after a failure  *)
(* (EventDelivery).  The link is sent inside the transaction that stores   *)
(* its hash, so a message may go out for a hash that is rolled back.  The  *)
(* parent's step is one of a chain; what else the chain does is in         *)
(* LeaveWorkflow.                                                          *)
(***************************************************************************)
EXTENDS Naturals

CONSTANTS
  Workers,
  Events,     \* PARENT_APPROVAL_REQUIRED: the first one and those of resends
  First,      \* the first
  None,       \* no event
  MaxTries,   \* deliveries of an event
  Ttl,        \* PARENT_APPROVAL_TOKEN_EXPIRY_HOURS
  EndTime,    \* the end of the leave
  LastTime    \* bound of the clock, which stops when the leave is decided

ASSUME LinkAssumption ==
  /\ First \in Events /\ None \notin Events
  /\ MaxTries \in Nat /\ Ttl \in Nat /\ EndTime \in Nat /\ LastTime \in Nat \ {0}

VARIABLES
  now,        \* the clock, from 1
  leave,      \* status of the leave
  decision,   \* decision of the parent's approval
  details,    \* the stored link: token (0: none, or never sent), expiry (0: none, or reset)
  events,     \* each event: its status and its deliveries
  minted,     \* tokens sent so far
  worker,     \* each worker: what it does, for which event, with which link
  inbox,      \* the links the parent has received, each with its expiry
  quiet,      \* whether the last request was served without a message
  answering,  \* the link of a decision whose transaction has looked it up
  verdicts    \* expiries that are decided and not done: by whom, for which link

vars ==
  <<now, leave, decision, details, events, minted, worker, inbox, quiet, answering, verdicts>>

LeaveStatuses == {"PENDING", "APPROVED", "REJECTED", "CANCELLED", "EXPIRED"}
Decisions == {"PENDING", "APPROVED", "REJECTED", "CANCELLED"}
Links == [token : Nat, expiry : Nat]
NoLink == [token |-> 0, expiry |-> 0]
EventRows == [status : {"none", "due", "done", "failed"}, tries : 0..MaxTries]
Idle == [pc |-> "idle", event |-> None, link |-> NoLink]
WorkerStates ==
  [pc : {"idle", "ready", "holding", "sent", "unsent"}, event : Events \cup {None}, link : Links]
Verdicts == [by : {"link", "job", "end"}, token : Nat]

Init ==
  /\ now = 1 /\ leave = "PENDING" /\ decision = "PENDING"
  /\ details = NoLink
  /\ events = [e \in Events |-> [status |-> IF e = First THEN "due" ELSE "none", tries |-> 0]]
  /\ minted = 0 /\ worker = [w \in Workers |-> Idle]
  /\ inbox = {} /\ quiet = FALSE /\ answering = 0 /\ verdicts = {}

LinkLives == details.expiry > now
\* The parent's details are locked from the storing of the hash to the commit.
DetailsLocked == \E w \in Workers : worker[w].pc \in {"holding", "sent", "unsent"}
Pending == leave = "PENDING" /\ decision = "PENDING"

Tick ==
  /\ now < LastTime /\ leave = "PENDING" /\ now' = now + 1
  /\ UNCHANGED <<leave, decision, details, events, minted, worker, inbox, quiet, answering, verdicts>>

(***************************************************************************)
(* A worker (handleLeaveEvent, generateParentApproval).                    *)
(***************************************************************************)
KeepLeave == UNCHANGED <<now, leave, decision, answering, verdicts>>

\* The report of a delivery counts for an event that is still due.
Settled(e, to) == [events EXCEPT ![e].status = IF @ = "due" THEN to ELSE @]

\* Slip: an event is delivered without end.
DeliverableAlways(w, e) == worker[w].pc = "idle" /\ events[e].status = "due"

Deliverable(w, e) ==
  worker[w].pc = "idle" /\ events[e].status = "due" /\ events[e].tries < MaxTries

\* An answered approval, a cancelled leave or a link that lives: nothing to do.
NothingToSend(w, e) ==
  /\ Deliverable(w, e) /\ (decision # "PENDING" \/ leave = "CANCELLED" \/ LinkLives)
  /\ events' = Settled(e, "done")
  /\ UNCHANGED <<details, minted, worker, inbox, quiet>> /\ KeepLeave

\* The student has no parent, or the parent no phone: the handler drops the
\* error and the event is processed.
NobodyToAsk(w, e) ==
  /\ Deliverable(w, e) /\ decision = "PENDING" /\ leave # "CANCELLED" /\ ~LinkLives
  /\ events' = Settled(e, "done") /\ quiet' = TRUE
  /\ UNCHANGED <<details, minted, worker, inbox>> /\ KeepLeave

\* A fresh token, with its expiry from now on.  Tokens are told apart from the
\* moment they are sent.
Prepare(w, e) ==
  /\ Deliverable(w, e) /\ decision = "PENDING" /\ leave # "CANCELLED" /\ ~LinkLives
  /\ worker' = [worker EXCEPT ![w] = [pc |-> "ready", event |-> e,
                  link |-> [token |-> 0, expiry |-> now + Ttl]]]
  /\ events' = [events EXCEPT ![e].tries = @ + 1]
  /\ UNCHANGED <<details, minted, inbox, quiet>> /\ KeepLeave

\* updateParentApprovalToken: the decision is read again, the token is not.
StoreToken(w) ==
  /\ worker[w].pc = "ready" /\ ~DetailsLocked
  /\ IF decision = "PENDING"
     THEN worker' = [worker EXCEPT ![w].pc = "holding"] /\ UNCHANGED events
     ELSE worker' = [worker EXCEPT ![w] = Idle] /\ events' = Settled(worker[w].event, "done")
  /\ UNCHANGED <<details, minted, inbox, quiet>> /\ KeepLeave

SentOff(w) ==
  /\ worker[w].pc = "holding"
  /\ minted' = minted + 1
  /\ worker' = [worker EXCEPT ![w].pc = "sent", ![w].link.token = minted + 1]
  /\ UNCHANGED <<details, events, quiet>> /\ KeepLeave

\* Slip: a message that could not be sent does not count as a failure.
SendLinkMaybe(w) == SentOff(w) /\ UNCHANGED inbox

\* notify: nothing is sent for a leave that was cancelled meanwhile.
SendLink(w) ==
  /\ SentOff(w)
  /\ inbox' = IF leave = "CANCELLED" THEN inbox ELSE inbox \cup {worker'[w].link}

\* No rule asks for a message, or none of its recipients can be found: notify
\* reports success, and the hash is stored for a link that nobody has.
SendToNobody(w) ==
  /\ worker[w].pc = "holding"
  /\ worker' = [worker EXCEPT ![w].pc = "unsent"]
  /\ UNCHANGED <<details, minted, events, inbox, quiet>> /\ KeepLeave

CommitToken(w) ==
  /\ worker[w].pc \in {"sent", "unsent"}
  /\ details' = worker[w].link /\ quiet' = (worker[w].pc = "unsent")
  /\ events' = Settled(worker[w].event, "done")
  /\ worker' = [worker EXCEPT ![w] = Idle]
  /\ UNCHANGED <<minted, inbox>> /\ KeepLeave

\* A provider, a database or a process that fails, before the send or after.
DeliveryFails(w) ==
  /\ worker[w].pc # "idle"
  /\ LET e == worker[w].event IN
     events' = IF events[e].tries = MaxTries THEN Settled(e, "failed") ELSE events
  /\ worker' = [worker EXCEPT ![w] = Idle]
  /\ UNCHANGED <<details, minted, inbox, quiet>> /\ KeepLeave

(***************************************************************************)
(* The resend, the answer and the rest of the chain.                       *)
(***************************************************************************)
\* resendParentApproval: the expiry is reset and the hash is kept.
Resend(e) ==
  /\ Pending /\ events[e].status = "none" /\ ~DetailsLocked
  /\ details' = [details EXCEPT !.expiry = 0] /\ quiet' = FALSE
  /\ events' = [events EXCEPT ![e].status = "due"]
  /\ UNCHANGED <<minted, worker, inbox>> /\ KeepLeave

\* parentApproveDecision looks the link up in its transaction, ...
LookUpLink(l) ==
  /\ answering = 0 /\ decision = "PENDING"
  /\ l.token = details.token /\ details.expiry >= now
  /\ answering' = l.token
  /\ UNCHANGED <<now, leave, decision, details, events, minted, worker, inbox, quiet, verdicts>>

\* ... decides the approval and then locks the leave.  With other steps to come
\* an approved leave stays pending.
Answer(d) ==
  /\ answering # 0 /\ Pending
  /\ decision' = d
  /\ IF d = "REJECTED" THEN leave' = "REJECTED" ELSE leave' \in {"PENDING", "APPROVED"}
  /\ answering' = 0
  /\ UNCHANGED <<now, details, events, minted, worker, inbox, quiet, verdicts>>

AnswerRefused ==
  /\ answering # 0 /\ answering' = 0
  /\ UNCHANGED <<now, leave, decision, details, events, minted, worker, inbox, quiet, verdicts>>

\* The leave ends with its pending approval cancelled.
LeaveEnds(to) ==
  /\ leave' = to
  /\ decision' = IF decision = "PENDING" THEN "CANCELLED" ELSE decision
  /\ UNCHANGED <<now, details, minted, worker, inbox, quiet, answering>>

\* cancelLeave, which withdraws the events no worker has taken.
CancelLeave ==
  /\ leave \in {"PENDING", "APPROVED"} /\ LeaveEnds("CANCELLED")
  /\ events' = [e \in Events |->
       IF events[e].status = "due" /\ \A w \in Workers : worker[w].event # e
       THEN [events[e] EXCEPT !.status = "done"] ELSE events[e]]
  /\ UNCHANGED verdicts

\* The steps after the parent's, and the override of all of them.
DecideOtherwise ==
  /\ leave = "PENDING"
  /\ \/ decision = "APPROVED" /\ leave' \in {"APPROVED", "REJECTED"} /\ UNCHANGED decision
     \/ leave' = "APPROVED" /\ decision' = "APPROVED"
  /\ UNCHANGED <<now, details, events, minted, worker, inbox, quiet, answering, verdicts>>

(***************************************************************************)
(* Expiry: decided by one read, done by expireSingleLeave.  One at a time.  *)
(***************************************************************************)
Condemn(by, token) ==
  /\ verdicts = {} /\ verdicts' = {[by |-> by, token |-> token]}
  /\ UNCHANGED <<now, leave, decision, details, events, minted, worker, inbox, quiet, answering>>

\* A link is opened, or answered, whose stored expiry has passed.
OpenExpired(l) ==
  /\ l.token = details.token /\ details.expiry < now /\ decision = "PENDING"
  /\ Condemn("link", l.token)

\* Slip: the job takes a link that was reset for one that has expired.
JobFindsReset ==
  /\ Pending /\ details.expiry <= now /\ Condemn("job", details.token)

\* findLeavesWithExpiredParentApproval, which leaves a reset link alone.
JobFindsUnanswered ==
  /\ Pending /\ details.expiry # 0 /\ details.expiry <= now /\ Condemn("job", details.token)

\* Slip: only an approved leave expires at its end.
JobFindsApproved ==
  /\ leave = "APPROVED" /\ now >= EndTime /\ Condemn("end", 0)

\* findExpiredLeaves, for a type with a pass.
JobFindsEnded ==
  /\ leave \in {"PENDING", "APPROVED"} /\ now >= EndTime /\ Condemn("end", 0)

Expire(v) ==
  /\ v \in verdicts /\ leave \in {"PENDING", "APPROVED"}
  /\ verdicts' = verdicts \ {v}
  /\ LeaveEnds("EXPIRED") /\ UNCHANGED events

\* The leave cannot expire any more.
ExpiryRefused(v) ==
  /\ v \in verdicts /\ leave \notin {"PENDING", "APPROVED"}
  /\ verdicts' = verdicts \ {v}
  /\ UNCHANGED <<now, leave, decision, details, events, minted, worker, inbox, quiet, answering>>

WorkerStep(w) ==
  \/ \E e \in Events : NothingToSend(w, e) \/ NobodyToAsk(w, e) \/ Prepare(w, e)
  \/ StoreToken(w) \/ SendLink(w) \/ SendToNobody(w) \/ CommitToken(w) \/ DeliveryFails(w)

Next ==
  \/ Tick \/ AnswerRefused \/ CancelLeave \/ DecideOtherwise
  \/ JobFindsUnanswered \/ JobFindsEnded
  \/ \E w \in Workers : WorkerStep(w)
  \/ \E e \in Events : Resend(e)
  \/ \E l \in inbox : LookUpLink(l) \/ OpenExpired(l)
  \/ \E d \in {"APPROVED", "REJECTED"} : Answer(d)
  \/ \E v \in verdicts : Expire(v) \/ ExpiryRefused(v)

Spec == Init /\ [][Next]_vars

\* The clock goes on and the job runs again and again.  Nothing is asked of the
\* workers: their events may use up their deliveries.
Fairness ==
  /\ WF_vars(Tick) /\ WF_vars(JobFindsEnded)
  /\ WF_vars(\E v \in verdicts : Expire(v))

FairSpec == Spec /\ Fairness

(***************************************************************************)
(* Properties.                                                             *)
(***************************************************************************)
\* Type invariant of the link (schema/leave.ts, leaveApprovalParentDetails).
TypeOK ==
  /\ now \in 1..LastTime /\ leave \in LeaveStatuses /\ decision \in Decisions
  /\ details \in Links /\ events \in [Events -> EventRows]
  /\ minted \in Nat /\ worker \in [Workers -> WorkerStates]
  /\ inbox \subseteq Links /\ quiet \in BOOLEAN /\ answering \in Nat /\ verdicts \subseteq Verdicts

\* generateParentApproval and resendParentApproval: with duplicate deliveries,
\* failures after the send and a resend in between, once every request is
\* served a parent who is still to answer has received the link that is stored.
\* The two ways the code serves a request without a message are the exception,
\* and only until the next link is stored or asked for.
RequestReachesParent ==
  Pending /\ (\A e \in Events : events[e].status \in {"none", "done"}) =>
    details \in inbox \/ quiet

\* What one step expires the leave by.
ExpiresBy(by) == {v \in verdicts \ verdicts' : v.by = by /\ leave' = "EXPIRED"}
InTime(v) == \E l \in inbox : l.token = v.token /\ l.expiry > now

\* findLeavesWithExpiredParentApproval: the job never expires a leave for a
\* link whose time has not passed, although a resend resets the stored expiry.
JobWaitsForTheLink == [][\A v \in ExpiresBy("job") : ~InTime(v)]_vars

\* expireOverdueLeaves: a request that nobody answers, for want of a parent, of
\* a message or of a delivery that succeeds, does not wait for ever.
PendingEnds == leave = "PENDING" ~> leave # "PENDING"
===============================================================================
