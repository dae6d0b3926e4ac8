# TLA+ verification of the SST Hostel Leave System

Students ask for leave, a configured chain of people (parents, POCs, admins)
decides, an approved leave gets a gate pass, a guard scans the pass out and in,
and everything that has to be told to somebody goes through a transactional
outbox. This directory holds TLA+ models of the parts of that program whose
correctness depends on order: which transaction runs between which two
statements of another, what a crash leaves behind, which late decision arrives
after which end. TLC checks them on small instances; TLAPS proves most of the
safety properties, most action properties and three refinements for every value
of the constants (where noted, under an assumption).

Paths below are relative to the repository; `services/...`, `db/...`,
`lib/...` stand for `src/services/...` and so on.

Contents: [the system](#1-the-system) · [modules](#2-modules-and-code) ·
[runs](#3-runs-and-bounds) · [fairness](#4-fairness) · [proofs](#5-proofs) ·
[read in the code](#6-read-in-the-code) ·
[not modelled](#7-what-is-not-modelled) · [plan](#8-plan)

## 1. The system

### Components, their state and their operations

| Component | State | Operations | What makes it correct | Module |
|---|---|---|---|---|
| Leave workflow and approvals (`services/leave`, `services/workflow/workflow-activation.service.ts`, `services/parent/parent-approve-decision.service.ts`, `lib/workflows/leave-state-machine.ts`) | `leave_requests`, `leave_approvals`, `leave_extensions` | submit, approve, refuse, reject, parent decision, override, extensions, cancel, expire, complete, auto-complete, mark overdue | nobody is skipped, nobody waits for nobody; an ended leave stays ended; the window moves only by an approved extension | `ApprovalChain`, `LeaveWorkflow`, `LeaveLifecycle` |
| Gate passes and scans (`services/movement/scan-qr.service.ts`, `services/leave/qr-pass-lifecycle.service.ts`, `services/cron/cleanup-qr.job.ts`) | `qr_passes`, `students.current_location_state`, `qr_scan_logs` | issue, widen, retire, invalidate, re-issue, clean up, exit and return scan | a usable pass belongs to a live leave; a student who is out can come back; one open session | `LeaveWorkflow`, `GateMovement` |
| Manual movements (`services/movement/manual-*.service.ts`, `mark-overdue.service.ts`) | the same rows | checkout, return and overdue mark by staff | agree with leave and pass although they check outside their transaction | `GateMovement` |
| Overlap guard (`services/leave/overlap-guard.service.ts`) | windows of a student's leaves | asked before a window is created or widened | leaves of one type do not overlap | `OverlapGuard` |
| Parent approval tokens (`services/parent`) | token hash and expiry of a parent approval | issue, resend, answer, expire | the stored link is one the parent has; no request waits for ever | `ParentLinks` |
| Transactional outbox (`services/outbox`, `db/repositories/outbox`, `services/cron/retry-outbox.job.ts`, `purge-outbox.job.ts`) | `outbox_events` | publish, withdraw, recovery pass, claim, handle, settle, purge | at-least-once delivery, retries bounded | `Outbox`, `EventDelivery` |
| Event handlers and notification delivery (`services/outbox/handlers`, `services/notification`) | `notification_logs`, movements | loops over rules and recipients, the log, the send, the movement after it | done means everybody was reached; logged sends are not repeated | `NotificationDelivery`, `GateMovement` |
| Messaging circuit breaker and retry (`lib/messaging`) | an entry per provider, in memory | admit, retry, count, open, probe, close | always a probe under way; recovers with the provider | `CircuitBreaker` |
| Scheduled jobs and leave documents (`services/cron`, `services/leave/documents`) | documents, files; the rows of the jobs | list a batch, settle each row, list again; upload and delete | a run ends; the backlog clears; no file is left behind a deleted row | `BatchJobs` |
| Workflow, policy and leave type configuration (`services/workflow`, `services/policy`, `services/leave/*-leave-type*.ts`) | the rows and their versions | create, update, version; read by a submission | a leave refers to what it ran under | `ConfigVersions` |
| Staff accounts and roles (`services/user`, `lib/auth/get-current-user.ts`) | `users`, `user_roles` | create, first sign-in, update, deactivate, delete | a super admin remains; everybody has the roles asked for | `UserRoles` |
| Rate limiter, policy engine, questions, authorization checks, master data, analytics, audit, reconciliation, web layer | their tables | single statements, queries, pure evaluation | – | section 7 |

### How they interact

* **Shared rows.** The leave services and the gate write the same
  `leave_requests` and `qr_passes` rows in one database transaction each. Most
  take `SELECT ... FOR UPDATE` on the leave first and read afterwards; the ones
  that read something earlier are where the interleavings are
  (`cancel-leave.service.ts:83`, `create-extension.service.ts:194`,
  `auto-complete-non-qr.service.ts:86`, `scan-qr.service.ts:322`, `466` and
  `776`, `manual-return.service.ts:79`, `mark-overdue.service.ts:66`).
  A movement that names a leave locks the leave's row too, through its foreign
  key, and so waits for whoever holds the leave `FOR UPDATE`.
* **Events.** A service publishes an outbox event inside its transaction; a
  worker run claims it, calls the handler and settles the row. Handlers act
  after the fact, once or more, in any order: they send notifications, mint the
  parent's link and record movements.
* **Jobs.** Cron routes run the expiry, overdue, completion, clean-up, retry
  and purge jobs; each lists rows first and acts on them one by one, beside
  users and beside another instance of the same job.
* **External.** Parents (a link with a token), providers of SMS and e-mail,
  object storage.

### What is hard

*Interleaving*: decisions of staff, parents and jobs on one leave; two scans of
one pass; two worker runs on one row. *Staleness*: lists and checks read before
a lock. *Partial paths*: five ways to end a leave, three to reject it, three to
approve an extension, each of which has to do the same side work. *Crashes*: a
worker that dies between a send and its log, a request between a file and its
row. *Protocol sequences*: rejection, override, automatic steps, extensions,
resends and role changes in orders nobody wrote a test for. The hazards are
listed one by one, at their lines, in `PROJECT.json`.

## 2. Modules and code

```
ApprovalChain ─ LeaveWorkflow ──(refines)── LeaveLifecycle
                    ├─ MCLeaveWorkflow
                    └─ LeaveProofs
Outbox ──(refines)── EventDelivery
   ├─ MCOutbox
   └─ OutboxProofs
GateMovement ──(refines)── StudentPresence
   ├─ MCGateMovement
   └─ MovementProofs
OverlapGuard ── MCOverlapGuard, OverlapProofs
NotificationDelivery ── MCNotificationDelivery, NotificationProofs
ParentLinks ── MCParentLinks, LinkProofs
CircuitBreaker ── MCCircuitBreaker ─┐
BatchJobs ── MCBatchJobs ───────────┴─ ServiceProofs
UserRoles ── MCUserRoles ───────────┐
ConfigVersions ── MCConfigVersions ─┴─ AdminProofs
```

`MC*` modules are for TLC, `*Proofs` for TLAPS. Two proof modules hold the
theorems of two components each: `ServiceProofs` extends `CircuitBreaker` and
`BatchJobs`, `AdminProofs` extends `UserRoles` and `ConfigVersions`. `BatchJobs`
and `ConfigVersions` name their specifications `JobsSpec` and `ConfigSpec`, so
that one module can extend both of a pair.

**ApprovalChain** – operators, no state: the rows of one workflow and the
current step, for a leave or an extension alike. `Current`/`HasCurrent` are
`selectCurrentPendingApproval`, `RunFrom` is `activateWorkflowStep` (AUTO steps
are approved one after another until a person has to act) and `CanRun` says
when it succeeds: an AUTO step with another step behind it writes no audit row
and works, but where the *last* step is AUTO the approval of the leave is
recorded for the actor `"SYSTEM"`, which is no user's id, and the transaction is
rolled back (section 6, item 17). Every action that walks a leave's chain asks
`CanRun`. `MoveOn` is
`handleNextStep`, `Rejected` and `RejectionStep` are `rejectLeave` /
`rejectExtension` with the administrator's detour around a parent's step,
`Opened` is the loop of `createExtension` over its own steps. The chain is
fixed at submission, as the code freezes it (approval rows are created then).

**LeaveWorkflow** – one leave, its extensions, its pass and its student.
Variables are the rows (`leave`, `ext`, `qr`, `location`), the locals of calls
that are between two statements (`cancel`, `completing`, `due`, and the
extension status `REQUESTED` for a `createExtension` between its check and its
lock), and one history flag, `recovered`. Each service is one action; a service
that reads before it locks is two. The type of the leave enters through its
`qrMode`, chosen at submission among the constant `Modes`: none, a pass with
exit and return, return-only, daily recurring.

**LeaveLifecycle** – what the student and the gate may rely on: a status, a
usable pass, an end. `LeaveWorkflow` implements it (`RefinesLifecycle`), with
`usable` mapped to `qr.status = "ACTIVE"`.

**GateMovement** – one student with several approved leaves, by half days. A
scan is `TapExit`/`TapReturn` (the checks before its transaction: conflicting
pass, open session, window, returns of the day) and the transaction, which locks
the leave and reads it again: `ExitScan` in one action, because the movement is
conditional on where the student is; a return in two, because it reads the open
session (`ReadReturnScan`, `scan-qr.service.ts:776`) before the location
(`ReturnScan`, line 796) and has locked only its own leave in between
(`scanning`). `cancelLeave` and `expireSingleLeave` are a read under the lock
(`ReadCancel`, `ReadExpiry`) and the writes (`EndLeave`); `manualCheckout`,
`manualReturn` and `markOverdue` are what they read before their transaction
(`Read...`), what they see inside it before anything is locked (`See...`) and
what they write. `Locked` are the leaves whose row a transaction holds across
two actions: whoever locks the leave waits, and so does every movement on it,
whose foreign key takes a KEY SHARE lock of the same row. `manualReturn`
therefore reads its leave (`manual-return.service.ts:108`) behind a lock, and a
checkout cannot fall into an expiry or a cancellation of its leave. `Deliver` is
the movement a handler records for a LEAVE_CANCELLED, LEAVE_EXPIRED or
LEAVE_OVERDUE event, at any time and any number of times, as `EventDelivery`
allows. `taps`, `scanning`, `ending` and `staff` are the locals of these calls;
`slips` is history.

**StudentPresence** – what the gate promises the hostel about a student: in or
not, the leaves that are live, the ones he is out on (`inside`, `live`,
`sessions`), and which of the races of section 6, items 5 and 6, have happened:
`Lost`, he was brought in past an open session; `Overlooked`, a leave ended and
left its pass behind. `GateMovement` implements it (`RefinesPresence`), with
`live` mapped to the approved and overdue leaves and `sessions` to those with a
pass in use.

**OverlapGuard** – the leaves of one student, each transaction that gives one a
window with its check (`Create`, `Widen`) apart from its commit. A creation
holds the student's row from its check on, an extension holds its own leave
only. An extension whose last step is the parent's moves the end without asking
the guard (`WidenByParent`). `unseen` collects the pairs of which neither
looked at the other.

**ParentLinks** – the parent's step of one leave and the link it is answered by.
`Prepare`, `SendLink` and `CommitToken` are the stages of
`generateParentApproval` for one delivery of an event: the message goes out
inside the transaction that stores the hash, so it may go out for a hash that is
rolled back. Two paths serve an event without a message, and `quiet` records
that the last one did: `NobodyToAsk` (no parent, or none with a phone: the
handler swallows it) and `SendToNobody` (no rule or no recipient for the
template: the hash is stored all the same). `Resend` resets the stored expiry
and publishes again; `Answer`, `OpenExpired`, `JobFindsUnanswered` and
`JobFindsEnded` are the parent's and the job's side, the last two before the
expiry they decide on.

**NotificationDelivery** – one event whose notification goes to a sequence of
recipients (`plan`: the loops over rules and users flattened), by several
workers whose claims lapse. `Check` (the log), `Send` and `LogSent` are
separate; `Move` is the handler's movement after all sends; `Report` settles
the event or gives the attempt back. `kind` tells an event handled under its id
from a NOTIFICATION_REQUESTED, which is not.

**CircuitBreaker** – one entry and the calls through it. A call decides by what
the entry says when it *returns*. `Call` admits or refuses, `Retry` is the loop
inside `fn()`, `Succeed` and `Fail` the two ends, `Cool` the cooldown.

**BatchJobs** – the loop of the scheduled jobs over batches of rows, some of
which fail every time (`stuck`), with the file and the row of a document apart,
and users who upload and delete beside it. The address of a document may yield
no object key (`keyless`: rows of an earlier storage); its row is then marked
deleted and nothing is removed (`WithoutFile`). The jobs of `documents` and
`passes` remember what a run has tried, those of `leaves` do not.

**ConfigVersions** – editions (numbers) of a workflow, a policy and a leave
type, the versions made of them, and a submission that reads one after another
(`Reads`). Workflows and policies are saved with their version in a
transaction (`Save`); a leave type by four statements.

**UserRoles** – accounts, their roles and the requests that change them. An
update is what its route checks (`BeginUpdate`), the guard for the last super
admin behind the row's lock (`CheckUpdate`) and the rest with the commit
(`CommitUpdate`); a deletion is two statements. The roles are one that is never
limited to hostels and one that may be. That a transaction's rows change at its
commit hides one refinement: a deletion's statement that falls between two of
an update's may take a row the update has decided to keep; the deletion's next
statement takes the account.

**Outbox** – the table and any number of worker runs, one action per SQL
statement. `pc`, `pass`, `batch`, `cur` are the locals of a run; `Stale` and
`Owns` are the two guards the repository builds its updates from
(`staleProcessingGuard`, `processingClaimGuard`). Instants are minutes still to
run and `Tick` lets one pass. `sent` and `claims` are history.

**EventDelivery** – the promise to a publisher: queued once, settled once,
delivered only if sent, never dropped. `Outbox` implements it; `GateMovement`,
`ParentLinks` and `NotificationDelivery` take from it that an event may come
late and more than once.

What each action is in the code is in the `map` of `PROJECT.json`; the names
are the services' names. Operators marked *Slip* or *Mutant* are no part of the
models: they are the plausible bugs (`mutants` in `PROJECT.json`) with which
each property is shown to be able to fail.

## 3. Runs and bounds

Run a configuration with `tlc -config X.cfg M`. All twelve pass.

| Run | What it asks | Instance | Distinct states |
|---|---|---|---|
| `outbox_workers` | Two runs interleave between any two statements, with a crash, expiring leases, a cancellation and the purge: are attempts accounted for, are claims honoured, is the promise of `EventDelivery` kept? | 2 events, 2 runs, retry budget 2, lease, backoff and retention of 1 minute | 365,182 |
| `outbox_liveness` | Is every queued event settled, or its budget used up, through crashes? | the same, one row left by an earlier release and one event without a handler | 146,073 |
| `leave_gate` | The chain, the pass and the end of one leave for a type with an exit pass and a type without a pass | 3 steps (a parent, then two of staff), 2 extensions, 3 ends | 128,000 |
| `leave_auto` | Automatic steps before and after the parent's, with a step of the staff at the end; return-only and recurring passes, the completion job: whose turn is it, and is `LeaveLifecycle` kept? | 4 steps: automatic, the parent's, automatic, the staff's; 2 extensions of which one may be granted | 26,922 |
| `gate_movement` | Sessions, credentials and ends over days, with scans, staff, jobs and late events between each other's reads and writes: is `StudentPresence` kept? | an exit leave of one day, a recurring one of the two days after it, 2 scans of a pass at once, 5 half days | 2.36 million |
| `overlap` | Do leaves of one type stay apart, up to the windows nobody checks? | 3 leaves, 2 types, 3 days | 622,556 |
| `parent_links` | Does the parent have the link that is stored, unless the request was served without a message; does the job wait for it; does every request end? | 2 workers, the first request and one resend, 2 deliveries each | 2.45 million |
| `notifications` | Does done mean sent, are logged sends repeated, are healthy recipients reached beside a dead one? | 2 workers, 3 recipients, 2 plans, 4 attempts, 3 passing troubles | 68,000 |
| `breaker` | Is a probe always under way, are probes bounded, are trips earned, does it recover? | 3 callers, threshold 2, 1 probe, 1 retry | 630 |
| `batch_jobs` | Do runs end, does the backlog clear, does a deleted document leave a file? | 3 rows in batches of 2, any set of them stuck or without a key, 2 mishaps | 67,406 |
| `config_versions` | Does a leave refer to what it ran under, is the latest version the one in force? | 2 saves of the type and 2 submissions at a time, 2 editions of each kind | 168,000 |
| `user_roles` | Does a super admin remain, does everybody have what was asked for? | 2 people, 2 hostels, 2 requests at a time | 523,881 |

### The properties

*Outbox.* `BudgetAccounting`: every hand-over of a row to a run is paid for from
its retry budget, except a claim that is still open. `LiveClaimHonoured`: while
a lease runs, only the run that holds it moves the row. `RefinesDelivery`: the
promise of `EventDelivery`, which includes that a settled row is final and that
a processed one was sent or withdrawn. `NothingStranded`: every queued event is
settled or dead in the end.

*Leave.* `LeaveHasTurn`: a pending leave waits at an undecided step that is not
automatic, with everything before it settled. `ExtensionHasTurn`: the same for
an extension. `ApprovedByAll`: no approved leave has an undecided step; only one
reopened after a rejection may have cancelled ones. `WindowMovesByApproval`: the
end moves only together with an open extension that becomes approved, and to
the end it asked for. `PassCoversLeave`: the window of a pass in use ends with
the leave's. `OutCanReturn`: a student who is out on a live leave holds the
pass to come back with. `RefinesLifecycle`: what `LeaveLifecycle` promises; a
pass the gate accepts belongs to a live leave, and an ended leave stays ended.

*Gate.* `OneSession`, `SessionIsOut`: a student has one open session at most and
is outside while it is open, up to a movement that overlooks a session (the
history `slips` records it; section 6, item 5). `CredentialBacked`: a pass that
opens the gate belongs to a leave that can still be completed, but for a manual
return that completed a leave approved after it had looked for its pass.
`EndedStaysEnded`: an ended leave changes its status only by the staff's overdue
mark, when it has read the leave as APPROVED before. `RefinesPresence`: the
student goes out from inside, with no other session, on a live leave; he comes
in with his session closed; no leave ends with its session open; the races that
may break this are in the promise. `DailyReturnsBounded`: the limit of returns a
day is passed only by the scans that were under way together.

*Overlap.* `OverlapIsUnseen`: two leaves of one type overlap only after a
recovery or a parent's approval of an extension, which ask nobody, or if neither
of two transactions at once could see the other.

*Parent.* `RequestReachesParent`: once every request is served, a parent who is
still to answer has received the stored link, unless the last request was
served without a message. `JobWaitsForTheLink`: the job
never expires a leave for a link whose time has not passed. `PendingEnds`.

*Notifications.* `DoneMeansSent`, `LoggedIsNotRepeated`, `HealthyAreReached` as
in the table above.

*Breaker.* `ProbeUnderWay`, `ProbesBounded`, `TripIsEarned`,
`RecoversWithProvider`.

*Jobs.* `RunEnds` is stated for the jobs that remember what they have tried and
`BacklogClears` for fewer stuck rows than a batch holds; beyond either the code
does not keep it (section 6). `DeletedIsGone`: no file behind a deleted
document whose address gives a key to remove it by.

*Configuration.* `RanUnderAVersion`: the workflow and the policies a leave ran
under are recorded no later than the version it refers to. `LatestIsInForce`:
the last version is the one in force, unless two saves of a leave type met.

*Roles.* `SuperAdminRemains`: unless two of them were allowed to take the role
from two super admins before either had. `RolesAsAsked`: everybody has the
roles, for the hostels, last asked for, but for a role widened from hostels to
all.

### Bounds, and why they suffice

* **Outbox.** Every race is between a run and another that took its row, or its
  list, away; `Workers` counts runs live at the same time, and one that ends can
  start again. Two rows: one beside the one under attention, so that a batch is
  partly handled. `MaxRetries = 2` gives a first attempt, a retry and an
  exhausted budget; `AttemptCap = 3` lets the counters pass the budget by one,
  where a miscount would show. `MaxCrashes = 1`: more only repeats what one
  leaves, a stale row. `Grace = 2`: longer than a lease, as in the code.
* **Leave.** Three steps are the least with something before, at and behind a
  current step; `leave_auto` has four, so that automatic steps stand in front of
  and behind the parent's and a person still decides last, as the code needs.
  Two extensions are enough for a race between two requests or between a request
  and a cancellation. Three ends allow an extension of an extension.
  `MaxExtensions` is 1 where the limit is meant to refuse and 3 where it is not.
  One cancellation, one completion job and one overdue job are between their two
  statements at a time; different ones may overlap.
* **Gate.** Two leaves one after the other, the second recurring, are the least
  with a session of one while the other's events arrive late; two scans at once
  are the least that pass a check together. Five half days take both leaves to
  their ends and the first beyond. No new half day begins inside the transaction
  of a return scan, which takes the time once, and the staff do one operation at
  a time.
* **Overlap.** An overlap is of two leaves; the third lets a pair be judged by
  somebody else's check. Three days hold two leaves apart and an extension that
  reaches the other.
* **Links.** One resend makes two links, the second of which replaces the
  first; two deliveries of each make every kind of repetition. The clock of
  three units outlives a link and reaches the leave's end.
* **Notifications.** Three recipients put somebody before and behind the one
  who is down; one plan has the same recipient twice, in two rules.
* **Breaker.** Three callers: one left over from before the opening, one probe,
  one refused. **Jobs.** Three rows are more than a batch and leave one behind.
* **Configuration.** Two editions make an older and a newer version; **roles**:
  two super admins are the least that remove each other, two hostels the least
  that can be exchanged.
* `CHECK_DEADLOCK FALSE` where everything may come to rest: a leave, a gate or a
  plan that has ended, a bounded number of editions, accounts that are all
  deactivated. The outbox, the breaker and the jobs are checked for deadlock.
* Symmetric sets are used in safety runs only; runs with liveness use none.

### Abstractions to keep in mind

* A transaction that locks first is atomic, up to the reads and writes the
  models keep apart. The database's row locks are taken as given; that two may
  be taken in opposite orders (`parent-approve-decision.service.ts:121` against
  `cancel-leave.service.ts:83`) ends in an abort of one, which every model has
  as a refused call.
* `LeaveWorkflow` has no clock. What the code allows only within a window, it
  allows while the leave is live; what it allows only after the end (expiry,
  completion, the overdue job) it allows at any time. This is wider than the
  code for safety. `GateMovement` has the clock.
* Who may call an operation is left out except in `UserRoles`: anybody may ask,
  in any order.
* `claimNext` may take any eligible rows up to its limit: the order by
  `created_at` is left out.

## 4. Fairness

People are never fair: no liveness is claimed for a leave, which may wait for an
approver until the job expires it.

* `Outbox` (`outbox_liveness`): strong fairness of `StartPass(w)`, the host's
  timer (`services/cron/retry-outbox.job.ts`, a cron route) – strong, because in
  the model a run that serves an admin's nudge is busy and would keep the
  timer's pass of the same run from starting, while in the code the two are
  separate requests; weak fairness of `RunStep(w)`, a started run goes on until
  it ends or crashes (`Crash` is bounded and not fair); weak fairness of `Tick`.
  Nothing is assumed of publishers, cancellations, the purge, or of a handler
  ever succeeding.
* `ParentLinks`: time passes, and the expiry job runs again and again and
  finishes what it decides (`Tick`, `JobFindsEnded`, `Expire`). Nothing of
  workers, parents or staff: `PendingEnds` holds although no link ever arrives.
  Stated for a type with a pass; the job leaves the others out by design
  (`leave.repository.ts:278`).
* `NotificationDelivery`: the cron job claims what is due and a worker that runs
  gets on (`Claim`, `Run`). Troubles that pass are bounded by `MaxTroubles`,
  fewer than the attempts.
* `CircuitBreaker`: a running call ends, because a fetch has a deadline and a
  sleep ends; the cooldown passes; messages keep being sent.
* `BatchJobs`: the scheduler starts runs, and a run that has not died goes on
  (`StartRun`, `Work`).

## 5. Proofs

`tlapm` checks every leaf of the following, with no bound on rows, runs, steps,
extensions, leaves, callers or days.

| Theorem | States | Assumes |
|---|---|---|
| `OutboxProofs!TypeCorrect` | `[]TypeOK` | – |
| `OutboxProofs!ProcessedStays` | `ProcessedIsFinal` | – |
| `OutboxProofs!ProcessedSent` | `[]ProcessedWasSent` | – |
| `OutboxProofs!LiveClaimsHonoured` | `LiveClaimHonoured` | – |
| `OutboxProofs!BudgetKept` | `[]BudgetAccounting` | – |
| `OutboxProofs!OutboxImplementsDelivery` | `RefinesDelivery` | – |
| `LeaveProofs!TypeCorrect` | `[]TypeOK` | – |
| `LeaveProofs!PassEndsWithLeave` | `[]PassBacked` | – |
| `LeaveProofs!WindowFollowsLeave` | `[]PassCoversLeave` | – |
| `LeaveProofs!NobodyStranded` | `[](~ReturnOnly(leave) => OutCanReturn)` | – |
| `LeaveProofs!WorkflowImplementsLifecycle` | `RefinesLifecycle` | – |
| `LeaveProofs!EndIsFinal` | `EndedStaysEnded` of `LeaveWorkflow` | – |
| `LeaveProofs!WindowIsAskedFor` | `WindowMovesByApproval` | – |
| `LeaveProofs!SomebodyHasTheTurn` | `[]LeaveHasTurn` | – |
| `LeaveProofs!NoStepSkipped` | `[]ApprovedByAll` | – |
| `LeaveProofs!ExtensionsInTurn` | `[]ExtensionHasTurn` | `AutoSteps = {}` |
| `MovementProofs!TypeCorrect` | `[]TypeOK` | – |
| `MovementProofs!SessionsAreOut`, `SessionIsTheOnlyOne` | `[]SessionIsOut`, `[]OneSession` | – |
| `MovementProofs!CredentialsAreBacked` | `[]CredentialBacked` | – |
| `MovementProofs!ReturnsAreBounded` | `[]DailyReturnsBounded` | – |
| `MovementProofs!GateKeepsPresence` | `RefinesPresence` | – |
| `MovementProofs!StudentIsAccountedFor` | `[]Accounted` of `StudentPresence` | – |
| `MovementProofs!EndIsFinal` | `EndedStaysEnded` of `GateMovement` | – |
| `OverlapProofs!TypeCorrect`, `GuardKeepsApart` | `[]TypeOK`, `[]OverlapIsUnseen` | – |
| `NotificationProofs!TypeCorrect`, `DoneIsSent`, `LoggedOnce` | `[]TypeOK`, `[]DoneMeansSent`, `[]LoggedIsNotRepeated` | – |
| `LinkProofs!TypeCorrect`, `ParentHasTheLink` | `[]TypeOK`, `[]RequestReachesParent` | – |
| `LinkProofs!JobWaits` | `JobWaitsForTheLink` | – |
| `ServiceProofs!TypeCorrect`, `ProbeIsUnderWay`, `ProbesAreBounded` | `[]TypeOK`, `[]ProbeUnderWay`, `[]ProbesBounded` of `CircuitBreaker` | – |
| `ServiceProofs!TripsAreEarned` | `TripIsEarned` | – |
| `ServiceProofs!DeletedFilesAreGone` | `[]DeletedIsGone` of `BatchJobs` | – |
| `AdminProofs!SuperAdminStays`, `RolesAreAsked` | `[]SuperAdminRemains`, `[]RolesAsAsked` | – |
| `AdminProofs!LeavesRanUnderVersions` | `[]RanUnderAVersion` of `ConfigVersions` | – |
| `AdminProofs!LastVersionIsInForce` | `[]LatestIsInForce` of `ConfigVersions` | – |

All of them rest on the named assumptions of the modules about their constants,
which TLC evaluates in every run. Two theorems have a condition of their own:
with automatic steps `ExtensionHasTurn` is false, and for return-only types
`OutCanReturn` is (section 6).

**The outbox argument.** `ProcessedWasSent` is not inductive: a run about to
report success must have sent. `SentInv` adds `SentWhenSucceeded`, that held
rows exist and that only processed rows are marked withdrawn. `BudgetAccounting`
needs to know that a FAILED row of this release has no budget left, so that a
pass finds none but rows of an earlier one to reset (`ExhaustedFailed`,
`NothingToReset`), and that the history counter stays below its cap. Of a row
of an earlier release neither the accounting nor the refinement is claimed: it
may be FAILED with budget left, and while a list of such rows is worked off,
another run may reset, claim and exhaust one, which the stale list then resets
once more. The refinement maps each statement to one abstract step on the rows
of this release it touches (`MovedRows`), or to a stutter when it touches none.
For `LiveClaimHonoured` the lemma `ReleaseStep` goes through the statements that
change a row: recovery asks for a lease that has run out, the others for the
claim of the run that reports, and that run then lets go of the row, because it
never holds it twice (`HandsApart`).

**The gate argument.** `GateInv` strengthens `PassBacked` and `PassCoversLeave`
by what makes them inductive: a pass exists only for a type that has one (or
the completion job, which retires none, would leave one behind); nobody is out
before the leave is approved (or an approval would find a student outside with
a fresh, unscanned pass); a student who is out on a type with an exit pass has
scanned it; an extension that has been asked for names an end. The lemma
`KindStep` shows that every action is of one of a few kinds,
described by status, end, pass and location only; the invariant, the
refinement and the two action properties are then proved of the kinds.

**The turn argument.** A chain runs only where a step is left that a person
decides, or where nothing is left (`CanRun`); the lemmas about `RunFrom` hold
without it, so the theorems do not lean on what the code cannot do. `TurnInv`
adds the one fact an override depends on: a rejected leave has exactly one
rejected step and all undecided ones come after it (`OneRefusal`). Then
approving the earliest actionable step and walking from the start
(`RunFromTurn`, `WalkedInOrder`) cannot pass over an undecided one.

**The movement argument.** Three parts of the invariant say what the calls
between two statements still know. `CallsRead`: a checkout has read a student
who is in, an overdue mark one who is out. `EndingHolds`: a
cancellation or expiry holds a leave that has not ended and whose pass is not in
use, which stays so because every movement on the leave waits for it.
`ScansHold`: the leave a return scan has checked and holds can still be
completed when it moves the student; of the other passes the scan knows nothing
any more, hence `crossedReturn`. Opening a session needs the student
inside, which by `SessionIsOut` leaves no other session open. For the returns of
a day the returns and the scans under way together are bounded (`TapsCounted`).
The refinement needs that a leave has no pass before its approval
(`PendingUnissued`). Each action is then a step of the promise: it moves the
student, begins or ends a leave, does two of these at once, or is a stutter
(`GoesOut`, `ComesIn`, `LeaveBegins`, `EndsElsewhere`, `StaysPut`). The promise
is stronger than the invariants: it says with which step a session may open,
close or be left open.

**The overlap argument.** A leave claims its days from the check of its
creation on, and those of its extension from the check of its approval on
(`Claimed`, `Reach`). `Apart` says the property of claims; it is inductive, for
every check is made against all claims but those of transactions under way,
and these are exactly the pairs that are put into `unseen`. A window that is
moved without a check puts in the pairs with every other leave that has one or
is getting one (`RecoverKeeps`, `WidenByParentKeeps`).

**The notification argument.** A worker without a failure has seen to every
recipient it has passed, by a send or by a row of the log, which stands for a
send (`Covered`); what a worker may find in the log only grows (`Began`).

**The breaker argument.** `Counting` relates the counters of the entry to the
history in each state: an open breaker has let nobody through, a half-open one
as many as it has counted, a closed one counts failures since it closed. Every
result that arrives in a half-open state moves it, so the last call to return
cannot leave it half open.

**The role argument.** A request that may take the role from a super admin knows
of another one, unless one has lost the role since it was allowed to
(`KnowAnother`); that needs the row lock, which keeps two transactions off one
account (`RowsHeld`), and that a new account has no roles to lose (`Unborn`).
What an update leaves in the table is then computed once, for every input and
every table without a role that is both limited and for all (`Replaced`,
`Shapes`).

**The link argument.** Three facts travel together (`ReceivedInv`): a link
stored with an expiry, and one a worker has sent and not yet stored, has been
received, unless the leave was cancelled; and while the parent is to answer, he
has the link that is stored, or an event that asks for one is due or has failed.
Each of them excepts a request that was served without a message (`quiet`),
which a worker with a link it has not sent is about to set; such a link has no
token yet, so nothing is known of it (`NoTokenYet`). The job needs to tell links
apart: a token is minted once and belongs to one link (`TokensMinted`,
`OneLinkPerToken`), so a verdict of the job names a link whose time had passed
when the list was read (`JobVerdicts`) and keeps naming that one, whatever is
sent later.

**The job argument.** A file is removed only by somebody who has found its
document's row, and a document that has a row gets no second upload, so that a
file removed before the row is marked stays removed (`FilesFollow`). The fact is
claimed of the documents with a key only.

**The configuration argument.** Versions only grow, so what is recorded stays
recorded (`RecordsGrow`). A submission reads the edition of the policies and of
the workflow before the number of their versions; since an edition of these is
saved with its version, what it has read is recorded from then on
(`RecordedNow`), and is below the number it reads later (`RecordedThen`). For
the leave type `SavesAlone` says that a save that has met no other still copies
what is in force; that the last save met another is in `disturbed`.

**Only model-checked:** liveness (`NothingStranded`, `PendingEnds`,
`HealthyAreReached`, `RecoversWithProvider`, `RunEnds`, `BacklogClears`), which
is beyond the prover.

## 6. Read in the code

Where the code and what is written about it part. The properties are stated up
to these, each by a named exception or condition.

1. *Two super admins at once.* The guard "never remove the last super admin"
   (`update-user.service.ts:50`) reads the others outside of the transaction:
   two who take the role from each other leave none (`raced` in `UserRoles`).
   Deactivation has no such guard at all (`deactivate-user.service.ts:9`).
2. *A role widened to all hostels is lost.* `replaceRoles` keeps the limited
   row, `replaceRoleScopes` deletes it, and nobody adds the global one
   (`user.repository.ts:505`), against "Empty hostelIds means 'all hostels',
   which stays a global row" (`update-user.service.ts:65`) and the form's
   "Unchecked = access to all hostels" (`UserForm.tsx:255`); `widened`.
3. *Overlap after a recovery.* `superadminOverrideLeave` brings a rejected leave
   back without asking `assertNoConflictingOverlap`
   (`superadmin-override.service.ts:74`), against
   `docs/architecture/17-failure-modes-and-recovery.md:55`; a parent who decides
   the last step of an extension moves the end without asking either
   (`parent-approve-decision.service.ts:454`), with nobody else at work; and the
   staff's approval of an extension asks without the student's lock. All three
   are in `unseen`.
4. *A movement lost with its notifications.* The leave handler throws for a
   failed notification before it comes to `recordMovement`
   (`leave-event.handler.ts:390`, 571): when the attempts are used up the
   student is never brought in, against "Zero business state loss"
   (`17-failure-modes-and-recovery.md:17`).
5. *A movement behind a session's back.* A late LEAVE_CANCELLED or LEAVE_EXPIRED
   of a return-only leave, or its cancellation, brings in a student who by then
   is out on another leave (`leave-event.handler.ts:528`,
   `cancel-leave.service.ts:199`); `blindMove` in `GateMovement`. A return that
   has looked for an open session before a checkout on another leave opened one
   brings him in past it: a return scan between `scan-qr.service.ts:776` and
   796, a manual return between its reads and its transaction; `crossedReturn`.
   A further checkout then gives him two open sessions.
6. *Ended leaves that move, and passes that stay.* The staff's overdue mark
   writes OVERDUE over an end that came after it read the leave
   (`mark-overdue.service.ts:66`). A manual return looks for the pass of its
   leave (`manual-return.service.ts:79`) before it locks the leave, and may
   complete one that was approved in between, whose pass stays usable
   (`overlookedPass`).
7. *Versions of leave types.* Row and version are separate statements
   (`update-leave-type.service.ts:58`): of two saves at once the older may get
   the last version; `disturbed` in `ConfigVersions`. The fields an update
   leaves out are taken from an earlier read (lines 23-30), so that two updates
   may undo each other.
8. *Jobs that spin.* The batch loops of expire, overdue and auto-complete list
   the same failing rows again (`expire-leave.service.ts:176`,
   `mark-overdue-leave.service.ts:164`, `auto-complete-non-qr.service.ts:45`),
   which the clean-up jobs avoid; a full batch of failing rows keeps every other
   row waiting in all of them.
9. *A resend shortens the link.* Between a resend and the new link the old one
   still finds its row, with an expiry in the past: opening it expires the leave
   (`parent-approve-decision.service.ts:60`, `docs/roles/parent.md:25`).
10. *Stale lists.* `expireOverdueLeaves` and the overdue job check the status
    again, the end not (`expire-leave.service.ts:188`,
    `mark-overdue-leave.service.ts:63`): an extension approved meanwhile is
    overlooked.
11. *Rejection through `approveLeave`* leaves the later approvals PENDING
    (`approve-leave.service.ts:106`); `rejectLeave` cancels them and says why.
12. *Override without a pass.* The override that decides the last step approves
    the leave without issuing its pass (`superadmin-override.service.ts:144`,
    against `docs/movement-contract.md:74`).
13. *Extensions.* Two concurrent requests are both created
    (`create-extension.service.ts:194`); one created between the locks of a
    cancellation or of the completion job stays PENDING on the ended leave
    (`cancel-leave.service.ts:83`, `auto-complete-non-qr.service.ts:86`), where
    its approval is refused; one whose workflow ends with an automatic step is
    approved at creation with no step decided (`create-extension.service.ts:375`);
    one may shorten a window that another has widened
    (`approve-extension.service.ts:176`).
14. *Return-only passes.* One can be invalidated while its student is out, for
    the guard reads `firstScanAt` (`invalidate-qr.service.ts:55`); its approval
    writes the student's location (`qr-pass-lifecycle.service.ts:80`, against
    `docs/movement-contract.md:91-92`); an invalidated exit pass can be re-issued
    as a return pass and used without an exit (`generate-qr.service.ts:86`,
    against T5, line 77).
15. *The retry budget.* A lease that expires between `failStuckProcessing` and
    `requeueStuckProcessing` puts a row without budget back to PENDING
    (`retry-outbox.job.ts:38`); `markForRetry` checks the status only, so a row
    another run has exhausted since it was listed is reset
    (`outbox.repository.ts:376`).
16. *Refused numbers.* A message the provider refuses counts as a failure of the
    provider (`infobip.ts:117`): a few wrong numbers open the breaker.
17. *A last automatic step.* Where an AUTO step ends the workflow of a leave, its
    approval is recorded with the actor `"SYSTEM"`
    (`workflow-activation.service.ts:101`), while `audit_logs.actor_user_id` is a
    uuid that refers to a user (`db/schema/audit.ts:28`): the insert fails and
    with it the submission or decision that got there, against "If there are no
    further steps, transitions the leave to APPROVED and issues the QR pass"
    (`workflow-activation.service.ts:42`). A workflow
    of AUTO steps alone, such as the seeded one for holidays
    (`db/seed/workflows.seed.ts:70`), lets no leave be submitted.
18. *Requests that reach nobody.* A leave whose student has no parent, or none
    with a phone, waits for the parent without a link: the handler swallows the
    error and the event is PROCESSED (`leave-event.handler.ts:448`). Without an
    enabled rule or a recipient the notification counts as sent
    (`notification.service.ts:623`, 756) and the hash of a link that went
    nowhere is stored. Only a resend or the expiry ends it (`quiet`).
19. *Documents without a key.* Where the address of a document gives no object
    key (`lib/s3.ts:157`), both ways to delete it mark the row DELETED and leave
    the file (`cleanup-documents.job.ts:72`, `delete-document.service.ts:43`),
    against the comment at `delete-document.service.ts:47`; `keyless`.

## 7. What is not modelled

*Of the modelled components:* documents required by special leaves, the policy
verdict on a request, re-issued passes beside a second leave, the preview of a
scan; notification templates, preferences and the choice of recipients; deletion
and contents of configuration; names, e-mail and phone numbers of accounts;
requests the user form does not send (the API also accepts hostels for a super
admin, `UserRoles` does not); of the outbox `createMany`, `markProcessing` and
`findPending` (nothing calls them), the idempotency key and the order of rows;
backoff times.

*Other components:* the rate limiter is one upsert; the policy engine is a pure
evaluation before anything is written; questions, master data, audit and
analytics are single statements or queries; reconciliation is a script for rows
of earlier releases. Authorization checks, object storage, providers and the
web client decide nothing the services coordinate on: pages and forms, which
are the larger part of the repository's lines, keep no state the services read.

## 8. Plan

1. **RowLocks** – the orders in which transactions lock leave, extension and
   approval rows.
2. **Policy** – rule evaluation as operators against a reference definition, and
   **RateLimiter**, a window that is reset while attempts arrive.
3. **LeaveTypeFields** – the lost update of section 6, item 7, as a property of
   fields.
4. Composition of `GateMovement` with re-issued passes and with extensions,
   which now are in `LeaveWorkflow` alone.
