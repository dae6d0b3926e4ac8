------------------------------- MODULE Outbox -------------------------------
(***************************************************************************)
(* The transactional outbox: the table outbox_events, the workers that     *)
(* drain it (runRetryOutboxJob on a timer, processPendingEvents from the   *)
(* admin endpoint) and the retention purge.  One action per SQL statement, *)
(* so that two workers interleave between any two of them.                 *)
(*                                                                         *)
(* A row's instants are kept as the minutes still to run: `timer' is the   *)
(* time left to nextAttemptAt while PENDING, to the end of the lease while *)
(* PROCESSING (to the end of the grace period for a row without a lease),  *)
(* and to the retention cutoff once PROCESSED.  The pair (claimedAt,       *)
(* leaseExpiresAt) serves only to tell one claim from another; `claim'     *)
(* names the worker run that wrote it, and NoClaim stands for NULL.  A run *)
(* claims once, so the pair and the run determine each other.              *)
(***************************************************************************)
EXTENDS Integers, FiniteSets

CONSTANTS
  Events,        \* rows of outbox_events, by id
  Workers,       \* worker runs that may be live at once
  Unhandled,     \* events whose type getHandler does not know
  Cancellable,   \* events a leave cancellation may withdraw
  Legacy,        \* rows left by a release without leases and budgets
  MaxRetries,    \* MAX_RETRIES
  BatchSize,     \* limit of claimNext
  Lease,         \* length of a claim
  BackoffCap,    \* cap of the retry backoff
  Grace,         \* grace period of a PROCESSING row without a lease
  Retention,     \* OUTBOX_PROCESSED_RETENTION_HOURS
  AttemptCap,    \* bound: attempt counters saturate here
  MaxCrashes     \* bound: crashes in a behaviour

ASSUME OutboxAssumption ==
  /\ Unhandled \subseteq Events /\ Cancellable \subseteq Events
  /\ Legacy \subseteq Events
  /\ {MaxRetries, BatchSize, Lease, BackoffCap} \subseteq Nat \ {0}
  /\ {Grace, Retention, MaxCrashes, AttemptCap} \subseteq Nat
  /\ AttemptCap > MaxRetries

NoClaim == "none"

ASSUME NoClaimAssumption == NoClaim \notin Workers

VARIABLES
  rows,        \* the table: one record per row
  pc,          \* what each worker run does next
  pass,        \* what a drain pass remembers between its statements
  batch,       \* claimed rows not yet handled, with their attempt count
  cur,         \* the claimed row whose handler has ended, if any
  candidates,  \* ids the purge has selected and not yet deleted
  crashes,     \* crashes so far
  sent,        \* history: a handler of the event has succeeded
  claims       \* history: how often the row was handed to a worker

vars == <<rows, pc, pass, batch, cur, candidates, crashes, sent, claims>>
history == <<sent, claims>>

Statuses == {"ABSENT", "PENDING", "PROCESSING", "PROCESSED", "FAILED", "PURGED"}
Row == [status: Statuses, attempt: Nat, claim: Workers \cup {NoClaim},
        timer: Nat, cancelled: BOOLEAN]
Claim == [id: Events, attempt: Nat]
(* The counts read first (were there PENDING, FAILED rows?), whether the    *)
(* pass has put a row back to PENDING, the FAILED rows found to reset.     *)
Pass == [pending: BOOLEAN, failed: BOOLEAN, recovered: BOOLEAN,
         todo: SUBSET Events]
Steps == {"idle", "failStuck", "requeueStuck", "findFailed", "reset", "claim",
          "drain", "succeeded", "threw"}

TypeOK ==
  /\ rows \in [Events -> Row]
  /\ pc \in [Workers -> Steps]
  /\ pass \in [Workers -> Pass]
  /\ batch \in [Workers -> SUBSET Claim]
  /\ cur \in [Workers -> SUBSET Claim]
  /\ candidates \subseteq Events
  /\ crashes \in Nat
  /\ sent \in [Events -> BOOLEAN]
  /\ claims \in [Events -> Nat]

-----------------------------------------------------------------------------
NoPass == [pending |-> FALSE, failed |-> FALSE, recovered |-> FALSE, todo |-> {}]

NewRow(status) == [status |-> status, attempt |-> 0, claim |-> NoClaim,
                   timer |-> 0, cancelled |-> FALSE]

(* A row of an earlier release: FAILED with budget left, or PROCESSING     *)
(* with neither claim nor lease.                                           *)
LegacyRow == {NewRow("FAILED"), [NewRow("PROCESSING") EXCEPT !.timer = Grace]}

Init ==
  /\ rows \in [Events -> {NewRow("ABSENT")} \cup LegacyRow]
  /\ \A e \in Events : e \in Legacy <=> rows[e].status # "ABSENT"
  /\ pc = [w \in Workers |-> "idle"]
  /\ pass = [w \in Workers |-> NoPass]
  /\ batch = [w \in Workers |-> {}]
  /\ cur = [w \in Workers |-> {}]
  /\ candidates = {}
  /\ crashes = 0
  /\ sent = [e \in Events |-> FALSE]
  /\ claims = [e \in Events |-> 0]

PlusOne(n) == IF n < AttemptCap THEN n + 1 ELSE n

Lesser(m, n) == IF m <= n THEN m ELSE n

(* Minutes to the next attempt, doubling with the number of attempts.      *)
Doubling == <<1, 2, 4, 8, 16>>
Backoff(attempts) == Lesser(Doubling[Lesser(attempts, 5)], BackoffCap)

(* Mutant: the recovery forgets rows without a lease. *)
StaleLeaseOnly(r) == r.status = "PROCESSING" /\ r.claim # NoClaim /\ r.timer = 0

(* staleProcessingGuard *)
Stale(r) == r.status = "PROCESSING" /\ r.timer = 0

(* Mutant: the status guard alone, without the compare-and-set. *)
OwnsAnyClaim(w, r) == r.status = "PROCESSING"

(* processingClaimGuard *)
Owns(w, r) == r.status = "PROCESSING" /\ r.claim = w

(* Mutant: a crashed attempt costs nothing. *)
RequeuedForFree(r) == [r EXCEPT !.status = "PENDING", !.claim = NoClaim, !.timer = 0]

Requeued(r) ==
  [r EXCEPT !.status = "PENDING", !.attempt = PlusOne(@), !.claim = NoClaim,
            !.timer = 0]
Released(r) ==
  [r EXCEPT !.status = "PENDING", !.attempt = PlusOne(@), !.claim = NoClaim,
            !.timer = Backoff(r.attempt + 1)]
Failed(r) ==
  [r EXCEPT !.status = "FAILED", !.attempt = MaxRetries, !.claim = NoClaim,
            !.timer = 0]
Processed(r) ==
  [r EXCEPT !.status = "PROCESSED", !.claim = NoClaim, !.timer = Retention]
Withdrawn(r) ==
  [r EXCEPT !.status = "PROCESSED", !.claim = NoClaim, !.timer = Retention,
            !.cancelled = TRUE]
Claimed(w, r) ==
  [r EXCEPT !.status = "PROCESSING", !.claim = w, !.timer = Lease]
Purged(r) == [r EXCEPT !.status = "PURGED"]
Older(r) == [r EXCEPT !.timer = IF @ > 0 THEN @ - 1 ELSE 0]

(* UPDATE ... WHERE: every row of S becomes F(row). *)
UpdateWhere(S, F(_)) ==
  rows' = [e \in Events |-> IF e \in S THEN F(rows[e]) ELSE rows[e]]

-----------------------------------------------------------------------------
(* outboxService.publish, inside a business transaction. *)
Publish(e) ==
  /\ rows[e].status = "ABSENT"
  /\ rows' = [rows EXCEPT ![e] = NewRow("PENDING")]
  /\ UNCHANGED <<pc, pass, batch, cur, candidates, crashes, history>>

(* outboxRepository.cancelPendingByAggregateIds, inside cancelLeave. *)
CancelPending(S) ==
  LET hit == {e \in S : rows[e].status = "PENDING"} IN
  /\ hit # {}
  /\ UpdateWhere(hit, Withdrawn)
  /\ UNCHANGED <<pc, pass, batch, cur, candidates, crashes, history>>

-----------------------------------------------------------------------------
(* One pass of runRetryOutboxJob. *)

AfterReset(p) == IF p.pending \/ p.recovered THEN "claim" ELSE "idle"

AfterRecovery(p) == IF p.failed THEN "findFailed" ELSE AfterReset(p)

(* The pass goes on with step `next' and remembers p as long as it needs it. *)
Proceed(w, p, next) ==
  /\ pc' = [pc EXCEPT ![w] = next]
  /\ pass' = [pass EXCEPT ![w] = IF next \in {"claim", "idle"} THEN NoPass ELSE p]

(* getActiveStatusCounts, and the early return when nothing is active. *)
StartPass(w) ==
  LET some(st) == \E e \in Events : rows[e].status = st
      p == [NoPass EXCEPT !.pending = some("PENDING"), !.failed = some("FAILED")]
  IN
  /\ pc[w] = "idle"
  /\ some("PENDING") \/ some("PROCESSING") \/ some("FAILED")
  /\ Proceed(w, p, IF some("PROCESSING") THEN "failStuck" ELSE AfterRecovery(p))
  /\ UNCHANGED <<rows, batch, cur, candidates, crashes, history>>

FailStuck(w) ==
  /\ pc[w] = "failStuck"
  /\ UpdateWhere({e \in Events : /\ Stale(rows[e])
                                 /\ rows[e].attempt >= MaxRetries - 1}, Failed)
  /\ Proceed(w, pass[w], "requeueStuck")
  /\ UNCHANGED <<batch, cur, candidates, crashes, history>>

RequeueStuck(w) ==
  LET stuck == {e \in Events : Stale(rows[e])}
      p == [pass[w] EXCEPT !.recovered = stuck # {}]
  IN
  /\ pc[w] = "requeueStuck"
  /\ UpdateWhere(stuck, Requeued)
  /\ Proceed(w, p, AfterRecovery(p))
  /\ UNCHANGED <<batch, cur, candidates, crashes, history>>

(* Mutant: findFailed without its limit on attempts. *)
FindAllFailed(w) ==
  LET p == [pass[w] EXCEPT !.todo = {e \in Events : rows[e].status = "FAILED"}] IN
  /\ pc[w] = "findFailed"
  /\ Proceed(w, p, IF p.todo # {} THEN "reset" ELSE AfterReset(p))
  /\ UNCHANGED <<rows, batch, cur, candidates, crashes, history>>

FindFailed(w) ==
  LET found == {e \in Events : /\ rows[e].status = "FAILED"
                               /\ rows[e].attempt < MaxRetries}
      p == [pass[w] EXCEPT !.todo = found]
  IN
  /\ pc[w] = "findFailed"
  /\ Proceed(w, p, IF found # {} THEN "reset" ELSE AfterReset(p))
  /\ UNCHANGED <<rows, batch, cur, candidates, crashes, history>>

(* markForRetry of one found row; only the status is checked again. *)
MarkForRetry(w, e) ==
  LET hit == rows[e].status = "FAILED"
      p == [pass[w] EXCEPT !.todo = @ \ {e}, !.recovered = @ \/ hit]
  IN
  /\ pc[w] = "reset" /\ e \in pass[w].todo
  /\ rows' = [rows EXCEPT ![e].status = IF hit THEN "PENDING" ELSE @]
  /\ Proceed(w, p, IF p.todo # {} THEN "reset" ELSE AfterReset(p))
  /\ UNCHANGED <<batch, cur, candidates, crashes, history>>

-----------------------------------------------------------------------------
(* processPendingEvents: from the pass above or from the admin endpoint. *)

Nudge(w) ==
  /\ pc[w] = "idle"
  /\ pc' = [pc EXCEPT ![w] = "claim"]
  /\ UNCHANGED <<rows, pass, batch, cur, candidates, crashes, history>>

(* claimNext: as many eligible rows as the limit allows.  created_at, the   *)
(* order in which they are taken, is left out.  SKIP LOCKED passes over    *)
(* rows that a concurrent statement is changing; that statement then       *)
(* counts as the earlier one.                                              *)
ClaimNext(w) ==
  LET eligible == {e \in Events : rows[e].status = "PENDING" /\ rows[e].timer = 0}
  IN
  /\ pc[w] = "claim"
  /\ \E S \in SUBSET eligible :
       /\ Cardinality(S) = Lesser(Cardinality(eligible), BatchSize)
       /\ UpdateWhere(S, LAMBDA r : Claimed(w, r))
       /\ batch' = [batch EXCEPT ![w] = {[id |-> e, attempt |-> rows[e].attempt] : e \in S}]
       /\ pc' = [pc EXCEPT ![w] = IF S = {} THEN "idle" ELSE "drain"]
       /\ claims' = [e \in Events |-> IF e \in S THEN PlusOne(claims[e]) ELSE claims[e]]
  /\ UNCHANGED <<pass, cur, candidates, crashes, sent>>

(* The loop moves on to the rest of the batch, or the run ends. *)
NextEvent(w, rest) == pc' = [pc EXCEPT ![w] = IF rest = {} THEN "idle" ELSE "drain"]

(* No handler: the whole budget is consumed at once. *)
MarkUnhandled(w, c) ==
  /\ pc[w] = "drain" /\ c \in batch[w] /\ c.id \in Unhandled
  /\ rows' = [rows EXCEPT ![c.id] = IF Owns(w, @) THEN Failed(@) ELSE @]
  /\ batch' = [batch EXCEPT ![w] = @ \ {c}]
  /\ NextEvent(w, batch[w] \ {c})
  /\ UNCHANGED <<pass, cur, candidates, crashes, history>>

(* The handler runs, for any length of time, and succeeds or throws. *)
RunHandler(w, c) ==
  /\ pc[w] = "drain" /\ c \in batch[w] /\ c.id \notin Unhandled
  /\ batch' = [batch EXCEPT ![w] = @ \ {c}]
  /\ cur' = [cur EXCEPT ![w] = {c}]
  /\ \/ /\ pc' = [pc EXCEPT ![w] = "succeeded"]
        /\ sent' = [sent EXCEPT ![c.id] = TRUE]
     \/ /\ pc' = [pc EXCEPT ![w] = "threw"]
        /\ UNCHANGED sent
  /\ UNCHANGED <<rows, pass, candidates, crashes, claims>>

(* The run that claimed row c.id makes it r; a run that lost the claim     *)
(* changes nothing.                                                        *)
Report(w, c, r) ==
  /\ c \in cur[w]
  /\ rows' = [rows EXCEPT ![c.id] = IF Owns(w, @) THEN r ELSE @]
  /\ cur' = [cur EXCEPT ![w] = {}]
  /\ NextEvent(w, batch[w])
  /\ UNCHANGED <<pass, batch, candidates, crashes, history>>

MarkProcessed(w, c) == pc[w] = "succeeded" /\ Report(w, c, Processed(rows[c.id]))

(* markProcessed itself throws: the same catch block takes over. *)
MarkProcessedThrows(w) ==
  /\ pc[w] = "succeeded"
  /\ pc' = [pc EXCEPT ![w] = "threw"]
  /\ UNCHANGED <<rows, pass, batch, cur, candidates, crashes, history>>

MarkFailed(w, c) ==
  pc[w] = "threw" /\ c.attempt + 1 >= MaxRetries /\ Report(w, c, Failed(rows[c.id]))

ReleaseForRetry(w, c) ==
  pc[w] = "threw" /\ c.attempt + 1 < MaxRetries /\ Report(w, c, Released(rows[c.id]))

(* The process dies, or a statement of the catch block throws and ends the *)
(* run: its memory is gone, its claims stay in the table.                  *)
Crash(w) ==
  /\ pc[w] # "idle" /\ crashes < MaxCrashes
  /\ crashes' = crashes + 1
  /\ pc' = [pc EXCEPT ![w] = "idle"]
  /\ pass' = [pass EXCEPT ![w] = NoPass]
  /\ batch' = [batch EXCEPT ![w] = {}]
  /\ cur' = [cur EXCEPT ![w] = {}]
  /\ UNCHANGED <<rows, candidates, history>>

-----------------------------------------------------------------------------
(* runPurgeOutboxJob: findProcessedBefore, then deleteByIdsIfProcessed. *)
PurgeFind ==
  LET aged == {e \in Events : rows[e].status = "PROCESSED" /\ rows[e].timer = 0} IN
  /\ candidates = {} /\ aged # {}
  /\ candidates' = aged
  /\ UNCHANGED <<rows, pc, pass, batch, cur, crashes, history>>

PurgeDelete ==
  /\ candidates # {}
  /\ UpdateWhere({e \in candidates : rows[e].status = "PROCESSED"}, Purged)
  /\ candidates' = {}
  /\ UNCHANGED <<pc, pass, batch, cur, crashes, history>>

(* A minute passes. *)
Tick ==
  /\ \E e \in Events : rows[e].timer > 0
  /\ UpdateWhere(Events, Older)
  /\ UNCHANGED <<pc, pass, batch, cur, candidates, crashes, history>>

-----------------------------------------------------------------------------
(* The steps of a started run. *)
RunStep(w) ==
  \/ FailStuck(w) \/ RequeueStuck(w) \/ FindFailed(w)
  \/ \E e \in Events : MarkForRetry(w, e)
  \/ ClaimNext(w)
  \/ \E c \in batch[w] : MarkUnhandled(w, c) \/ RunHandler(w, c)
  \/ MarkProcessedThrows(w)
  \/ \E c \in cur[w] :
       MarkProcessed(w, c) \/ MarkFailed(w, c) \/ ReleaseForRetry(w, c)

Next ==
  \/ \E e \in Events : Publish(e)
  \/ \E S \in SUBSET Cancellable : CancelPending(S)
  \/ \E w \in Workers : StartPass(w) \/ Nudge(w) \/ RunStep(w) \/ Crash(w)
  \/ PurgeFind \/ PurgeDelete
  \/ Tick

Spec == Init /\ [][Next]_vars

(* The timer of the worker host starts passes again and again, and admin   *)
(* nudges, which are processes of their own, do not stop it: strong        *)
(* fairness, since a model run is busy while it serves a nudge.  A started *)
(* run goes on until it ends or crashes, and time passes.                  *)
Fairness ==
  /\ \A w \in Workers : SF_vars(StartPass(w)) /\ WF_vars(RunStep(w))
  /\ WF_vars(Tick)

FairSpec == Spec /\ Fairness

-----------------------------------------------------------------------------
(* What a row stands for in EventDelivery.  A FAILED row with budget left  *)
(* is still queued: the next pass resets it.                               *)
DeliveryState(r) ==
  CASE r.status = "ABSENT" -> "absent"
    [] r.status \in {"PENDING", "PROCESSING"} -> "queued"
    [] r.status = "FAILED" -> IF r.attempt < MaxRetries THEN "queued" ELSE "dead"
    [] r.status = "PROCESSED" -> IF r.cancelled THEN "withdrawn" ELSE "delivered"
    [] r.status = "PURGED" -> "gone"

(* The rows of this release. *)
Own == Events \ Legacy

Delivery == INSTANCE EventDelivery WITH
  Events <- Own,
  state <- [e \in Own |-> DeliveryState(rows[e])],
  sent <- [e \in Own |-> sent[e]]

(* The outbox keeps the promise of EventDelivery to the events it has      *)
(* published: none is dropped before it is settled and none is settled     *)
(* twice, whatever the workers do and whatever rows are left of an earlier *)
(* release.                                                                *)
RefinesDelivery == Delivery!Spec

Settled(r) == r.status \in {"PROCESSED", "FAILED", "PURGED"}

(* Every hand-over of a row to a worker is paid for from its retry budget: *)
(* the released, requeued and crashed ones are counted in attemptCount, so *)
(* only a claim that is still open is not.  An update that forgets to      *)
(* count a crashed attempt breaks it (outbox.repository.ts requeueStuck).  *)
(* A row of an earlier release may be FAILED with budget left, and a stale *)
(* list then resets it after another run has exhausted it.                 *)
BudgetAccounting ==
  \A e \in Own :
    /\ rows[e].status = "PENDING" => claims[e] <= rows[e].attempt
    /\ rows[e].status = "PROCESSING" => claims[e] <= rows[e].attempt + 1

(* No event counts as processed unless a handler run for it has succeeded  *)
(* or a cancellation withdrew it, whichever run held the claim.            *)
ProcessedWasSent ==
  \A e \in Events :
    rows[e].status = "PROCESSED" /\ ~rows[e].cancelled => sent[e]

(* The run w has reported on its row e, or set it aside as unhandled. *)
Held(w) == batch[w] \cup cur[w]
HandsBack(w, e) == \E c \in Held(w) \ Held(w)' : c.id = e

(* While a lease runs, only the run that holds the claim can move the row  *)
(* out of PROCESSING: not a recovery pass, not a run whose own claim on    *)
(* the same row was lost.                                                  *)
LiveClaimHonoured ==
  [][\A e \in Events :
       rows[e].status = "PROCESSING" /\ rows[e].timer > 0
         /\ rows'[e].status # "PROCESSING"
       => \E w \in Workers : rows[e].claim = w /\ HandsBack(w, e)]_vars

(* PROCESSED is final: a late worker neither reopens a delivered or        *)
(* cancelled row nor turns a cancelled one into a delivered one.           *)
ProcessedIsFinal ==
  [][\A e \in Events : rows[e].status = "PROCESSED"
       => /\ rows'[e].status \in {"PROCESSED", "PURGED"}
          /\ rows'[e].cancelled = rows[e].cancelled]_vars

(* A published event does not stay in limbo: it is settled, or its retry   *)
(* budget is used up, whatever crashes and lost claims it goes through.    *)
NothingStranded ==
  \A e \in Events :
    rows[e].status \in {"PENDING", "PROCESSING"}
      ~> Settled(rows[e]) \/ rows[e].attempt >= MaxRetries
=============================================================================
