---------------------------- MODULE OutboxProofs ----------------------------
(***************************************************************************)
(* Proofs about the outbox for any number of rows and worker runs and any  *)
(* limits: its types, that no row is processed unsent, that a running      *)
(* lease is honoured, the accounting of the retry budget, the finality of  *)
(* PROCESSED, and the refinement of EventDelivery.                         *)
(***************************************************************************)
EXTENDS Outbox, TLAPS

(* The constants one by one, as the provers need them. *)
LEMMA Limits ==
  /\ Unhandled \subseteq Events /\ Cancellable \subseteq Events /\ Legacy \subseteq Events
  /\ MaxRetries \in Nat /\ MaxRetries > 0 /\ BatchSize \in Nat
  /\ Lease \in Nat /\ BackoffCap \in Nat /\ Grace \in Nat /\ Retention \in Nat
  /\ AttemptCap \in Nat /\ AttemptCap > MaxRetries
BY OutboxAssumption

USE Limits, NoClaimAssumption

(* The helper that writes a new row version stays within the types.        *)
LEMMA BackoffType ==
  ASSUME NEW n \in Nat \ {0}
  PROVE  Backoff(n) \in Nat
BY DEF Backoff, Doubling, Lesser

LEMMA RowVersions ==
  ASSUME NEW r \in Row
  PROVE  /\ Requeued(r) \in Row /\ Released(r) \in Row
         /\ Failed(r) \in Row /\ Processed(r) \in Row /\ Withdrawn(r) \in Row
         /\ \A w \in Workers : Claimed(w, r) \in Row
         /\ Purged(r) \in Row /\ Older(r) \in Row
         /\ [r EXCEPT !.timer = Grace] \in Row
<1>1. r.attempt \in Nat /\ r.attempt + 1 \in Nat \ {0}
  BY DEF Row
<1>2. Backoff(r.attempt + 1) \in Nat
  BY <1>1, BackoffType
<1>3. PlusOne(r.attempt) \in Nat
  BY <1>1 DEF PlusOne
<1>4. Requeued(r) \in Row
  BY <1>3 DEF Row, Statuses, Requeued
<1>5. Released(r) \in Row
  BY <1>2, <1>3 DEF Row, Statuses, Released
<1>6. Failed(r) \in Row /\ Processed(r) \in Row /\ Withdrawn(r) \in Row
  BY DEF Row, Statuses, Failed, Processed, Withdrawn
<1>7. ASSUME NEW w \in Workers PROVE Claimed(w, r) \in Row
  BY DEF Row, Statuses, Claimed
<1>8. Purged(r) \in Row /\ Older(r) \in Row /\ [r EXCEPT !.timer = Grace] \in Row
  BY DEF Row, Statuses, Purged, Older
<1>. QED
  BY <1>4, <1>5, <1>6, <1>7, <1>8

(* What each of them writes. *)
LEMMA VersionFields ==
  ASSUME NEW r \in Row
  PROVE  /\ Requeued(r).status = "PENDING" /\ Requeued(r).attempt = PlusOne(r.attempt)
         /\ Released(r).status = "PENDING" /\ Released(r).attempt = PlusOne(r.attempt)
         /\ Failed(r).status = "FAILED" /\ Failed(r).attempt = MaxRetries
         /\ Processed(r).status = "PROCESSED" /\ Processed(r).cancelled = r.cancelled
         /\ Withdrawn(r).status = "PROCESSED" /\ Withdrawn(r).cancelled
         /\ \A w : /\ Claimed(w, r).status = "PROCESSING"
                   /\ Claimed(w, r).attempt = r.attempt
                   /\ Claimed(w, r).cancelled = r.cancelled
         /\ \A q \in {Requeued(r), Released(r), Failed(r)} : q.cancelled = r.cancelled
         /\ Purged(r).status = "PURGED" /\ Purged(r).cancelled = r.cancelled
         /\ Older(r).status = r.status /\ Older(r).attempt = r.attempt
         /\ Older(r).cancelled = r.cancelled
BY DEF Row, Requeued, Released, Failed, Processed, Withdrawn, Claimed, Purged, Older

LEMMA NewRows ==
  ASSUME NEW status \in Statuses
  PROVE  NewRow(status) \in Row
BY DEF NewRow, Row

(* The rows and the locals of every run keep their types, whatever other   *)
(* runs, crashes, cancellations and the purge do.                          *)
THEOREM TypeCorrect == Spec => []TypeOK
<1>1. Init => TypeOK
  <2>1. {NewRow("ABSENT")} \cup LegacyRow \subseteq Row
    BY NewRows, RowVersions DEF LegacyRow, Statuses
  <2>2. NoPass \in Pass
    BY DEF NoPass, Pass
  <2>. QED
    BY <2>1, <2>2 DEF Init, TypeOK, Steps
<1>2. TypeOK /\ [Next]_vars => TypeOK'
  <2>. SUFFICES ASSUME TypeOK, [Next]_vars PROVE TypeOK'
    OBVIOUS
  <2>. USE DEF TypeOK
  <2>1. ASSUME NEW e \in Events, Publish(e) PROVE TypeOK'
    BY <2>1 DEF Publish, NewRow, Row, Statuses, history
  <2>2. ASSUME NEW S \in SUBSET Cancellable, CancelPending(S) PROVE TypeOK'
    BY <2>2, RowVersions DEF CancelPending, UpdateWhere, history
  <2>3. ASSUME NEW w \in Workers, NEW p \in Pass, NEW next \in Steps, Proceed(w, p, next)
        PROVE  pc' \in [Workers -> Steps] /\ pass' \in [Workers -> Pass]
    BY <2>3 DEF Proceed, NoPass, Pass
  <2>4. \A p \in Pass : AfterReset(p) \in Steps /\ AfterRecovery(p) \in Steps
    BY DEF AfterReset, AfterRecovery, Steps
  <2>5. ASSUME NEW w \in Workers, StartPass(w) PROVE TypeOK'
    <3>. DEFINE some(st) == \E e \in Events : rows[e].status = st
                p == [NoPass EXCEPT !.pending = some("PENDING"), !.failed = some("FAILED")]
    <3>1. p \in Pass
      BY DEF NoPass, Pass
    <3>2. (IF some("PROCESSING") THEN "failStuck" ELSE AfterRecovery(p)) \in Steps
      BY <2>4, <3>1 DEF Steps
    <3>. QED
      BY <2>5, <2>3, <3>1, <3>2 DEF StartPass, history
  <2>6. ASSUME NEW w \in Workers, FailStuck(w) PROVE TypeOK'
    <3>1. rows' \in [Events -> Row]
      BY <2>6, RowVersions DEF FailStuck, UpdateWhere
    <3>2. "requeueStuck" \in Steps /\ pass[w] \in Pass
      BY DEF Steps
    <3>. QED
      BY <2>6, <2>3, <3>1, <3>2 DEF FailStuck, history
  <2>7. ASSUME NEW w \in Workers, RequeueStuck(w) PROVE TypeOK'
    <3>. DEFINE p == [pass[w] EXCEPT !.recovered = {e \in Events : Stale(rows[e])} # {}]
    <3>1. rows' \in [Events -> Row]
      BY <2>7, RowVersions DEF RequeueStuck, UpdateWhere
    <3>2. p \in Pass
      BY DEF Pass
    <3>3. AfterRecovery(p) \in Steps
      BY <2>4, <3>2
    <3>. QED
      BY <2>7, <2>3, <3>1, <3>2, <3>3 DEF RequeueStuck, history
  <2>8. ASSUME NEW w \in Workers, FindFailed(w) PROVE TypeOK'
    <3>. DEFINE found == {e \in Events : /\ rows[e].status = "FAILED"
                                         /\ rows[e].attempt < MaxRetries}
                p == [pass[w] EXCEPT !.todo = found]
    <3>1. p \in Pass
      BY DEF Pass
    <3>2. (IF found # {} THEN "reset" ELSE AfterReset(p)) \in Steps
      BY <2>4, <3>1 DEF Steps
    <3>. QED
      BY <2>8, <2>3, <3>1, <3>2 DEF FindFailed, history
  <2>9. ASSUME NEW w \in Workers, NEW e \in Events, MarkForRetry(w, e) PROVE TypeOK'
    <3>. DEFINE hit == rows[e].status = "FAILED"
                p == [pass[w] EXCEPT !.todo = @ \ {e}, !.recovered = @ \/ hit]
    <3>1. rows' \in [Events -> Row]
      BY <2>9 DEF MarkForRetry, Row, Statuses
    <3>2. p \in Pass
      BY DEF Pass
    <3>3. (IF p.todo # {} THEN "reset" ELSE AfterReset(p)) \in Steps
      BY <2>4, <3>2 DEF Steps
    <3>. QED
      BY <2>9, <2>3, <3>1, <3>2, <3>3 DEF MarkForRetry, history
  <2>10. ASSUME NEW w \in Workers, Nudge(w) PROVE TypeOK'
    BY <2>10 DEF Nudge, Steps, history
  <2>11. ASSUME NEW w \in Workers, ClaimNext(w) PROVE TypeOK'
    <3>1. \A e \in Events : Claimed(w, rows[e]) \in Row
      BY RowVersions
    <3>2. \A e \in Events : [id |-> e, attempt |-> rows[e].attempt] \in Claim
      BY DEF Row, Claim
    <3>3. \A e \in Events : PlusOne(claims[e]) \in Nat
      BY DEF PlusOne
    <3>4. PICK S \in SUBSET Events :
            /\ UpdateWhere(S, LAMBDA r : Claimed(w, r))
            /\ batch' = [batch EXCEPT ![w] = {[id |-> e, attempt |-> rows[e].attempt] : e \in S}]
            /\ pc' = [pc EXCEPT ![w] = IF S = {} THEN "idle" ELSE "drain"]
            /\ claims' = [e \in Events |-> IF e \in S THEN PlusOne(claims[e]) ELSE claims[e]]
      BY <2>11 DEF ClaimNext
    <3>5. rows' \in [Events -> Row]
      BY <3>1, <3>4 DEF UpdateWhere
    <3>6. batch' \in [Workers -> SUBSET Claim]
      BY <3>2, <3>4
    <3>7. pc' \in [Workers -> Steps] /\ claims' \in [Events -> Nat]
      BY <3>3, <3>4 DEF Steps
    <3>. QED
      BY <2>11, <3>5, <3>6, <3>7 DEF ClaimNext
  <2>12. ASSUME NEW w \in Workers, NEW c \in batch[w], MarkUnhandled(w, c) PROVE TypeOK'
    BY <2>12, RowVersions DEF MarkUnhandled, NextEvent, Steps, history, Claim
  <2>13. ASSUME NEW w \in Workers, NEW c \in batch[w], RunHandler(w, c) PROVE TypeOK'
    BY <2>13 DEF RunHandler, Steps, Claim
  <2>14. ASSUME NEW w \in Workers, NEW c \in cur[w],
                \/ MarkProcessed(w, c) \/ MarkFailed(w, c) \/ ReleaseForRetry(w, c)
         PROVE  TypeOK'
    <3>1. c \in Claim /\ c.id \in Events
      BY DEF Claim
    <3>2. rows' \in [Events -> Row]
      <4>1. ASSUME MarkProcessed(w, c) PROVE rows' \in [Events -> Row]
        BY <4>1, <3>1, RowVersions DEF MarkProcessed, Report
      <4>2. ASSUME MarkFailed(w, c) PROVE rows' \in [Events -> Row]
        BY <4>2, <3>1, RowVersions DEF MarkFailed, Report
      <4>3. ASSUME ReleaseForRetry(w, c) PROVE rows' \in [Events -> Row]
        BY <4>3, <3>1, RowVersions DEF ReleaseForRetry, Report
      <4>. QED
        BY <2>14, <4>1, <4>2, <4>3
    <3>. QED
      BY <2>14, <3>2 DEF MarkProcessed, MarkFailed, ReleaseForRetry, Report,
                         NextEvent, Steps, history
  <2>15. ASSUME NEW w \in Workers, Crash(w) PROVE TypeOK'
    BY <2>15 DEF Crash, NoPass, Pass, Steps, history
  <2>20. ASSUME NEW w \in Workers, MarkProcessedThrows(w) PROVE TypeOK'
    BY <2>20 DEF MarkProcessedThrows, Steps, history
  <2>16. CASE PurgeFind
    BY <2>16 DEF PurgeFind, history
  <2>17. CASE PurgeDelete
    BY <2>17, RowVersions DEF PurgeDelete, UpdateWhere, history
  <2>18. CASE Tick
    BY <2>18, RowVersions DEF Tick, UpdateWhere, history
  <2>19. CASE UNCHANGED vars
    BY <2>19 DEF vars
  <2>. QED
    BY <2>1, <2>2, <2>5, <2>6, <2>7, <2>8, <2>9, <2>10, <2>11, <2>12, <2>13,
       <2>14, <2>15, <2>16, <2>17, <2>18, <2>19, <2>20 DEF Next, RunStep
<1>. QED
  BY <1>1, <1>2, PTL DEF Spec

-----------------------------------------------------------------------------
(* Everything that can happen to one row in one step. *)

Kept(e) == rows'[e] \in {rows[e], Older(rows[e])}
Born(e) == rows[e].status = "ABSENT" /\ rows'[e] = NewRow("PENDING")
Cancelled(e) == rows[e].status = "PENDING" /\ rows'[e] = Withdrawn(rows[e])
GivenBack(e) ==
  /\ rows[e].status = "PROCESSING"
  /\ rows'[e] \in {Failed(rows[e]), Requeued(rows[e]), Released(rows[e])}
Delivered(e) ==
  /\ rows[e].status = "PROCESSING" /\ rows'[e] = Processed(rows[e])
  /\ \E w \in Workers : pc[w] = "succeeded" /\ \E c \in cur[w] : c.id = e
Reset(e) ==
  /\ rows[e].status = "FAILED" /\ \E w \in Workers : e \in pass[w].todo
  /\ rows'[e] = [rows[e] EXCEPT !.status = "PENDING"]
Forgotten(e) ==
  /\ rows[e].status = "PROCESSED"
  /\ rows'[e] = Purged(rows[e])
HandedOut(e) ==
  /\ rows[e].status = "PENDING"
  /\ \E w \in Workers : rows'[e] = Claimed(w, rows[e])

RowChange(e) ==
  \/ /\ claims'[e] = claims[e]
     /\ \/ Kept(e) \/ Born(e) \/ Cancelled(e) \/ GivenBack(e) \/ Delivered(e)
        \/ Reset(e) \/ Forgotten(e)
  \/ claims'[e] = PlusOne(claims[e]) /\ HandedOut(e)

(* In every step of the table, whichever run takes it, each row is left    *)
(* alone or goes through exactly one of the changes above.                 *)
LEMMA RowStep ==
  ASSUME TypeOK, [Next]_vars
  PROVE  \A e \in Events : RowChange(e)
<1>. SUFFICES ASSUME NEW e \in Events PROVE RowChange(e)
  OBVIOUS
<1>. USE DEF TypeOK, RowChange
<1>1. ASSUME rows' = rows, claims' = claims PROVE RowChange(e)
  BY <1>1 DEF Kept
<1>2. ASSUME NEW f \in Events, Publish(f) PROVE RowChange(e)
  BY <1>2 DEF Publish, Born, Kept, history
<1>3. ASSUME NEW S \in SUBSET Cancellable, CancelPending(S) PROVE RowChange(e)
  BY <1>3 DEF CancelPending, UpdateWhere, Cancelled, Kept, history
<1>4. ASSUME NEW w \in Workers, FailStuck(w) PROVE RowChange(e)
  BY <1>4 DEF FailStuck, UpdateWhere, Stale, GivenBack, Kept, history
<1>5. ASSUME NEW w \in Workers, RequeueStuck(w) PROVE RowChange(e)
  BY <1>5 DEF RequeueStuck, UpdateWhere, Stale, GivenBack, Kept, history
<1>6. ASSUME NEW w \in Workers, NEW f \in Events, MarkForRetry(w, f) PROVE RowChange(e)
  <2>1. claims' = claims /\ f \in pass[w].todo
    BY <1>6 DEF MarkForRetry, history
  <2>2. rows' = [rows EXCEPT ![f].status =
                   IF rows[f].status = "FAILED" THEN "PENDING" ELSE @]
    BY <1>6 DEF MarkForRetry
  <2>3. CASE e = f /\ rows[f].status = "FAILED"
    BY <2>1, <2>2, <2>3 DEF Reset
  <2>4. CASE ~(e = f /\ rows[f].status = "FAILED")
    <3>1. rows'[e] = rows[e]
      BY <2>2, <2>4 DEF Row
    <3>. QED
      BY <3>1, <2>1 DEF Kept
  <2>. QED
    BY <2>3, <2>4
<1>7. ASSUME NEW w \in Workers, ClaimNext(w) PROVE RowChange(e)
  <2>1. PICK S \in SUBSET {f \in Events : rows[f].status = "PENDING" /\ rows[f].timer = 0} :
          /\ UpdateWhere(S, LAMBDA r : Claimed(w, r))
          /\ claims' = [f \in Events |-> IF f \in S THEN PlusOne(claims[f]) ELSE claims[f]]
    BY <1>7 DEF ClaimNext
  <2>. QED
    BY <2>1 DEF UpdateWhere, HandedOut, Kept
<1>8. ASSUME NEW w \in Workers, NEW c \in batch[w], MarkUnhandled(w, c) PROVE RowChange(e)
  BY <1>8 DEF MarkUnhandled, Owns, GivenBack, Kept, history, Claim
<1>9. ASSUME NEW w \in Workers, NEW c \in cur[w], MarkProcessed(w, c) PROVE RowChange(e)
  BY <1>9 DEF MarkProcessed, Report, Owns, Delivered, Kept, history, Claim
<1>10. ASSUME NEW w \in Workers, NEW c \in cur[w], MarkFailed(w, c) \/ ReleaseForRetry(w, c)
       PROVE  RowChange(e)
  BY <1>10 DEF MarkFailed, ReleaseForRetry, Report, Owns, GivenBack, Kept, history, Claim
<1>11. CASE PurgeDelete
  BY <1>11 DEF PurgeDelete, UpdateWhere, Forgotten, Kept, history
<1>12. CASE Tick
  BY <1>12 DEF Tick, UpdateWhere, Kept, history
<1>13. ASSUME NEW w \in Workers,
              \/ StartPass(w) \/ FindFailed(w) \/ Nudge(w) \/ Crash(w)
              \/ MarkProcessedThrows(w) \/ \E c \in batch[w] : RunHandler(w, c)
       PROVE  RowChange(e)
  BY <1>13, <1>1 DEF StartPass, FindFailed, Nudge, Crash, MarkProcessedThrows,
                     RunHandler, history
<1>14. CASE PurgeFind
  BY <1>14, <1>1 DEF PurgeFind, history
<1>15. CASE UNCHANGED vars
  BY <1>15, <1>1 DEF vars
<1>. QED
  BY <1>2, <1>3, <1>4, <1>5, <1>6, <1>7, <1>8, <1>9, <1>10, <1>11, <1>12, <1>13,
     <1>14, <1>15 DEF Next, RunStep

(* PROCESSED is final: nothing but the purge touches a processed row.      *)
THEOREM ProcessedStays == Spec => ProcessedIsFinal
<1>1. ASSUME TypeOK, [Next]_vars, NEW e \in Events, rows[e].status = "PROCESSED"
      PROVE  /\ rows'[e].status \in {"PROCESSED", "PURGED"}
             /\ rows'[e].cancelled = rows[e].cancelled
  BY <1>1, RowStep DEF TypeOK, RowChange, Kept, Older, Born, Cancelled, GivenBack,
     Delivered, Reset, Forgotten, Purged, HandedOut, Row
<1>2. TypeOK /\ [Next]_vars =>
        [\A e \in Events : rows[e].status = "PROCESSED"
           => /\ rows'[e].status \in {"PROCESSED", "PURGED"}
              /\ rows'[e].cancelled = rows[e].cancelled]_vars
  BY <1>1
<1>. QED
  BY <1>2, TypeCorrect, PTL DEF Spec, ProcessedIsFinal

-----------------------------------------------------------------------------
(* A run that is about to report success has sent the event, and what a    *)
(* run holds is a row of the table: this makes ProcessedWasSent inductive. *)
SentWhenSucceeded ==
  \A w \in Workers : pc[w] = "succeeded" => \A c \in cur[w] : sent[c.id]
HeldExists ==
  \A w \in Workers : \A c \in batch[w] \cup cur[w] : rows[c.id].status # "ABSENT"
WithdrawnIsProcessed ==
  \A e \in Events : rows[e].cancelled => rows[e].status \in {"PROCESSED", "PURGED"}
SentInv == ProcessedWasSent /\ SentWhenSucceeded /\ HeldExists /\ WithdrawnIsProcessed

(* What the runs hold: nothing appears in a run's hands but by a claim.     *)
LEMMA HandsStep ==
  ASSUME TypeOK, [Next]_vars, NEW w \in Workers
  PROVE  \A c \in batch'[w] \cup cur'[w] :
           c \in batch[w] \cup cur[w] \/ rows'[c.id].status # "ABSENT"
<1>. DEFINE Goal == \A c \in batch'[w] \cup cur'[w] :
                      c \in batch[w] \cup cur[w] \/ rows'[c.id].status # "ABSENT"
<1>. USE DEF TypeOK
<1>1. ASSUME NEW v \in Workers, ClaimNext(v) PROVE Goal
  <2>1. PICK S \in SUBSET Events :
          /\ UpdateWhere(S, LAMBDA r : Claimed(v, r))
          /\ batch' = [batch EXCEPT ![v] = {[id |-> e, attempt |-> rows[e].attempt] : e \in S}]
    BY <1>1 DEF ClaimNext
  <2>2. \A e \in S : rows'[e].status = "PROCESSING"
    BY <2>1 DEF UpdateWhere, Claimed, Row
  <2>3. cur' = cur
    BY <1>1 DEF ClaimNext
  <2>. QED
    BY <2>1, <2>2, <2>3
<1>2. ASSUME NEW v \in Workers, NEW c \in batch[v], MarkUnhandled(v, c) \/ RunHandler(v, c)
      PROVE  Goal
  BY <1>2 DEF MarkUnhandled, RunHandler
<1>3. ASSUME NEW v \in Workers, NEW c \in cur[v],
             MarkProcessed(v, c) \/ MarkFailed(v, c) \/ ReleaseForRetry(v, c)
      PROVE  Goal
  BY <1>3 DEF MarkProcessed, MarkFailed, ReleaseForRetry, Report
<1>4. ASSUME NEW v \in Workers, Crash(v) PROVE Goal
  BY <1>4 DEF Crash
<1>5. ASSUME batch' = batch, cur' = cur PROVE Goal
  BY <1>5
<1>6. ASSUME NEW v \in Workers,
             \/ StartPass(v) \/ Nudge(v) \/ FailStuck(v) \/ RequeueStuck(v) \/ FindFailed(v)
             \/ MarkProcessedThrows(v) \/ \E e \in Events : MarkForRetry(v, e)
      PROVE  Goal
  BY <1>6, <1>5
     DEF StartPass, Nudge, FailStuck, RequeueStuck, FindFailed, MarkForRetry,
         MarkProcessedThrows
<1>7. ASSUME \/ \E e \in Events : Publish(e)
             \/ \E S \in SUBSET Cancellable : CancelPending(S)
             \/ PurgeFind \/ PurgeDelete \/ Tick \/ UNCHANGED vars
      PROVE  Goal
  BY <1>7, <1>5 DEF Publish, CancelPending, PurgeFind, PurgeDelete, Tick, vars
<1>. QED
  BY <1>1, <1>2, <1>3, <1>4, <1>6, <1>7 DEF Next, RunStep

(* Handlers send, nothing is unsent, and a run succeeds by sending.         *)
LEMMA SendStep ==
  ASSUME TypeOK, [Next]_vars
  PROVE  /\ \A e \in Events : sent[e] => sent'[e]
         /\ \A w \in Workers : \A c \in cur'[w] :
              pc'[w] = "succeeded" =>
                sent'[c.id] \/ (pc[w] = "succeeded" /\ c \in cur[w])
<1>. DEFINE Goal == /\ \A e \in Events : sent[e] => sent'[e]
                    /\ \A w \in Workers : \A c \in cur'[w] :
                         pc'[w] = "succeeded" =>
                           sent'[c.id] \/ (pc[w] = "succeeded" /\ c \in cur[w])
<1>. USE DEF TypeOK
<1>1. ASSUME NEW v \in Workers, NEW c \in batch[v], RunHandler(v, c) PROVE Goal
  BY <1>1 DEF RunHandler, Claim
<1>2. ASSUME NEW v \in Workers, Crash(v) PROVE Goal
  BY <1>2 DEF Crash, history
<1>3. ASSUME NEW v \in Workers, NEW c \in batch[v], MarkUnhandled(v, c) PROVE Goal
  BY <1>3 DEF MarkUnhandled, NextEvent, history
<1>4. ASSUME NEW v \in Workers, NEW c \in cur[v],
             MarkProcessed(v, c) \/ MarkFailed(v, c) \/ ReleaseForRetry(v, c)
      PROVE  Goal
  BY <1>4 DEF MarkProcessed, MarkFailed, ReleaseForRetry, Report, NextEvent, history
<1>5. ASSUME NEW v \in Workers, ClaimNext(v) PROVE Goal
  BY <1>5 DEF ClaimNext
<1>6. ASSUME NEW v \in Workers, NEW p, NEW next, next # "succeeded",
             Proceed(v, p, next), cur' = cur, sent' = sent
      PROVE  Goal
  BY <1>6 DEF Proceed
<1>7. \A p : AfterReset(p) # "succeeded" /\ AfterRecovery(p) # "succeeded"
  BY DEF AfterReset, AfterRecovery
<1>8. ASSUME NEW v \in Workers, StartPass(v) PROVE Goal
  <2>1. PICK p, next : next # "succeeded" /\ Proceed(v, p, next)
    BY <1>7, <1>8 DEF StartPass
  <2>. QED
    BY <1>6, <1>8, <2>1 DEF StartPass, history
<1>9. ASSUME NEW v \in Workers, FailStuck(v) PROVE Goal
  BY <1>6, <1>9 DEF FailStuck, history
<1>10. ASSUME NEW v \in Workers, RequeueStuck(v) PROVE Goal
  BY <1>6, <1>7, <1>10 DEF RequeueStuck, history
<1>11. ASSUME NEW v \in Workers, FindFailed(v) PROVE Goal
  <2>1. PICK p, next : next # "succeeded" /\ Proceed(v, p, next)
    BY <1>7, <1>11 DEF FindFailed
  <2>. QED
    BY <1>6, <1>11, <2>1 DEF FindFailed, history
<1>12. ASSUME NEW v \in Workers, NEW e \in Events, MarkForRetry(v, e) PROVE Goal
  <2>1. PICK p, next : next # "succeeded" /\ Proceed(v, p, next)
    BY <1>7, <1>12 DEF MarkForRetry
  <2>. QED
    BY <1>6, <1>12, <2>1 DEF MarkForRetry, history
<1>13. ASSUME NEW v \in Workers, Nudge(v) \/ MarkProcessedThrows(v) PROVE Goal
  BY <1>13 DEF Nudge, MarkProcessedThrows, history
<1>14. ASSUME \/ \E e \in Events : Publish(e)
              \/ \E S \in SUBSET Cancellable : CancelPending(S)
              \/ PurgeFind \/ PurgeDelete \/ Tick \/ UNCHANGED vars
       PROVE  Goal
  BY <1>14 DEF Publish, CancelPending, PurgeFind, PurgeDelete, Tick, vars, history
<1>. QED
  BY <1>1, <1>2, <1>3, <1>4, <1>5, <1>8, <1>9, <1>10, <1>11, <1>12, <1>13, <1>14
     DEF Next, RunStep

LEMMA SentInvariant == Spec => []SentInv
<1>. USE DEF SentInv
<1>1. Init => SentInv
  <2>1. \A r \in {NewRow("ABSENT")} \cup LegacyRow : r.status # "PROCESSED" /\ ~r.cancelled
    BY DEF NewRow, LegacyRow
  <2>. QED
    BY <2>1 DEF Init, ProcessedWasSent, SentWhenSucceeded, HeldExists, WithdrawnIsProcessed
<1>2. TypeOK /\ SentInv /\ [Next]_vars => SentInv'
  <2>. SUFFICES ASSUME TypeOK, SentInv, [Next]_vars PROVE SentInv'
    OBVIOUS
  <2>1. SentWhenSucceeded'
    BY SendStep DEF SentWhenSucceeded, TypeOK, Claim
  <2>2. ASSUME NEW e \in Events, rows'[e].status = "PROCESSED", ~rows'[e].cancelled
        PROVE  sent'[e]
    <3>1. RowChange(e)
      BY RowStep
    <3>2. CASE Delivered(e)
      BY <3>2, SendStep DEF Delivered, SentWhenSucceeded
    <3>3. CASE ~Delivered(e)
      <4>1. rows[e].status = "PROCESSED" /\ ~rows[e].cancelled
        BY <2>2, <3>1, <3>3, VersionFields
           DEF TypeOK, RowChange, Kept, Born, NewRow, Cancelled, GivenBack, Reset,
               Forgotten, HandedOut, Row
      <4>. QED
        BY <4>1, SendStep DEF ProcessedWasSent
    <3>. QED
      BY <3>2, <3>3
  <2>3. ASSUME NEW e \in Events, rows[e].status # "ABSENT"
        PROVE  rows'[e].status # "ABSENT"
    <3>1. RowChange(e) /\ rows[e] \in Row
      BY RowStep DEF TypeOK
    <3>2. CASE HandedOut(e) \/ Cancelled(e) \/ GivenBack(e) \/ Delivered(e)
      BY <3>1, <3>2, VersionFields DEF HandedOut, Cancelled, GivenBack, Delivered
    <3>3. CASE Kept(e) \/ Born(e) \/ Reset(e) \/ Forgotten(e)
      BY <2>3, <3>1, <3>3, VersionFields DEF Kept, Born, Reset, Forgotten, Row
    <3>. QED
      BY <3>1, <3>2, <3>3 DEF RowChange
  <2>4. HeldExists'
    BY <2>3, HandsStep DEF HeldExists, TypeOK, Claim
  <2>5. ASSUME NEW e \in Events, rows'[e].cancelled
        PROVE  rows'[e].status \in {"PROCESSED", "PURGED"}
    <3>1. RowChange(e) /\ rows[e] \in Row
      BY RowStep DEF TypeOK
    <3>2. rows[e].cancelled => rows[e].status \in {"PROCESSED", "PURGED"}
      BY DEF WithdrawnIsProcessed
    <3>3. CASE Cancelled(e) \/ Delivered(e)
      BY <3>1, <3>3, VersionFields DEF Cancelled, Delivered
    <3>4. CASE Kept(e) \/ Born(e) \/ Forgotten(e)
      BY <2>5, <3>1, <3>2, <3>4, VersionFields DEF Kept, Born, NewRow, Forgotten, Row
    <3>5. CASE GivenBack(e) \/ Reset(e) \/ HandedOut(e)
      BY <2>5, <3>1, <3>2, <3>5, VersionFields DEF GivenBack, Reset, HandedOut, Row
    <3>. QED
      BY <3>1, <3>3, <3>4, <3>5 DEF RowChange
  <2>. QED
    BY <2>1, <2>2, <2>4, <2>5 DEF ProcessedWasSent, WithdrawnIsProcessed
<1>. QED
  BY <1>1, <1>2, TypeCorrect, PTL DEF Spec

(* No row counts as processed unless its event was sent or withdrawn, for  *)
(* any number of runs, lost claims and crashes.                            *)
THEOREM ProcessedSent == Spec => []ProcessedWasSent
BY SentInvariant, PTL DEF SentInv

-----------------------------------------------------------------------------
(* A run holds a row whose handler has ended only until it reports on it,  *)
(* and no longer counts it among the rows still to do: what a report takes *)
(* out of its hands was there once.                                        *)
HandsApart ==
  \A w \in Workers : /\ cur[w] # {} => pc[w] \in {"succeeded", "threw"}
                     /\ batch[w] \cap cur[w] = {}

LEMMA HandsInvariant == Spec => []HandsApart
<1>1. Init => HandsApart
  BY DEF Init, HandsApart
<1>2. TypeOK /\ HandsApart /\ [Next]_vars => HandsApart'
  <2>. SUFFICES ASSUME TypeOK, HandsApart, [Next]_vars PROVE HandsApart'
    OBVIOUS
  <2>. USE DEF TypeOK, HandsApart
  <2>1. ASSUME pc' = pc, batch' = batch, cur' = cur PROVE HandsApart'
    BY <2>1
  <2>2. ASSUME NEW w \in Workers, NEW next, cur[w] = {}, cur' = cur,
               pc' = [pc EXCEPT ![w] = next], \A v \in Workers \ {w} : batch'[v] = batch[v]
        PROVE  HandsApart'
    BY <2>2
  <2>3. ASSUME NEW w \in Workers, NEW next,
               cur' = [cur EXCEPT ![w] = {}], pc' = [pc EXCEPT ![w] = next],
               \A v \in Workers \ {w} : batch'[v] = batch[v]
        PROVE  HandsApart'
    BY <2>3
  <2>4. ASSUME NEW w \in Workers,
               \/ StartPass(w) \/ Nudge(w) \/ FailStuck(w) \/ RequeueStuck(w) \/ FindFailed(w)
               \/ \E e \in Events : MarkForRetry(w, e)
               \/ ClaimNext(w) \/ \E c \in batch[w] : MarkUnhandled(w, c)
        PROVE  HandsApart'
    <3>1. pc[w] \notin {"succeeded", "threw"} /\ cur' = cur
      BY <2>4 DEF StartPass, Nudge, FailStuck, RequeueStuck, FindFailed, MarkForRetry,
                  ClaimNext, MarkUnhandled
    <3>2. \E next : pc' = [pc EXCEPT ![w] = next]
      BY <2>4 DEF StartPass, Nudge, FailStuck, RequeueStuck, FindFailed, MarkForRetry,
                  ClaimNext, MarkUnhandled, Proceed, NextEvent
    <3>3. \A v \in Workers \ {w} : batch'[v] = batch[v]
      BY <2>4 DEF StartPass, Nudge, FailStuck, RequeueStuck, FindFailed, MarkForRetry,
                  ClaimNext, MarkUnhandled
    <3>. QED
      BY <3>1, <3>2, <3>3, <2>2
  <2>5. ASSUME NEW w \in Workers, NEW c \in batch[w], RunHandler(w, c) PROVE HandsApart'
    BY <2>5 DEF RunHandler
  <2>6. ASSUME NEW w \in Workers,
               \/ Crash(w)
               \/ \E c \in cur[w] : MarkProcessed(w, c) \/ MarkFailed(w, c) \/ ReleaseForRetry(w, c)
        PROVE  HandsApart'
    BY <2>6, <2>3 DEF Crash, MarkProcessed, MarkFailed, ReleaseForRetry, Report, NextEvent
  <2>7. ASSUME NEW w \in Workers, MarkProcessedThrows(w) PROVE HandsApart'
    BY <2>7 DEF MarkProcessedThrows
  <2>8. ASSUME \/ \E e \in Events : Publish(e)
               \/ \E S \in SUBSET Cancellable : CancelPending(S)
               \/ PurgeFind \/ PurgeDelete \/ Tick \/ UNCHANGED vars
        PROVE  HandsApart'
    BY <2>8, <2>1 DEF Publish, CancelPending, PurgeFind, PurgeDelete, Tick, vars
  <2>. QED
    BY <2>4, <2>5, <2>6, <2>7, <2>8 DEF Next, RunStep
<1>. QED
  BY <1>1, <1>2, TypeCorrect, PTL DEF Spec

(* Who can move a row out of PROCESSING before its lease ends.             *)
LEMMA ReleaseStep ==
  ASSUME TypeOK, HandsApart, [Next]_vars, NEW e \in Events,
         rows[e].status = "PROCESSING", rows[e].timer > 0, rows'[e].status # "PROCESSING"
  PROVE  \E w \in Workers : rows[e].claim = w /\ HandsBack(w, e)
<1>. DEFINE Goal == \E w \in Workers : rows[e].claim = w /\ HandsBack(w, e)
<1>. USE DEF TypeOK
<1>0. rows[e] \in Row /\ ~Stale(rows[e]) /\ rows'[e] # rows[e]
  BY DEF Stale, Row
<1>1. ASSUME NEW w \in Workers, NEW c \in Held(w), c \notin Held(w)',
             rows'[e] = rows[e] \/ (c.id = e /\ Owns(w, rows[e]))
      PROVE  Goal
  BY <1>0, <1>1 DEF HandsBack, Owns
<1>2. ASSUME NEW w \in Workers, NEW c \in batch[w], MarkUnhandled(w, c) PROVE Goal
  <2>1. c \in Held(w) /\ c \notin Held(w)'
    BY <1>2 DEF MarkUnhandled, Held, HandsApart
  <2>2. rows'[e] = rows[e] \/ (c.id = e /\ Owns(w, rows[e]))
    BY <1>2 DEF MarkUnhandled
  <2>. QED
    BY <2>1, <2>2, <1>1
<1>3. ASSUME NEW w \in Workers, NEW c \in cur[w],
             MarkProcessed(w, c) \/ MarkFailed(w, c) \/ ReleaseForRetry(w, c)
      PROVE  Goal
  <2>1. \E r : Report(w, c, r)
    BY <1>3 DEF MarkProcessed, MarkFailed, ReleaseForRetry
  <2>2. c \in Held(w) /\ c \notin Held(w)'
    BY <2>1 DEF Report, Held, HandsApart
  <2>3. rows'[e] = rows[e] \/ (c.id = e /\ Owns(w, rows[e]))
    BY <2>1 DEF Report
  <2>. QED
    BY <2>2, <2>3, <1>1
<1>4. ASSUME NEW w \in Workers PROVE (~FailStuck(w) /\ ~RequeueStuck(w)) \/ rows'[e] = rows[e]
  BY <1>0 DEF FailStuck, RequeueStuck, UpdateWhere
<1>5. ASSUME NEW w \in Workers, NEW f \in Events, MarkForRetry(w, f) PROVE rows'[e] = rows[e]
  BY <1>0, <1>5 DEF MarkForRetry, Row
<1>6. ASSUME NEW w \in Workers, ClaimNext(w) PROVE rows'[e] = rows[e]
  BY <1>6 DEF ClaimNext, UpdateWhere
<1>7. ASSUME \/ \E f \in Events : Publish(f)
             \/ \E S \in SUBSET Cancellable : CancelPending(S)
             \/ PurgeFind \/ PurgeDelete \/ UNCHANGED vars
      PROVE  rows'[e] = rows[e]
  BY <1>7 DEF Publish, CancelPending, PurgeFind, PurgeDelete, UpdateWhere, vars
<1>8. ~Tick
  BY <1>0, VersionFields DEF Tick, UpdateWhere
<1>9. ASSUME NEW w \in Workers,
             \/ StartPass(w) \/ FindFailed(w) \/ Nudge(w) \/ Crash(w)
             \/ MarkProcessedThrows(w) \/ \E c \in batch[w] : RunHandler(w, c)
      PROVE  rows'[e] = rows[e]
  BY <1>9 DEF StartPass, FindFailed, Nudge, Crash, MarkProcessedThrows, RunHandler
<1>. QED
  BY <1>0, <1>2, <1>3, <1>4, <1>5, <1>6, <1>7, <1>8, <1>9 DEF Next, RunStep

(* A claim holds as long as its lease: whatever the recovery passes, the   *)
(* other runs and the purge do, only its holder moves the row on.          *)
THEOREM LiveClaimsHonoured == Spec => LiveClaimHonoured
<1>1. ASSUME TypeOK, HandsApart, [Next]_vars, NEW e \in Events,
             rows[e].status = "PROCESSING" /\ rows[e].timer > 0
               /\ rows'[e].status # "PROCESSING"
      PROVE  \E w \in Workers : rows[e].claim = w /\ HandsBack(w, e)
  BY <1>1, ReleaseStep
<1>2. TypeOK /\ HandsApart /\ [Next]_vars =>
        [\A e \in Events :
           rows[e].status = "PROCESSING" /\ rows[e].timer > 0
             /\ rows'[e].status # "PROCESSING"
           => \E w \in Workers : rows[e].claim = w /\ HandsBack(w, e)]_vars
  BY <1>1
<1>. QED
  BY <1>2, TypeCorrect, HandsInvariant, PTL DEF Spec, LiveClaimHonoured

-----------------------------------------------------------------------------
(* A FAILED row of this release has used up its budget, so that a pass     *)
(* finds none but rows of an earlier one to reset; the rest bounds the     *)
(* counters.                                                               *)
ExhaustedFailed == \A e \in Own : rows[e].status = "FAILED" => rows[e].attempt >= MaxRetries
NothingToReset == \A w \in Workers : pass[w].todo \subseteq Legacy
ClaimsBounded ==
  \A e \in Own : /\ claims[e] <= AttemptCap
                 /\ rows[e].status = "ABSENT" => claims[e] = 0
BudgetInv == BudgetAccounting /\ ExhaustedFailed /\ NothingToReset /\ ClaimsBounded

LEMMA TodoStep ==
  ASSUME TypeOK, ExhaustedFailed, NothingToReset, [Next]_vars
  PROVE  NothingToReset'
<1>. USE DEF TypeOK, NothingToReset
<1>1. ASSUME NEW v \in Workers, NEW p, NEW next, Proceed(v, p, next), p.todo \subseteq Legacy
      PROVE  NothingToReset'
  BY <1>1 DEF Proceed, NoPass
<1>2. ASSUME NEW v \in Workers, StartPass(v) PROVE NothingToReset'
  <2>. DEFINE some(st) == \E e \in Events : rows[e].status = st
              p == [NoPass EXCEPT !.pending = some("PENDING"), !.failed = some("FAILED")]
  <2>1. p.todo \subseteq Legacy
    BY DEF NoPass
  <2>. QED
    BY <1>1, <1>2, <2>1 DEF StartPass
<1>3. ASSUME NEW v \in Workers, FailStuck(v) PROVE NothingToReset'
  BY <1>1, <1>3 DEF FailStuck
<1>4. ASSUME NEW v \in Workers, RequeueStuck(v) PROVE NothingToReset'
  <2>1. \A b : [pass[v] EXCEPT !.recovered = b].todo \subseteq Legacy
    BY DEF Pass
  <2>. QED
    BY <1>1, <1>4, <2>1 DEF RequeueStuck
<1>5. ASSUME NEW v \in Workers, FindFailed(v) PROVE NothingToReset'
  <2>. DEFINE found == {e \in Events : rows[e].status = "FAILED" /\ rows[e].attempt < MaxRetries}
              p == [pass[v] EXCEPT !.todo = found]
  <2>1. found \subseteq Legacy
    BY DEF ExhaustedFailed, Own, Row
  <2>2. p.todo \subseteq Legacy
    BY <2>1 DEF Pass
  <2>. QED
    BY <1>1, <1>5, <2>2 DEF FindFailed
<1>6. ASSUME NEW v \in Workers, NEW e \in Events, MarkForRetry(v, e) PROVE NothingToReset'
  <2>. DEFINE hit == rows[e].status = "FAILED"
              p == [pass[v] EXCEPT !.todo = @ \ {e}, !.recovered = @ \/ hit]
  <2>1. p.todo \subseteq Legacy
    BY DEF Pass
  <2>. QED
    BY <1>1, <1>6, <2>1 DEF MarkForRetry
<1>7. ASSUME NEW v \in Workers, Crash(v) PROVE NothingToReset'
  BY <1>7 DEF Crash, NoPass
<1>8. ASSUME pass' = pass PROVE NothingToReset'
  BY <1>8
<1>9. ASSUME NEW v \in Workers,
             \/ Nudge(v) \/ ClaimNext(v) \/ MarkProcessedThrows(v)
             \/ \E c \in batch[v] : MarkUnhandled(v, c) \/ RunHandler(v, c)
             \/ \E c \in cur[v] : MarkProcessed(v, c) \/ MarkFailed(v, c) \/ ReleaseForRetry(v, c)
      PROVE  NothingToReset'
  BY <1>8, <1>9 DEF Nudge, ClaimNext, MarkProcessedThrows, MarkUnhandled, RunHandler, MarkProcessed,
                    MarkFailed, ReleaseForRetry, Report
<1>10. ASSUME \/ \E e \in Events : Publish(e)
              \/ \E S \in SUBSET Cancellable : CancelPending(S)
              \/ PurgeFind \/ PurgeDelete \/ Tick \/ UNCHANGED vars
       PROVE  NothingToReset'
  BY <1>8, <1>10 DEF Publish, CancelPending, PurgeFind, PurgeDelete, Tick, vars
<1>. QED
  BY <1>2, <1>3, <1>4, <1>5, <1>6, <1>7, <1>9, <1>10 DEF Next, RunStep

LEMMA BudgetInvariant == Spec => []BudgetInv
<1>1. Init => BudgetInv
  BY Limits DEF Init, BudgetInv, BudgetAccounting, ExhaustedFailed, NothingToReset,
                ClaimsBounded, NoPass, Own
<1>2. TypeOK /\ BudgetInv /\ [Next]_vars => BudgetInv'
  <2>. SUFFICES ASSUME TypeOK, BudgetInv, [Next]_vars PROVE BudgetInv'
    OBVIOUS
  <2>1. NothingToReset'
    BY TodoStep DEF BudgetInv
  <2>2. ASSUME NEW e \in Own
        PROVE  /\ rows'[e].status = "PENDING" => claims'[e] <= rows'[e].attempt
               /\ rows'[e].status = "PROCESSING" => claims'[e] <= rows'[e].attempt + 1
               /\ rows'[e].status = "FAILED" => rows'[e].attempt >= MaxRetries
               /\ claims'[e] <= AttemptCap
               /\ rows'[e].status = "ABSENT" => claims'[e] = 0
    <3>. DEFINE r == rows[e]  n == claims[e]
    <3>0. e \in Events /\ e \notin Legacy
      BY DEF Own
    <3>1. RowChange(e) /\ ~Reset(e)
      BY <3>0, RowStep DEF BudgetInv, NothingToReset, Reset
    <3>2. /\ r \in Row /\ n \in Nat /\ n <= AttemptCap
          /\ r.status = "PENDING" => n <= r.attempt
          /\ r.status = "PROCESSING" => n <= r.attempt + 1
          /\ r.status = "FAILED" => r.attempt >= MaxRetries
          /\ r.status = "ABSENT" => n = 0
      <4>1. r \in Row /\ n \in Nat
        BY <3>0 DEF TypeOK
      <4>2. /\ r.status = "PENDING" => n <= r.attempt
            /\ r.status = "PROCESSING" => n <= r.attempt + 1
        BY DEF BudgetInv, BudgetAccounting
      <4>3. /\ n <= AttemptCap
            /\ r.status = "FAILED" => r.attempt >= MaxRetries
            /\ r.status = "ABSENT" => n = 0
        BY DEF BudgetInv, ExhaustedFailed, ClaimsBounded
      <4>. QED
        BY <4>1, <4>2, <4>3
    <3>3. CASE HandedOut(e) /\ claims'[e] = PlusOne(n)
      BY <3>2, <3>3, Limits DEF HandedOut, Claimed, PlusOne, Row
    <3>4. CASE claims'[e] = n /\ (Kept(e) \/ Born(e) \/ Cancelled(e) \/ Forgotten(e))
      BY <3>2, <3>4, VersionFields DEF Kept, Born, NewRow, Cancelled, Forgotten, Row
    <3>5. CASE claims'[e] = n /\ (GivenBack(e) \/ Delivered(e))
      BY <3>2, <3>5, VersionFields DEF GivenBack, PlusOne, Delivered, Row
    <3>. QED
      BY <3>1, <3>3, <3>4, <3>5 DEF RowChange
  <2>. QED
    BY <2>1, <2>2 DEF BudgetInv, BudgetAccounting, ExhaustedFailed, ClaimsBounded
<1>. QED
  BY <1>1, <1>2, TypeCorrect, PTL DEF Spec

(* Every hand-over but an open one of a row of this release is paid for    *)
(* from the retry budget.                                                  *)
THEOREM BudgetKept == Spec => []BudgetAccounting
BY BudgetInvariant, PTL DEF BudgetInv

-----------------------------------------------------------------------------
(* The outbox, for any number of rows, runs and crashes, keeps the promise *)
(* of EventDelivery to the rows of this release, whatever rows are left of *)
(* an earlier one.  (Those promise less: a stale list may reset one of     *)
(* them after another run has exhausted it, and revive a dead event.)      *)
Mapped == [e \in Own |-> DeliveryState(rows[e])]
SentOwn == [e \in Own |-> sent[e]]

(* The abstract state of the row versions. *)
LEMMA MappedVersions ==
  ASSUME NEW r \in Row
  PROVE  /\ DeliveryState(NewRow("PENDING")) = "queued"
         /\ r.status \in {"PENDING", "PROCESSING"} => DeliveryState(r) = "queued"
         /\ r.status = "ABSENT" <=> DeliveryState(r) = "absent"
         /\ r.status = "PROCESSED" =>
              DeliveryState(r) \in {"delivered", "withdrawn"}
         /\ DeliveryState(Requeued(r)) = "queued"
         /\ DeliveryState(Released(r)) = "queued"
         /\ DeliveryState(Failed(r)) = "dead"
         /\ DeliveryState(Withdrawn(r)) = "withdrawn"
         /\ ~r.cancelled => DeliveryState(Processed(r)) = "delivered"
         /\ \A w : DeliveryState(Claimed(w, r)) = "queued"
         /\ DeliveryState(Older(r)) = DeliveryState(r)
         /\ DeliveryState(Purged(r)) = "gone"
BY VersionFields DEF DeliveryState, NewRow, Row, Statuses

(* The rows of S move from one abstract state to another, and the rest     *)
(* keeps its own: a Move of EventDelivery, or a stutter when no row of S   *)
(* is of this release.                                                     *)
Moved(S, from, to) ==
  /\ sent' = sent
  /\ \A e \in S : DeliveryState(rows[e]) \in from /\ DeliveryState(rows'[e]) = to
  /\ \A e \in Events \ S : DeliveryState(rows'[e]) = DeliveryState(rows[e])

LEMMA MovedRows ==
  ASSUME NEW S \in SUBSET Events, NEW from, NEW to, Moved(S, from, to)
  PROVE  \/ S \cap Own = {} /\ UNCHANGED <<Mapped, SentOwn>>
         \/ S \cap Own # {} /\ Delivery!Move(S \cap Own, from, to)
<1>1. SentOwn' = SentOwn
  BY DEF Moved, SentOwn
<1>2. Mapped' = [e \in Own |-> IF e \in S \cap Own THEN to ELSE Mapped[e]]
  BY DEF Moved, Mapped, Own
<1>3. \A e \in S \cap Own : Mapped[e] \in from
  BY DEF Moved, Mapped
<1>4. CASE S \cap Own = {}
  <2>1. Mapped' = Mapped
    BY <1>2, <1>4 DEF Mapped
  <2>. QED
    BY <2>1, <1>1, <1>4
<1>5. CASE S \cap Own # {}
  BY <1>1, <1>2, <1>3, <1>5 DEF Delivery!Move, Mapped, SentOwn
<1>. QED
  BY <1>4, <1>5

LEMMA RefinedStep ==
  ASSUME TypeOK, SentInv, BudgetInv, [Next]_vars
  PROVE  [Delivery!Next]_<<Mapped, SentOwn>>
<1>. DEFINE Goal == [Delivery!Next]_<<Mapped, SentOwn>>
<1>. USE DEF TypeOK
<1>1. ASSUME sent' = sent,
             \A e \in Own : DeliveryState(rows'[e]) = DeliveryState(rows[e])
      PROVE  Goal
  BY <1>1 DEF Mapped, SentOwn
<1>0. ASSUME NEW S \in SUBSET Events,
             \/ Moved(S, {"queued"}, "dead") \/ Moved(S, {"queued"}, "withdrawn")
             \/ Moved(S, {"delivered", "withdrawn"}, "gone")
      PROVE  Goal
  <2>1. S \cap Own \in SUBSET Own
    OBVIOUS
  <2>2. CASE Moved(S, {"queued"}, "dead")
    BY <2>1, <2>2, MovedRows DEF Delivery!Next, Delivery!Bury
  <2>3. CASE Moved(S, {"queued"}, "withdrawn")
    BY <2>1, <2>3, MovedRows DEF Delivery!Next, Delivery!Withdraw
  <2>4. CASE Moved(S, {"delivered", "withdrawn"}, "gone")
    BY <2>1, <2>4, MovedRows DEF Delivery!Next, Delivery!Purge
  <2>. QED
    BY <1>0, <2>2, <2>3, <2>4
<1>2. ASSUME NEW e \in Events, Publish(e) PROVE Goal
  <2>1. DeliveryState(rows[e]) = "absent" /\ DeliveryState(rows'[e]) = "queued"
    BY <1>2, MappedVersions DEF Publish
  <2>2. sent' = sent /\ \A f \in Events \ {e} : rows'[f] = rows[f]
    BY <1>2 DEF Publish, history
  <2>3. Moved({e}, {"absent"}, "queued")
    BY <2>1, <2>2 DEF Moved
  <2>4. CASE e \in Own
    <3>1. {e} \cap Own = {e}
      BY <2>4
    <3>2. Delivery!Move({e} \cap Own, {"absent"}, "queued")
      BY <2>3, <3>1, MovedRows
    <3>3. Delivery!Move({e}, {"absent"}, "queued")
      BY <3>1, <3>2 DEF Delivery!Move
    <3>. QED
      BY <2>4, <3>3 DEF Delivery!Next, Delivery!Enqueue
  <2>5. CASE e \notin Own
    <3>1. {e} \cap Own = {}
      BY <2>5
    <3>2. UNCHANGED <<Mapped, SentOwn>>
      BY <2>3, <3>1, MovedRows
    <3>. QED
      BY <3>2
  <2>. QED
    BY <2>4, <2>5
<1>3. ASSUME NEW S \in SUBSET Cancellable, CancelPending(S) PROVE Goal
  <2>. DEFINE hit == {e \in S : rows[e].status = "PENDING"}
  <2>1. hit \in SUBSET Events /\ hit # {} /\ sent' = sent
    BY <1>3 DEF CancelPending, history
  <2>2. \A e \in Events : rows'[e] = IF e \in hit THEN Withdrawn(rows[e]) ELSE rows[e]
    BY <1>3 DEF CancelPending, UpdateWhere
  <2>3. \A e \in hit : /\ DeliveryState(rows[e]) = "queued"
                       /\ DeliveryState(rows'[e]) = "withdrawn"
    BY <2>1, <2>2, MappedVersions
  <2>4. Moved(hit, {"queued"}, "withdrawn")
    BY <2>1, <2>2, <2>3 DEF Moved
  <2>. QED
    BY <2>1, <2>4, <1>0
<1>4. ASSUME NEW S \in SUBSET Events, sent' = sent,
             \A e \in S : rows[e].status = "PROCESSING" /\ rows'[e] = Failed(rows[e]),
             \A e \in Events \ S : rows'[e] = rows[e]
      PROVE  Goal
  <2>1. \A e \in S : /\ DeliveryState(rows[e]) = "queued"
                     /\ DeliveryState(rows'[e]) = "dead"
    BY <1>4, MappedVersions
  <2>2. Moved(S, {"queued"}, "dead")
    BY <2>1, <1>4 DEF Moved
  <2>. QED
    BY <2>2, <1>0
<1>5. ASSUME NEW w \in Workers, FailStuck(w) PROVE Goal
  <2>. DEFINE S == {e \in Events : Stale(rows[e]) /\ rows[e].attempt >= MaxRetries - 1}
  <2>1. S \in SUBSET Events /\ sent' = sent
    BY <1>5 DEF FailStuck, history
  <2>2. \A e \in S : rows[e].status = "PROCESSING" /\ rows'[e] = Failed(rows[e])
    BY <1>5 DEF FailStuck, UpdateWhere, Stale
  <2>3. \A e \in Events \ S : rows'[e] = rows[e]
    BY <1>5 DEF FailStuck, UpdateWhere
  <2>. QED
    BY <2>1, <2>2, <2>3, <1>4
<1>6. ASSUME NEW w \in Workers, RequeueStuck(w) PROVE Goal
  <2>1. sent' = sent /\ \A e \in Events :
          \/ rows'[e] = rows[e]
          \/ rows[e].status = "PROCESSING" /\ rows'[e] = Requeued(rows[e])
    BY <1>6 DEF RequeueStuck, UpdateWhere, Stale, history
  <2>2. \A e \in Own : DeliveryState(rows'[e]) = DeliveryState(rows[e])
    BY <2>1, MappedVersions DEF Own
  <2>. QED
    BY <2>1, <2>2, <1>1
<1>7. ASSUME NEW w \in Workers, NEW e \in Events, MarkForRetry(w, e) PROVE Goal
  <2>1. sent' = sent /\ e \in Legacy
    BY <1>7 DEF MarkForRetry, history, BudgetInv, NothingToReset
  <2>2. \A f \in Own : rows'[f] = rows[f]
    BY <1>7, <2>1 DEF MarkForRetry, Own
  <2>. QED
    BY <2>1, <2>2, <1>1
<1>8. ASSUME NEW w \in Workers, ClaimNext(w) PROVE Goal
  <2>1. PICK S \in SUBSET {e \in Events : rows[e].status = "PENDING" /\ rows[e].timer = 0} :
          UpdateWhere(S, LAMBDA r : Claimed(w, r))
    BY <1>8 DEF ClaimNext
  <2>2. sent' = sent
    BY <1>8 DEF ClaimNext
  <2>3. \A e \in Events :
          \/ rows'[e] = rows[e]
          \/ rows[e].status = "PENDING" /\ rows'[e] = Claimed(w, rows[e])
    BY <2>1 DEF UpdateWhere
  <2>4. \A e \in Own : DeliveryState(rows'[e]) = DeliveryState(rows[e])
    BY <2>3, MappedVersions DEF Own
  <2>. QED
    BY <2>2, <2>4, <1>1
<1>9. ASSUME NEW w \in Workers, NEW c \in batch[w], MarkUnhandled(w, c) PROVE Goal
  <2>. DEFINE S == {e \in {c.id} : Owns(w, rows[e])}
  <2>1. c.id \in Events /\ sent' = sent
    BY <1>9 DEF MarkUnhandled, history, Claim
  <2>2. /\ \A e \in S : rows[e].status = "PROCESSING" /\ rows'[e] = Failed(rows[e])
        /\ \A e \in Events \ S : rows'[e] = rows[e]
    BY <1>9, <2>1 DEF MarkUnhandled, Owns
  <2>. QED
    BY <2>1, <2>2, <1>4
<1>10. ASSUME NEW w \in Workers, NEW c \in batch[w], RunHandler(w, c) PROVE Goal
  <2>0. c.id \in Events /\ rows[c.id].status # "ABSENT" /\ rows' = rows
    BY <1>10 DEF RunHandler, SentInv, HeldExists, Claim
  <2>1. c.id \in Events /\ DeliveryState(rows[c.id]) # "absent" /\ rows' = rows
    BY <2>0, MappedVersions
  <2>2. CASE sent' = sent
    BY <2>1, <2>2, <1>1
  <2>3. CASE sent' = [sent EXCEPT ![c.id] = TRUE]
    <3>1. CASE c.id \in Own
      <4>1. SentOwn' = [SentOwn EXCEPT ![c.id] = TRUE] /\ Mapped' = Mapped
        BY <2>1, <2>3 DEF SentOwn, Mapped, Own
      <4>2. Delivery!Send(c.id)
        BY <2>1, <3>1, <4>1 DEF Delivery!Send, SentOwn, Mapped
      <4>. QED
        BY <3>1, <4>2 DEF Delivery!Next
    <3>2. CASE c.id \notin Own
      BY <2>1, <2>3, <3>2 DEF SentOwn, Mapped, Own
    <3>. QED
      BY <3>1, <3>2
  <2>. QED
    BY <1>10, <2>2, <2>3 DEF RunHandler
<1>11. ASSUME NEW w \in Workers, NEW c \in cur[w], MarkFailed(w, c) PROVE Goal
  <2>. DEFINE S == {e \in {c.id} : Owns(w, rows[e])}
  <2>1. c.id \in Events /\ sent' = sent
    BY <1>11 DEF MarkFailed, Report, history, Claim
  <2>2. /\ \A e \in S : rows[e].status = "PROCESSING" /\ rows'[e] = Failed(rows[e])
        /\ \A e \in Events \ S : rows'[e] = rows[e]
    BY <1>11, <2>1 DEF MarkFailed, Report, Owns
  <2>. QED
    BY <2>1, <2>2, <1>4
<1>12. ASSUME NEW w \in Workers, NEW c \in cur[w], ReleaseForRetry(w, c) PROVE Goal
  <2>1. sent' = sent /\ \A e \in Events :
          \/ rows'[e] = rows[e]
          \/ rows[e].status = "PROCESSING" /\ rows'[e] = Released(rows[e])
    BY <1>12 DEF ReleaseForRetry, Report, Owns, history, Claim
  <2>2. \A e \in Own : DeliveryState(rows'[e]) = DeliveryState(rows[e])
    BY <2>1, MappedVersions DEF Own
  <2>. QED
    BY <2>1, <2>2, <1>1
<1>13. ASSUME NEW w \in Workers, NEW c \in cur[w], MarkProcessed(w, c) PROVE Goal
  <2>1. c.id \in Events /\ sent' = sent /\ sent[c.id]
    BY <1>13 DEF MarkProcessed, Report, history, Claim, SentInv, SentWhenSucceeded
  <2>2. \A e \in Events \ {c.id} : rows'[e] = rows[e]
    BY <1>13 DEF MarkProcessed, Report
  <2>3. CASE ~Owns(w, rows[c.id])
    BY <1>13, <2>1, <2>2, <2>3, <1>1 DEF MarkProcessed, Report
  <2>4. CASE Owns(w, rows[c.id])
    <3>1. rows[c.id].status = "PROCESSING" /\ rows'[c.id] = Processed(rows[c.id])
      BY <1>13, <2>1, <2>4 DEF MarkProcessed, Report, Owns
    <3>2. DeliveryState(rows[c.id]) = "queued" /\ DeliveryState(rows'[c.id]) = "delivered"
      <4>1. ~rows[c.id].cancelled /\ rows[c.id] \in Row
        BY <2>1, <3>1 DEF SentInv, WithdrawnIsProcessed
      <4>. QED
        BY <3>1, <4>1, MappedVersions
    <3>3. Moved({c.id}, {"queued"}, "delivered")
      BY <2>1, <2>2, <3>2 DEF Moved
    <3>4. CASE c.id \in Own
      <4>1. {c.id} \cap Own = {c.id}
        BY <3>4
      <4>2. Delivery!Move({c.id} \cap Own, {"queued"}, "delivered")
        BY <2>1, <3>3, <4>1, MovedRows
      <4>3. Delivery!Move({c.id}, {"queued"}, "delivered")
        BY <4>1, <4>2 DEF Delivery!Move
      <4>. QED
        BY <2>1, <3>4, <4>3 DEF Delivery!Next, Delivery!Deliver
    <3>5. CASE c.id \notin Own
      <4>1. {c.id} \cap Own = {}
        BY <3>5
      <4>2. UNCHANGED <<Mapped, SentOwn>>
        BY <2>1, <3>3, <4>1, MovedRows
      <4>. QED
        BY <4>2
    <3>. QED
      BY <3>4, <3>5
  <2>. QED
    BY <2>3, <2>4
<1>14. CASE PurgeDelete
  <2>. DEFINE S == {e \in candidates : rows[e].status = "PROCESSED"}
  <2>1. S \in SUBSET Events /\ sent' = sent
    BY <1>14 DEF PurgeDelete, history
  <2>2. /\ \A e \in S : rows'[e] = Purged(rows[e])
        /\ \A e \in Events \ S : rows'[e] = rows[e]
    BY <1>14 DEF PurgeDelete, UpdateWhere
  <2>3. \A e \in S : /\ DeliveryState(rows[e]) \in {"delivered", "withdrawn"}
                     /\ DeliveryState(rows'[e]) = "gone"
    BY <2>1, <2>2, MappedVersions
  <2>4. Moved(S, {"delivered", "withdrawn"}, "gone")
    BY <2>1, <2>2, <2>3 DEF Moved
  <2>. QED
    BY <2>1, <2>4, <1>0
<1>15. CASE Tick
  <2>1. sent' = sent /\ \A e \in Events : rows'[e] = Older(rows[e])
    BY <1>15 DEF Tick, UpdateWhere, history
  <2>2. \A e \in Own : DeliveryState(rows'[e]) = DeliveryState(rows[e])
    BY <2>1, MappedVersions DEF Own
  <2>. QED
    BY <2>1, <2>2, <1>1
<1>16. ASSUME \/ PurgeFind \/ UNCHANGED vars
              \/ \E w \in Workers :
                   \/ StartPass(w) \/ FindFailed(w) \/ Nudge(w) \/ Crash(w)
                   \/ MarkProcessedThrows(w)
       PROVE  Goal
  BY <1>16, <1>1 DEF PurgeFind, vars, StartPass, FindFailed, Nudge, Crash,
                     MarkProcessedThrows, history
<1>. QED
  BY <1>2, <1>3, <1>5, <1>6, <1>7, <1>8, <1>9, <1>10, <1>11, <1>12, <1>13, <1>14,
     <1>15, <1>16 DEF Next, RunStep

(* What the outbox does with the rows of this release is a behaviour of    *)
(* EventDelivery: they are queued once, settled once, never dropped, and   *)
(* delivered only if sent.                                                 *)
THEOREM OutboxImplementsDelivery == Spec => RefinesDelivery
<1>1. Init => Delivery!Init
  <2>. SUFFICES ASSUME Init PROVE Delivery!Init
    OBVIOUS
  <2>1. \A e \in Own : rows[e] = NewRow("ABSENT")
    BY DEF Init, Own, LegacyRow, NewRow
  <2>2. DeliveryState(NewRow("ABSENT")) = "absent"
    BY DEF NewRow, DeliveryState
  <2>3. \A e \in Own : DeliveryState(rows[e]) = "absent" /\ sent[e] = FALSE
    BY <2>1, <2>2 DEF Init, Own
  <2>. QED
    BY <2>3 DEF Delivery!Init
<1>2. TypeOK /\ SentInv /\ BudgetInv /\ [Next]_vars => [Delivery!Next]_<<Mapped, SentOwn>>
  BY RefinedStep
<1>. QED
  BY <1>1, <1>2, TypeCorrect, SentInvariant, BudgetInvariant, PTL
     DEF Spec, RefinesDelivery, Delivery!Spec, Mapped, SentOwn
=============================================================================
