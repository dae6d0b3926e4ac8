------------------------------ MODULE ServiceProofs ------------------------------
(***************************************************************************)
(* Proofs about what the server does on its own.                           *)
(*                                                                         *)
(* The circuit breaker, for any number of callers and any thresholds: its  *)
(* types, that a half-open breaker always has a probe under way, that few  *)
(* probes go out, and that only failures of its own open a closed breaker. *)
(*                                                                         *)
(* The scheduled jobs, for any number of rows, batches of any size and any *)
(* mishaps: that the file of a deleted document is gone.                   *)
(***************************************************************************)
EXTENDS CircuitBreaker, BatchJobs, TLAPS

USE BreakerAssumption

(* The counter of failures moves by one and stays below the threshold.     *)
LEMMA CounterBounded ==
  ASSUME NEW n \in 0..Threshold
  PROVE  UpTo(n) \in 0..Threshold
BY DEF UpTo

(* What each change of the breaker's entry keeps and what it becomes.      *)
LEMMA Becomes ==
  ASSUME NEW e \in Entries, NEW s \in {"CLOSED", "OPEN", "HALF_OPEN"}
  PROVE  /\ Become(e, s) \in Entries
         /\ Become(e, s).state = s /\ Become(e, s).failures = e.failures
         /\ Become(e, s).sent = e.sent
BY DEF Become, Entries

LEMMA HalfOpens ==
  ASSUME NEW e \in Entries
  PROVE  /\ HalfOpened(e) \in Entries
         /\ HalfOpened(e).failures = e.failures
         /\ e.state = "CLOSED" => HalfOpened(e) = e
         /\ e.state = "HALF_OPEN" => HalfOpened(e) = e
         /\ HalfOpened(e).state = "HALF_OPEN" /\ e.state = "OPEN" => HalfOpened(e).sent = 0
BY Becomes DEF HalfOpened, Entries

LEMMA Admits ==
  ASSUME NEW e \in Entries, e.state = "HALF_OPEN" => e.sent < HalfOpenMax
  PROVE  /\ Admit(e) \in Entries
         /\ Admit(e).state = e.state /\ Admit(e).failures = e.failures
         /\ Admit(e).sent = IF e.state = "HALF_OPEN" THEN e.sent + 1 ELSE e.sent
BY DEF Admit, Entries

LEMMA Closes ==
  ASSUME NEW e \in Entries
  PROVE  /\ Closed(e) \in Entries
         /\ Closed(e).state = "CLOSED" /\ Closed(e).failures = 0
BY Becomes DEF Closed, Entries

LEMMA Counts ==
  ASSUME NEW e \in Entries
  PROVE  /\ Counted(e) \in Entries
         /\ Counted(e).state # "HALF_OPEN"
         /\ Counted(e).state = "CLOSED" => e.state = "CLOSED"
         /\ e.state = "CLOSED" => Counted(e).failures = UpTo(e.failures)
         /\ e.state = "CLOSED" /\ Counted(e).state = "OPEN" => UpTo(e.failures) = Threshold
<1>1. UpTo(e.failures) \in 0..Threshold
  BY CounterBounded DEF Entries
<1>. QED
  BY <1>1, Becomes DEF Counted, Entries

-----------------------------------------------------------------------------
(* What the probes and the failures amount to in each state: an open       *)
(* breaker has let nobody through, a half-open one as many as it has       *)
(* counted, and a closed one has counted the failures since it closed.     *)
Counting ==
  /\ entry.state = "OPEN" => admitted = 0
  /\ entry.state = "HALF_OPEN" => admitted = entry.sent
  /\ entry.state = "CLOSED" => entry.failures = failed

IInv == TypeOK /\ ProbeUnderWay /\ Counting

LEMMA InitIInv == Init => IInv
BY DEF Init, IInv, TypeOK, ProbeUnderWay, Counting, Entries, Calls, NoCall

LEMMA CallKeeps ==
  ASSUME IInv, NEW c \in Callers, Call(c)
  PROVE  IInv'
<1>. DEFINE e == HalfOpened(entry)
<1>. USE DEF IInv, TypeOK
<1>1. e \in Entries /\ (entry.state # "OPEN" => e = entry)
  BY HalfOpens DEF Entries
<1>2. /\ e.state # "OPEN" /\ (e.state = "HALF_OPEN" => e.sent < HalfOpenMax)
      /\ entry' = Admit(e)
      /\ calls' = [calls EXCEPT ![c] = [running |-> TRUE, attempt |-> 0]]
      /\ admitted' = IF e.state = "CLOSED" \/ admitted > HalfOpenMax
                     THEN admitted ELSE admitted + 1
      /\ provider' = provider /\ failed' = failed
  BY DEF Call
<1>3. /\ entry' \in Entries /\ entry'.state = e.state /\ entry'.failures = e.failures
      /\ entry'.sent = IF e.state = "HALF_OPEN" THEN e.sent + 1 ELSE e.sent
  BY <1>1, <1>2, Admits
<1>4. calls' \in [Callers -> Calls] /\ calls'[c].running
  BY <1>2 DEF Calls
<1>5. TypeOK'
  BY <1>2, <1>3, <1>4
<1>6. ProbeUnderWay'
  BY <1>4 DEF ProbeUnderWay
<1>7. entry'.state # "OPEN"
  BY <1>2, <1>3
<1>8. e.state = "HALF_OPEN" => admitted = e.sent
  <2>1. CASE entry.state = "OPEN"
    BY <2>1, HalfOpens DEF Counting, Entries
  <2>. QED
    BY <2>1, <1>1 DEF Counting
<1>9. entry'.state = "HALF_OPEN" => admitted' = entry'.sent
  <2>1. ASSUME e.state = "HALF_OPEN" PROVE admitted' = e.sent + 1
    <3>1. e.sent \in 0..HalfOpenMax
      BY <1>1 DEF Entries
    <3>. QED
      BY <2>1, <3>1, <1>2, <1>8
  <2>. QED
    BY <2>1, <1>3
<1>10. entry'.state = "CLOSED" => entry'.failures = failed'
  <2>1. e.state = "CLOSED" => entry.state = "CLOSED" /\ e = entry
    BY HalfOpens, Becomes DEF HalfOpened, Entries
  <2>. QED
    BY <2>1, <1>2, <1>3 DEF Counting
<1>. QED
  BY <1>5, <1>6, <1>7, <1>9, <1>10 DEF Counting

LEMMA RetryKeeps ==
  ASSUME IInv, NEW c \in Callers, Retry(c)
  PROVE  IInv'
<1>. USE DEF IInv, TypeOK
<1>1. calls' \in [Callers -> Calls] /\ \A d \in Callers : calls'[d].running = calls[d].running
  BY DEF Retry, Calls
<1>2. UNCHANGED <<entry, provider, admitted, failed>>
  BY DEF Retry
<1>. QED
  BY <1>1, <1>2 DEF ProbeUnderWay, Counting

LEMMA SucceedKeeps ==
  ASSUME IInv, NEW c \in Callers, Succeed(c)
  PROVE  IInv'
<1>. USE DEF IInv, TypeOK
<1>1. calls' \in [Callers -> Calls]
  BY DEF Succeed, Calls, NoCall
<1>2. CASE entry.state = "HALF_OPEN"
  <2>1. entry' = Closed(entry) /\ admitted' = 0 /\ failed' = 0 /\ provider' = provider
    BY <1>2 DEF Succeed
  <2>2. entry' \in Entries /\ entry'.state = "CLOSED" /\ entry'.failures = 0
    BY <2>1, Closes
  <2>. QED
    BY <1>1, <2>1, <2>2 DEF ProbeUnderWay, Counting
<1>3. CASE entry.state # "HALF_OPEN"
  BY <1>1, <1>3 DEF Succeed, ProbeUnderWay, Counting
<1>. QED
  BY <1>2, <1>3

LEMMA FailKeeps ==
  ASSUME IInv, NEW c \in Callers, Fail(c)
  PROVE  IInv'
<1>. USE DEF IInv, TypeOK
<1>1. calls' \in [Callers -> Calls]
  BY DEF Fail, Calls, NoCall
<1>2. /\ entry' = Counted(entry) /\ provider' = provider
      /\ admitted' = IF entry'.state = "OPEN" THEN 0 ELSE admitted
      /\ failed' = IF entry.state = "CLOSED" THEN UpTo(failed) ELSE failed
  BY DEF Fail
<1>3. entry' \in Entries /\ entry'.state # "HALF_OPEN"
  BY <1>2, Counts
<1>4. admitted' \in Nat /\ failed' \in 0..Threshold
  BY <1>2, CounterBounded
<1>5. entry'.state = "CLOSED" => entry'.failures = failed'
  BY <1>2, Counts DEF Counting
<1>. QED
  BY <1>1, <1>2, <1>3, <1>4, <1>5 DEF ProbeUnderWay, Counting

LEMMA NextKeeps ==
  ASSUME IInv, [Next]_vars
  PROVE  IInv'
<1>. USE DEF IInv, TypeOK
<1>1. CASE Cool
  <2>1. entry' \in Entries /\ entry'.state = entry.state
        /\ entry'.sent = entry.sent /\ entry'.failures = entry.failures
    BY <1>1 DEF Cool, Entries
  <2>. QED
    BY <1>1, <2>1 DEF Cool, ProbeUnderWay, Counting
<1>2. CASE ProviderTurns
  BY <1>2 DEF ProviderTurns, ProbeUnderWay, Counting
<1>3. CASE UNCHANGED vars
  BY <1>3 DEF vars, ProbeUnderWay, Counting
<1>. QED
  BY <1>1, <1>2, <1>3, CallKeeps, RetryKeeps, SucceedKeeps, FailKeeps DEF Next

LEMMA Inductive == Spec => []IInv
BY InitIInv, NextKeeps, PTL DEF Spec

(* The breaker and its calls keep their types.                             *)
THEOREM TypeCorrect == Spec => []TypeOK
BY Inductive, PTL DEF IInv

(* A half-open breaker waits for a call that runs.                         *)
THEOREM ProbeIsUnderWay == Spec => []ProbeUnderWay
BY Inductive, PTL DEF IInv

(* A breaker that is not closed has let at most halfOpenMaxRequests calls  *)
(* through since it opened.                                                *)
THEOREM ProbesAreBounded == Spec => []ProbesBounded
<1>1. IInv => ProbesBounded
  BY DEF IInv, TypeOK, Counting, ProbesBounded, Entries
<1>. QED
  BY <1>1, Inductive, PTL

(* A closed breaker opens only for failureThreshold failures since it      *)
(* closed.                                                                 *)
THEOREM TripsAreEarned == Spec => TripIsEarned
<1>. DEFINE Trip == entry.state = "CLOSED" /\ entry'.state = "OPEN" => failed' = Threshold
<1>1. ASSUME IInv, [Next]_vars PROVE Trip
  <2>. USE DEF IInv, TypeOK
  <2>1. ASSUME NEW c \in Callers, Call(c) PROVE Trip
    <3>1. entry.state = "CLOSED" => entry' = Admit(entry)
      BY <1>1, <2>1, HalfOpens DEF Call
    <3>. QED
      BY <1>1, <3>1, Admits
  <2>2. ASSUME NEW c \in Callers, Succeed(c) PROVE Trip
    BY <2>2 DEF Succeed
  <2>3. ASSUME NEW c \in Callers, Fail(c) PROVE Trip
    BY <1>1, <2>3, Counts DEF Fail, Counting
  <2>4. ASSUME Cool \/ ProviderTurns \/ UNCHANGED vars \/ \E c \in Callers : Retry(c) PROVE Trip
    BY <2>4 DEF Cool, ProviderTurns, vars, Retry
  <2>. QED
    BY <1>1, <2>1, <2>2, <2>3, <2>4 DEF Next
<1>2. IInv /\ [Next]_vars => [Trip]_vars
  BY <1>1
<1>. QED
  BY <1>2, Inductive, PTL DEF Spec, TripIsEarned

(***************************************************************************)
(* The scheduled jobs.                                                     *)
(***************************************************************************)
(* A file is removed only by somebody who has seen its document's row: the *)
(* row is there, whatever has become of it, so that no upload brings the   *)
(* file back before the document is marked deleted.                        *)
JobRuns == [pc : {"idle", "list", "work"}, todo : SUBSET Rows, full : BOOLEAN,
            tried : SUBSET Rows, removed : SUBSET Rows]

JobTypes ==
  /\ row \in [Rows -> {"due", "absent", "settled"}]
  /\ run \in JobRuns /\ deleting \subseteq Rows

FilesFollow ==
  kind = "documents" =>
    \A i \in Rows :
      /\ row[i] = "settled" => i \notin file \/ i \in keyless
      /\ i \in run.todo => row[i] # "absent"
      /\ i \in run.removed \cup deleting => row[i] # "absent" /\ (i \notin file \/ i \in keyless)

JobInv == JobTypes /\ FilesFollow

(* The run gives rows up, or takes up rows that are due, and touches none. *)
LEMMA RunMoves ==
  ASSUME JobInv, UNCHANGED <<kind, keyless, row, file, deleting>>, run' \in JobRuns,
         run'.todo \subseteq run.todo \cup Due, run'.removed \subseteq run.removed
  PROVE  JobInv'
BY DEF JobInv, JobTypes, FilesFollow, Due

(* The run is done with a row, which it may have settled.                  *)
LEMMA RunSettles ==
  ASSUME JobInv, NEW i \in Rows, Handles(i), Tried(i),
         UNCHANGED <<kind, keyless, file, deleting>>,
         \/ row' = row
         \/ /\ row' = [row EXCEPT ![i] = "settled"]
            /\ kind = "documents" => i \notin file \/ i \in keyless
  PROVE  JobInv'
<1>1. /\ run' \in JobRuns /\ run'.todo = run.todo \ {i} /\ run'.removed = {}
  BY DEF JobInv, JobTypes, JobRuns, Tried
<1>. QED
  BY <1>1 DEF JobInv, JobTypes, FilesFollow

LEMMA JobStep ==
  ASSUME JobInv, [JobsNext]_jobsVars
  PROVE  JobInv'
<1>. USE DEF JobRuns
<1>1. NoRun \in JobRuns /\ NoRun.todo = {} /\ NoRun.removed = {}
  BY DEF NoRun
<1>2. run \in JobRuns
  BY DEF JobInv, JobTypes
<1>3. CASE StartRun
  BY <1>1, <1>3, RunMoves DEF StartRun, NoRun
<1>4. CASE List
  <2>1. PICK listed \in Batches, full \in BOOLEAN :
          LET fresh == Fresh(listed) IN
          run' = IF fresh = {} THEN NoRun
                 ELSE [run EXCEPT !.pc = "work", !.todo = fresh, !.full = full]
    BY <1>4 DEF List
  <2>2. Fresh(listed) \subseteq Due /\ Due \subseteq Rows
    BY DEF Batches, First, Fresh, Due
  <2>3. run' \in JobRuns /\ run'.todo \subseteq Due /\ run'.removed \subseteq run.removed
    BY <1>1, <1>2, <2>1, <2>2
  <2>. QED
    BY <1>4, <2>3, RunMoves DEF List
<1>5. CASE NextBatch
  <2>1. run' \in JobRuns /\ run'.todo \subseteq run.todo /\ run'.removed \subseteq run.removed
    BY <1>1, <1>2, <1>5 DEF NextBatch
  <2>. QED
    BY <1>5, <2>1, RunMoves DEF NextBatch
<1>6. CASE RunDies
  BY <1>1, <1>6, RunMoves DEF RunDies
<1>7. ASSUME NEW i \in Rows, Settle(i) \/ SettleFails(i) PROVE JobInv'
  BY <1>7, RunSettles DEF Settle, SettleFails
<1>8. ASSUME NEW i \in Rows, RemoveFile(i) PROVE JobInv'
  <2>1. /\ run' = [run EXCEPT !.removed = {i}] /\ file' = WithoutFile(i) /\ i \in run.todo
        /\ UNCHANGED <<kind, keyless, row, deleting>>
    BY <1>8 DEF RemoveFile, Handles
  <2>. QED
    BY <1>2, <2>1 DEF JobInv, JobTypes, FilesFollow, WithoutFile
<1>9. ASSUME NEW i \in Rows, MarkDeleted(i) PROVE JobInv'
  <2>1. i \in run.removed
    BY <1>9 DEF MarkDeleted
  <2>. QED
    BY <1>9, <2>1, RunSettles DEF MarkDeleted, JobInv, FilesFollow
<1>10. ASSUME NEW i \in Rows, SettledElsewhere(i) \/ InsertRow(i) PROVE JobInv'
  BY <1>10 DEF SettledElsewhere, InsertRow, JobInv, JobTypes, FilesFollow
<1>11. ASSUME NEW i \in Rows, Upload(i) \/ UploadUndone(i) \/ UserRemovesFile(i)
       PROVE  JobInv'
  BY <1>11 DEF Upload, UploadUndone, UserRemovesFile, WithoutFile, JobInv, JobTypes, FilesFollow
<1>12. ASSUME NEW i \in Rows, UserMarksDeleted(i) \/ UserRequestDies(i) PROVE JobInv'
  BY <1>12 DEF UserMarksDeleted, UserRequestDies, JobInv, JobTypes, FilesFollow
<1>13. CASE UNCHANGED jobsVars
  BY <1>13 DEF jobsVars, JobInv, JobTypes, FilesFollow
<1>. QED
  BY <1>3, <1>4, <1>5, <1>6, <1>7, <1>8, <1>9, <1>10, <1>11, <1>12, <1>13
     DEF JobsNext, Work

LEMMA JobInvariant == JobsSpec => []JobInv
<1>1. JobsInit => JobInv
  BY DEF JobsInit, NoRun, JobInv, JobTypes, JobRuns, FilesFollow
<1>. QED
  BY <1>1, JobStep, PTL DEF JobsSpec

(* The file of a deleted document is gone, if there was a key to delete it *)
(* by, whatever the retention job, the users, the deletions that fail and  *)
(* the runs that die do to each other.                                     *)
THEOREM DeletedFilesAreGone == JobsSpec => []DeletedIsGone
<1>1. JobInv => DeletedIsGone
  BY DEF JobInv, FilesFollow, DeletedIsGone
<1>. QED
  BY <1>1, JobInvariant, PTL
================================================================================
