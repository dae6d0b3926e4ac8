------------------------------- MODULE BatchJobs -------------------------------
(***************************************************************************)
(* The loop that the scheduled jobs share: list the first rows that are    *)
(* due, settle each in a transaction of its own, and list again while the  *)
(* batches come back full.  The jobs that retire documents and passes      *)
(* remember what a run has tried; the three of expire-leaves (complete,    *)
(* expire, mark overdue) do not.  A document's file goes before its row,   *)
(* and users upload and delete documents meanwhile.  The address of a file *)
(* of an earlier release may be none of this storage: such a document has  *)
(* no key, and its file is passed over.                                    *)
(***************************************************************************)
EXTENDS Integers, FiniteSets

CONSTANTS
  Rows,        \* rows in the order the query lists them
  BatchSize,
  MaxMishaps   \* bound of passing failures and of runs that die

ASSUME JobAssumption ==
  /\ Rows \subseteq Int /\ IsFiniteSet(Rows)
  /\ BatchSize \in Nat \ {0} /\ MaxMishaps \in Nat

VARIABLES
  kind,     \* what the job settles
  stuck,    \* rows whose transaction, or whose file's deletion, always fails
  keyless,  \* documents whose address gives no key to delete the file by
  row,      \* each row; "due" is a document's ACTIVE
  file,     \* documents whose file is stored
  run,      \* the run: its step, the rows left of its batch, whether the batch
            \* was full, what it has tried, the row whose file it has removed
  deleting, \* documents whose file a user's request has removed
  mishaps

jobsVars == <<kind, stuck, keyless, row, file, run, deleting, mishaps>>

Kinds == {"documents", "passes", "leaves"}
NoRun == [pc |-> "idle", todo |-> {}, full |-> FALSE, tried |-> {}, removed |-> {}]

JobsInit ==
  /\ kind \in Kinds /\ stuck \in SUBSET Rows
  /\ row \in [Rows -> IF kind = "documents" THEN {"due", "absent"} ELSE {"due"}]
  /\ keyless \in IF kind = "documents" THEN SUBSET {i \in Rows : row[i] = "due"} ELSE {{}}
  /\ file = IF kind = "documents" THEN {i \in Rows : row[i] = "due"} ELSE {}
  /\ run = NoRun /\ deleting = {} /\ mishaps = 0

Due == {i \in Rows : row[i] = "due"}
First == {i \in Due : Cardinality({j \in Due : j < i}) < BatchSize}
\* findExpired has a limit and no order: any rows that are due.
Batches ==
  IF kind = "passes" THEN {S \in SUBSET Due : Cardinality(S) = Cardinality(First)}
  ELSE {First}
Mishap == mishaps < MaxMishaps /\ mishaps' = mishaps + 1

\* Slip: what this run has tried is listed again.
FreshForgetting(listed) == listed

Fresh(listed) == IF kind = "leaves" THEN listed ELSE listed \ run.tried

StartRun ==
  /\ run.pc = "idle" /\ run' = [NoRun EXCEPT !.pc = "list"]
  /\ UNCHANGED <<kind, stuck, keyless, row, file, deleting, mishaps>>

List ==
  /\ run.pc = "list"
  /\ \E listed \in Batches :
       LET fresh == Fresh(listed) IN
       run' = IF fresh = {} THEN NoRun
              ELSE [run EXCEPT !.pc = "work", !.todo = fresh,
                               !.full = Cardinality(listed) = BatchSize]
  /\ UNCHANGED <<kind, stuck, keyless, row, file, deleting, mishaps>>

\* The run is done with row i of its batch.
Tried(i) == run' = [run EXCEPT !.todo = @ \ {i}, !.tried = @ \cup {i}, !.removed = {}]

\* The batch is worked through in the order it was listed.
Handles(i) == run.pc = "work" /\ i \in run.todo /\ \A j \in run.todo : i <= j

\* A row that was settled since it was listed is passed over.
Settle(i) ==
  /\ Handles(i) /\ kind # "documents" /\ i \notin stuck
  /\ row' = [row EXCEPT ![i] = "settled"]
  /\ Tried(i)
  /\ UNCHANGED <<kind, stuck, keyless, file, deleting, mishaps>>

\* Slip: the first failure ends the run.
SettleFailsRun(i) ==
  /\ Handles(i) /\ run.removed = {}
  /\ i \in stuck /\ UNCHANGED mishaps
  /\ run' = NoRun
  /\ UNCHANGED <<kind, stuck, keyless, row, file, deleting>>

\* One failing row does not end the batch.
SettleFails(i) ==
  /\ Handles(i)
  /\ \/ i \in stuck /\ run.removed = {} /\ UNCHANGED mishaps
     \/ Mishap
  /\ Tried(i)
  /\ UNCHANGED <<kind, stuck, keyless, row, file, deleting>>

\* What deleteByKey leaves of the files, if there is a key to call it with.
WithoutFile(i) == IF i \in keyless THEN file ELSE file \ {i}

RemoveFile(i) ==
  /\ Handles(i) /\ kind = "documents" /\ i \notin stuck /\ run.removed = {}
  /\ file' = WithoutFile(i)
  /\ run' = [run EXCEPT !.removed = {i}]
  /\ UNCHANGED <<kind, stuck, keyless, row, deleting, mishaps>>

\* Slip: the row is marked whatever the deletion of its file has returned.
MarkAnyway(i) ==
  /\ Handles(i) /\ kind = "documents"
  /\ row' = [row EXCEPT ![i] = "settled"]
  /\ Tried(i)
  /\ UNCHANGED <<kind, stuck, keyless, file, deleting, mishaps>>

\* updateStatus sets DELETED on whatever the row has become.
MarkDeleted(i) ==
  /\ Handles(i) /\ run.removed = {i}
  /\ row' = [row EXCEPT ![i] = "settled"]
  /\ Tried(i)
  /\ UNCHANGED <<kind, stuck, keyless, file, deleting, mishaps>>

\* The batch is through: a full one may not have been the last.
NextBatch ==
  /\ run.pc = "work" /\ run.todo = {}
  /\ run' = IF run.full THEN [run EXCEPT !.pc = "list"] ELSE NoRun
  /\ UNCHANGED <<kind, stuck, keyless, row, file, deleting, mishaps>>

RunDies ==
  /\ run.pc # "idle" /\ Mishap /\ run' = NoRun
  /\ UNCHANGED <<kind, stuck, keyless, row, file, deleting>>

-----------------------------------------------------------------------------
\* A scan, a decision or a request of staff settles a pass or a leave.
SettledElsewhere(i) ==
  /\ kind # "documents" /\ row[i] = "due"
  /\ row' = [row EXCEPT ![i] = "settled"]
  /\ UNCHANGED <<kind, stuck, keyless, file, run, deleting, mishaps>>

\* uploadLeaveDocument: the file, then its row.
Upload(i) ==
  /\ kind = "documents" /\ row[i] = "absent" /\ i \notin file
  /\ file' = file \cup {i}
  /\ UNCHANGED <<kind, stuck, keyless, row, run, deleting, mishaps>>

InsertRow(i) ==
  /\ kind = "documents" /\ row[i] = "absent" /\ i \in file
  /\ row' = [row EXCEPT ![i] = "due"]
  /\ UNCHANGED <<kind, stuck, keyless, file, run, deleting, mishaps>>

\* The row could not be inserted: the file is deleted again.
UploadUndone(i) ==
  /\ kind = "documents" /\ row[i] = "absent" /\ i \in file \ stuck /\ Mishap
  /\ file' = file \ {i}
  /\ UNCHANGED <<kind, stuck, keyless, row, run, deleting>>

\* deleteLeaveDocument does not ask for the row's status.
UserRemovesFile(i) ==
  /\ kind = "documents" /\ row[i] # "absent" /\ i \notin stuck /\ Mishap
  /\ file' = WithoutFile(i) /\ deleting' = deleting \cup {i}
  /\ UNCHANGED <<kind, stuck, keyless, row, run>>

UserMarksDeleted(i) ==
  /\ i \in deleting
  /\ row' = [row EXCEPT ![i] = "settled"] /\ deleting' = deleting \ {i}
  /\ UNCHANGED <<kind, stuck, keyless, file, run, mishaps>>

UserRequestDies(i) ==
  /\ i \in deleting /\ deleting' = deleting \ {i}
  /\ UNCHANGED <<kind, stuck, keyless, row, file, run, mishaps>>

-----------------------------------------------------------------------------
Work == List \/ NextBatch
        \/ \E i \in Rows : Settle(i) \/ SettleFails(i) \/ RemoveFile(i) \/ MarkDeleted(i)

JobsNext ==
  \/ StartRun \/ Work \/ RunDies
  \/ \E i \in Rows : SettledElsewhere(i) \/ Upload(i) \/ InsertRow(i) \/ UploadUndone(i)
  \/ \E i \in Rows : UserRemovesFile(i) \/ UserMarksDeleted(i) \/ UserRequestDies(i)

JobsSpec == JobsInit /\ [][JobsNext]_jobsVars

\* The scheduler starts runs, and a run that has not died goes on.
FairJobsSpec == JobsSpec /\ WF_jobsVars(StartRun) /\ WF_jobsVars(Work)

\* "silently marking DELETED while the file lives on is an orphan by design"
\* (delete-document.service.ts:48): no interleaving of the job, users, failing
\* deletions and runs that die leaves the file of a DELETED document behind,
\* but for a document without a key, whose file nobody removes.
DeletedIsGone ==
  \A i \in Rows : kind = "documents" /\ row[i] = "settled" => i \notin file \/ i \in keyless

\* A run ends, however many rows fail each time it tries them, if it remembers
\* what it has tried ("so a persistent failure cannot spin the batch loop
\* forever", cleanup-qr.job.ts:36).
RunEnds == run.pc # "idle" /\ kind # "leaves" ~> run.pc = "idle"

\* While fewer rows are stuck than a batch holds, every other row that is due
\* is settled in the end, by this run or a later one.
BacklogClears ==
  Cardinality(stuck) < BatchSize =>
    \A i \in Rows : i \notin stuck /\ row[i] = "due" ~> row[i] = "settled"
================================================================================
