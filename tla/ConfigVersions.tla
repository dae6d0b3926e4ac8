----------------------------- MODULE ConfigVersions -----------------------------
(***************************************************************************)
(* The configuration a leave runs under and the versions of it a leave     *)
(* refers to.  An edition of a workflow or of a policy is saved in one     *)
(* transaction with its version, behind the lock of its row.  A leave type *)
(* is saved by single statements: the row, then a copy of the row, then    *)
(* the next number, then the version.  createLeave reads what it runs      *)
(* under and what it refers to by single statements too, so that editions  *)
(* and versions may come in between.                                       *)
(***************************************************************************)
EXTENDS Naturals, Sequences

CONSTANTS
  Editors,  \* saves of the leave type that are under way together
  Leaves,   \* submissions
  MaxEdits  \* bound: editions of each kind

ASSUME ConfigAssumption == MaxEdits \in Nat \ {0}

VARIABLES
  live,      \* the edition in force of each kind; 0: none yet
  editions,  \* how many editions of each kind there have been
  versions,  \* leave_type_versions, workflow_versions, policy_versions
  editor,    \* each save of the type: its step, the copy it took, its number
  leave,     \* each submission: the read it is at, what it ran under and what
             \* it refers to so far
  disturbed  \* history: the last save of the type met another, or left no
             \* version

configVars == <<live, editions, versions, editor, leave, disturbed>>

Kinds == {"type", "workflow", "policy"}
NoSave == [pc |-> "idle", copy |-> 0, number |-> 0]
Unread == [k \in Kinds |-> 0]
NoLeave == [at |-> 1, ran |-> Unread, refers |-> Unread]

ConfigInit ==
  /\ live = Unread /\ editions = Unread
  /\ versions = [k \in Kinds |-> <<>>]
  /\ editor = [e \in Editors |-> NoSave]
  /\ leave = [l \in Leaves |-> NoLeave]
  /\ disturbed = FALSE

\* A new edition of kind k is in force.
Replace(k) ==
  /\ editions[k] < MaxEdits
  /\ editions' = [editions EXCEPT ![k] = @ + 1]
  /\ live' = [live EXCEPT ![k] = editions'[k]]

(***************************************************************************)
(* Saving.                                                                 *)
(***************************************************************************)
\* Slip: the version is made of what the edition replaces.
SaveFirst(k) ==
  /\ Replace(k)
  /\ versions' = [versions EXCEPT ![k] = Append(@, live[k])]
  /\ UNCHANGED <<editor, leave, disturbed>>

\* createWorkflow, updateWorkflow, createPolicy, updatePolicy
Save(k) ==
  /\ Replace(k)
  /\ versions' = [versions EXCEPT ![k] = Append(@, live'[k])]
  /\ UNCHANGED <<editor, leave, disturbed>>

Busy == {e \in Editors : editor[e].pc # "idle"}

\* createLeaveType, updateLeaveType: the row ...
WriteType(e) ==
  /\ editor[e].pc = "idle" /\ Replace("type")
  /\ editor' = [editor EXCEPT ![e].pc = "written"]
  /\ disturbed' = (Busy # {})
  /\ UNCHANGED <<versions, leave>>

\* ... and createVersion, which reads it again, ...
CopyType(e) ==
  /\ editor[e].pc = "written"
  /\ editor' = [editor EXCEPT ![e] = [@ EXCEPT !.pc = "copied", !.copy = live["type"]]]
  /\ UNCHANGED <<live, editions, versions, leave, disturbed>>

NumberType(e) ==
  /\ editor[e].pc = "copied"
  /\ LET next == Len(versions["type"]) + 1 IN
     editor' = [editor EXCEPT ![e] = [@ EXCEPT !.pc = "numbered", !.number = next]]
  /\ UNCHANGED <<live, editions, versions, leave, disturbed>>

\* ... unless the number was taken meanwhile: it is unique.
InsertVersion(e) ==
  /\ editor[e].pc = "numbered" /\ editor[e].number = Len(versions["type"]) + 1
  /\ versions' = [versions EXCEPT !["type"] = Append(@, editor[e].copy)]
  /\ editor' = [editor EXCEPT ![e] = NoSave]
  /\ UNCHANGED <<live, editions, leave, disturbed>>

\* The number is taken, a statement fails, or the request dies.
SaveFails(e) ==
  /\ editor[e].pc # "idle"
  /\ editor' = [editor EXCEPT ![e] = NoSave] /\ disturbed' = TRUE
  /\ UNCHANGED <<live, editions, versions, leave>>

(***************************************************************************)
(* A submission: the type and the policies before its transaction.         *)
(***************************************************************************)
\* Slip: the version of the workflow is looked up before its steps.
ReadsVersionFirst ==
  << <<"type", "live">>, <<"policy", "live">>, <<"policy", "version">>,
     <<"workflow", "version">>, <<"workflow", "live">>, <<"type", "version">> >>

Reads ==
  << <<"type", "live">>, <<"policy", "live">>, <<"policy", "version">>,
     <<"workflow", "live">>, <<"type", "version">>, <<"workflow", "version">> >>

Submitted(l) == leave[l].at > Len(Reads)

\* A missing type, workflow or version refuses the leave.  Where there is no
\* policy there is none to look up.
ReadNext(l) ==
  LET s == leave[l]
      kind == Reads[s.at][1]
      number == Len(versions[kind])
      nothing == kind = "policy" /\ s.ran[kind] = 0
      Went(ran, refers) ==
        leave' = [leave EXCEPT ![l] = [at |-> s.at + 1, ran |-> ran, refers |-> refers]]
  IN
  /\ ~ Submitted(l)
  /\ \/ /\ Reads[s.at][2] = "live"
        /\ live[kind] # 0 \/ kind = "policy"
        /\ Went([s.ran EXCEPT ![kind] = live[kind]], s.refers)
     \/ /\ Reads[s.at][2] = "version"
        /\ number # 0 \/ nothing
        /\ Went(s.ran, [s.refers EXCEPT ![kind] = IF nothing THEN 0 ELSE number])
  /\ UNCHANGED <<live, editions, versions, editor, disturbed>>

SubmissionRefused(l) ==
  /\ ~ Submitted(l) /\ leave[l].at > 1
  /\ leave' = [leave EXCEPT ![l] = NoLeave]
  /\ UNCHANGED <<live, editions, versions, editor, disturbed>>

ConfigNext ==
  \/ \E k \in {"workflow", "policy"} : Save(k)
  \/ \E e \in Editors : \/ WriteType(e) \/ CopyType(e) \/ NumberType(e)
                        \/ InsertVersion(e) \/ SaveFails(e)
  \/ \E l \in Leaves : ReadNext(l) \/ SubmissionRefused(l)

ConfigSpec == ConfigInit /\ [][ConfigNext]_configVars

-----------------------------------------------------------------------------
Recorded(k, upTo) == {versions[k][n] : n \in 1..upTo}

\* "A leave references the versions it was created under" (docs/migrations/
\* migrate-0024-config-versioning-and-schema-cleanup.md): the chain and the
\* policies a leave ran under are recorded, in the version it refers to or,
\* if they were edited while it was submitted, in one before it.  It never
\* refers to a version older than what it ran under.
RanUnderAVersion ==
  \A l \in Leaves, k \in {"workflow", "policy"} :
    Submitted(l) /\ leave[l].ran[k] # 0 =>
      leave[l].ran[k] \in Recorded(k, leave[l].refers[k])

\* update-leave-type.service.ts:56, "leaves created from now on reference the
\* new version": between saves the last version of everything is the one in
\* force, unless the last save of the type met another or left no version.
LatestIsInForce ==
  \A k \in Kinds :
    (k = "type" => ~disturbed /\ Busy = {}) =>
      live[k] = (IF versions[k] = <<>> THEN 0 ELSE versions[k][Len(versions[k])])
=================================================================================
