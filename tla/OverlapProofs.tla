------------------------------ MODULE OverlapProofs ------------------------------
(***************************************************************************)
(* Proof that the guard keeps leaves of one type apart for any number of   *)
(* leaves, types and days, but for the pairs of which neither looked at    *)
(* the other.                                                              *)
(***************************************************************************)
EXTENDS OverlapGuard, TLAPS

USE OverlapAssumption

(* A leave has a claim to its days from the check of its creation on, and  *)
(* to the days of its extension from the check of its approval on.         *)
Claimed(l) == Live(l) \/ leave[l].status = "creating"
Reach(l) == IF l \in widening THEN extension[l] ELSE leave[l].to

Touch(a, b) ==
  /\ leave[a].type = leave[b].type
  /\ Reach(a) >= leave[b].from /\ leave[a].from <= Reach(b)

Apart ==
  \A a, b \in Leaves :
    a # b /\ Claimed(a) /\ Claimed(b) /\ Touch(a, b) => {a, b} \in unseen

(* Which leaves a creation or an extension is under way for.               *)
UnderWay ==
  /\ \A l \in Leaves : leave[l].status = "creating" => creating = l
  /\ \A l \in widening : leave[l].status = "approved" /\ extension[l] > 0
  /\ \A l \in Leaves : extension[l] > 0 =>
       extension[l] > leave[l].to /\ leave[l].status \notin {"absent", "creating"}

IInv == TypeOK /\ UnderWay /\ Apart

-----------------------------------------------------------------------------
LEMMA Names == None \notin Leaves /\ LastDay \in Nat
OBVIOUS

(* The fields of a leave, one by one.                                      *)
LEMMA Fields ==
  ASSUME TypeOK, NEW l \in Leaves
  PROVE  /\ leave[l].type \in Types /\ leave[l].from \in Days /\ leave[l].to \in Days
         /\ extension[l] \in 0..LastDay
BY DEF TypeOK, Rows

(* Meeting is symmetric, so the pairs of the leave that a transaction is   *)
(* about are enough.                                                       *)
LEMMA ApartByLeave ==
  ASSUME TypeOK', NEW l \in Leaves,
         \A k \in Leaves \ {l} : (Claimed(l) /\ Claimed(k) /\ Touch(l, k))' => {l, k} \in unseen',
         \A a, b \in Leaves \ {l} :
           a # b /\ (Claimed(a) /\ Claimed(b) /\ Touch(a, b))' => {a, b} \in unseen'
  PROVE  Apart'
<1>1. \A a \in Leaves : leave'[a].from \in Nat /\ Reach(a)' \in Nat
  BY DEF TypeOK, Rows, Days, Reach
<1>2. ASSUME NEW a \in Leaves, NEW b \in Leaves PROVE Touch(a, b)' => Touch(b, a)'
  BY <1>1 DEF Touch
<1>3. SUFFICES ASSUME NEW a \in Leaves, NEW b \in Leaves, a # b,
                      Claimed(a)', Claimed(b)', Touch(a, b)'
               PROVE  {a, b} \in unseen'
  BY DEF Apart
<1>4. {a, b} = {b, a}
  OBVIOUS
<1>5. CASE a = l
  BY <1>3, <1>5
<1>6. CASE b = l
  BY <1>2, <1>3, <1>4, <1>6
<1>7. CASE a # l /\ b # l
  BY <1>3, <1>7
<1>. QED
  BY <1>5, <1>6, <1>7

LEMMA InitIInv == Init => IInv
<1>1. SUFFICES ASSUME Init PROVE IInv
  OBVIOUS
<1>2. PICK t \in Types :
        leave = [l \in Leaves |-> [status |-> "absent", type |-> t, from |-> 1, to |-> 1]]
  BY <1>1 DEF Init
<1>3. 1 \in Days
  BY DEF Days
<1>4. [status |-> "absent", type |-> t, from |-> 1, to |-> 1] \in Rows
  BY <1>3 DEF Rows
<1>5. leave \in [Leaves -> Rows] /\ \A l \in Leaves : leave[l].status = "absent"
  BY <1>2, <1>4
<1>6. TypeOK
  BY <1>1, <1>5 DEF Init, TypeOK
<1>7. UnderWay
  BY <1>1, <1>5 DEF Init, UnderWay
<1>8. Apart
  BY <1>5 DEF Apart, Claimed, Live
<1>. QED
  BY <1>6, <1>7, <1>8 DEF IInv

(* What a look leaves of the pairs: those of other leaves stay.            *)
LEMMA Looks ==
  ASSUME NEW l \in Leaves, NEW hidden \in SUBSET Leaves, Look(l, hidden), unseen \subseteq Pairs
  PROVE  /\ unseen' \subseteq Pairs
         /\ \A k \in hidden \ {l} : {l, k} \in unseen'
         /\ \A a, b \in Leaves \ {l} : {a, b} \in unseen => {a, b} \in unseen'
BY DEF Look, Pairs

LEMMA CreateKeeps ==
  ASSUME IInv, NEW l \in Leaves, Create(l)
  PROVE  IInv'
<1>. USE DEF IInv, TypeOK
<1>1. PICK t \in Types, from \in Days, to \in Days :
        /\ creating = None /\ leave[l].status = "absent" /\ from <= to
        /\ Clear(l, t, from, to)
        /\ leave' = [leave EXCEPT ![l] =
                       [status |-> "creating", type |-> t, from |-> from, to |-> to]]
        /\ creating' = l /\ Look(l, widening)
        /\ UNCHANGED <<extension, widening>>
  BY DEF Create
<1>2. [status |-> "creating", type |-> t, from |-> from, to |-> to] \in Rows
  BY DEF Rows
<1>3. /\ leave' \in [Leaves -> Rows]
      /\ leave'[l].status = "creating" /\ leave'[l].type = t
      /\ leave'[l].from = from /\ leave'[l].to = to
      /\ \A k \in Leaves \ {l} : leave'[k] = leave[k]
  BY <1>1, <1>2
<1>4. /\ unseen' \subseteq Pairs
      /\ \A k \in widening \ {l} : {l, k} \in unseen'
      /\ \A a, b \in Leaves \ {l} : {a, b} \in unseen => {a, b} \in unseen'
  BY <1>1, Looks
<1>5. TypeOK'
  BY <1>1, <1>3, <1>4
<1>6. l \notin widening /\ extension[l] = 0
  BY <1>1, Fields DEF UnderWay
<1>7. UnderWay'
  BY <1>1, <1>3, <1>6, Names DEF UnderWay
<1>8. ASSUME NEW k \in Leaves \ {l}, (Claimed(l) /\ Claimed(k) /\ Touch(l, k))'
      PROVE  {l, k} \in unseen'
  <2>1. Live(k)
    BY <1>1, <1>3, <1>8, Names DEF Claimed, Live, UnderWay
  <2>2. leave[k].type = t /\ to >= leave[k].from
    BY <1>1, <1>3, <1>6, <1>8 DEF Touch, Reach
  <2>3. CASE k \in widening
    BY <1>4, <2>3
  <2>4. CASE k \notin widening
    <3>1. from <= leave[k].to
      BY <1>1, <1>3, <1>8, <2>4 DEF Touch, Reach
    <3>2. Meets(k, from, to)
      BY <2>2, <3>1, Fields DEF Meets, Days
    <3>. QED
      BY <1>1, <2>1, <2>2, <3>2 DEF Clear
  <2>. QED
    BY <2>3, <2>4
<1>9. ASSUME NEW a \in Leaves \ {l}, NEW b \in Leaves \ {l}, a # b,
             (Claimed(a) /\ Claimed(b) /\ Touch(a, b))'
      PROVE  {a, b} \in unseen'
  BY <1>1, <1>3, <1>4, <1>9 DEF Apart, Claimed, Live, Touch, Reach
<1>10. Apart'
  BY <1>5, <1>8, <1>9, ApartByLeave
<1>. QED
  BY <1>5, <1>7, <1>10

LEMMA WidenKeeps ==
  ASSUME IInv, NEW l \in Leaves, Widen(l)
  PROVE  IInv'
<1>. USE DEF IInv, TypeOK
<1>. DEFINE hidden == (widening \cup {creating}) \ {None}
<1>1. /\ extension[l] > 0 /\ leave[l].status = "approved" /\ l \notin widening
      /\ Clear(l, leave[l].type, leave[l].from, extension[l])
      /\ widening' = widening \cup {l} /\ Look(l, hidden)
      /\ leave' = leave /\ extension' = extension /\ creating' = creating
  BY DEF Widen
<1>2. hidden \in SUBSET Leaves
  BY Names
<1>3. /\ unseen' \subseteq Pairs
      /\ \A k \in hidden \ {l} : {l, k} \in unseen'
      /\ \A a, b \in Leaves \ {l} : {a, b} \in unseen => {a, b} \in unseen'
  BY <1>1, <1>2, Looks
<1>4. TypeOK'
  BY <1>1, <1>3
<1>5. UnderWay'
  BY <1>1 DEF UnderWay
<1>6. ASSUME NEW k \in Leaves \ {l}, (Claimed(l) /\ Claimed(k) /\ Touch(l, k))'
      PROVE  {l, k} \in unseen'
  <2>1. CASE k \in hidden
    BY <1>3, <2>1
  <2>2. CASE k \notin hidden
    <3>1. Live(k) /\ k \notin widening
      BY <1>1, <1>6, <2>2, Names DEF Claimed, Live, UnderWay
    <3>2. /\ leave[k].type = leave[l].type
          /\ extension[l] >= leave[k].from /\ leave[l].from <= leave[k].to
      BY <1>1, <1>6, <3>1 DEF Touch, Reach
    <3>3. Meets(k, leave[l].from, extension[l])
      BY <3>2, Fields DEF Meets, Days
    <3>. QED
      BY <1>1, <3>1, <3>2, <3>3 DEF Clear
  <2>. QED
    BY <2>1, <2>2
<1>7. ASSUME NEW a \in Leaves \ {l}, NEW b \in Leaves \ {l}, a # b,
             (Claimed(a) /\ Claimed(b) /\ Touch(a, b))'
      PROVE  {a, b} \in unseen'
  BY <1>1, <1>3, <1>7 DEF Apart, Claimed, Live, Touch, Reach
<1>8. Apart'
  BY <1>4, <1>6, <1>7, ApartByLeave
<1>. QED
  BY <1>4, <1>5, <1>8

LEMMA RecoverKeeps ==
  ASSUME IInv, NEW l \in Leaves, Recover(l)
  PROVE  IInv'
<1>. USE DEF IInv, TypeOK
<1>. DEFINE looked == {{l, k} : k \in {k \in Leaves \ {l} : leave[k].status # "absent"}}
<1>1. PICK s \in {"pending", "approved"} : leave' = [leave EXCEPT ![l].status = s]
  BY DEF Recover
<1>2. /\ leave[l].status = "rejected" /\ unseen' = unseen \cup looked
      /\ extension' = extension /\ creating' = creating /\ widening' = widening
  BY DEF Recover
<1>3. /\ leave' \in [Leaves -> Rows] /\ leave'[l].status = s
      /\ \A k \in Leaves : /\ leave'[k].type = leave[k].type /\ leave'[k].from = leave[k].from
                           /\ leave'[k].to = leave[k].to
                           /\ k # l => leave'[k].status = leave[k].status
  BY <1>1 DEF Rows
<1>4. looked \subseteq Pairs
  BY DEF Pairs
<1>5. creating # l
  BY <1>2, Names
<1>6. TypeOK'
  BY <1>2, <1>3, <1>4, <1>5
<1>7. UnderWay'
  BY <1>2, <1>3 DEF UnderWay
<1>8. ASSUME NEW k \in Leaves \ {l}, (Claimed(l) /\ Claimed(k) /\ Touch(l, k))'
      PROVE  {l, k} \in unseen'
  <2>1. leave[k].status # "absent"
    BY <1>3, <1>8 DEF Claimed, Live
  <2>. QED
    BY <1>2, <2>1
<1>9. ASSUME NEW a \in Leaves \ {l}, NEW b \in Leaves \ {l}, a # b,
             (Claimed(a) /\ Claimed(b) /\ Touch(a, b))'
      PROVE  {a, b} \in unseen'
  BY <1>2, <1>3, <1>9 DEF Apart, Claimed, Live, Touch, Reach
<1>10. Apart'
  BY <1>6, <1>8, <1>9, ApartByLeave
<1>. QED
  BY <1>6, <1>7, <1>10

(* A transaction that claims no day for a leave keeps the claims apart.    *)
LEMMA QuietKeeps ==
  ASSUME IInv,
         \A a \in Leaves : Claimed(a)' =>
           /\ Claimed(a) /\ leave'[a].type = leave[a].type /\ leave'[a].from = leave[a].from
           /\ Reach(a)' = Reach(a),
         \A a, b \in Leaves : Claimed(a)' /\ Claimed(b)' /\ {a, b} \in unseen => {a, b} \in unseen'
  PROVE  Apart'
BY DEF IInv, Apart, Touch

LEMMA CommitCreationKeeps ==
  ASSUME IInv, NEW l \in Leaves, CommitCreation(l)
  PROVE  IInv'
<1>. USE DEF IInv, TypeOK
<1>1. /\ leave[l].status = "creating" /\ leave' = [leave EXCEPT ![l].status = "pending"]
      /\ creating' = None
      /\ extension' = extension /\ widening' = widening /\ unseen' = unseen
  BY DEF CommitCreation
<1>2. /\ leave' \in [Leaves -> Rows] /\ leave'[l].status = "pending"
      /\ \A k \in Leaves : /\ leave'[k].type = leave[k].type /\ leave'[k].from = leave[k].from
                           /\ leave'[k].to = leave[k].to
                           /\ k # l => leave'[k].status = leave[k].status
  BY <1>1 DEF Rows
<1>3. TypeOK'
  BY <1>1, <1>2, Names
<1>4. UnderWay'
  BY <1>1, <1>2, Names DEF UnderWay
<1>5. Apart'
  BY <1>1, <1>2, QuietKeeps DEF Claimed, Live, Reach
<1>. QED
  BY <1>3, <1>4, <1>5

LEMMA AbortCreationKeeps ==
  ASSUME IInv, NEW l \in Leaves, AbortCreation(l)
  PROVE  IInv'
<1>. USE DEF IInv, TypeOK
<1>1. /\ leave[l].status = "creating" /\ leave' = [leave EXCEPT ![l].status = "absent"]
      /\ creating' = None /\ unseen' = {p \in unseen : l \notin p}
      /\ extension' = extension /\ widening' = widening
  BY DEF AbortCreation
<1>2. /\ leave' \in [Leaves -> Rows] /\ leave'[l].status = "absent"
      /\ \A k \in Leaves : /\ leave'[k].type = leave[k].type /\ leave'[k].from = leave[k].from
                           /\ leave'[k].to = leave[k].to
                           /\ k # l => leave'[k].status = leave[k].status
  BY <1>1 DEF Rows
<1>3. TypeOK'
  BY <1>1, <1>2, Names
<1>4. UnderWay'
  BY <1>1, <1>2, Names DEF UnderWay
<1>5. \A a \in Leaves : Claimed(a)' =>
        /\ a # l /\ Claimed(a) /\ leave'[a].type = leave[a].type
        /\ leave'[a].from = leave[a].from /\ Reach(a)' = Reach(a)
  BY <1>1, <1>2 DEF Claimed, Live, Reach
<1>6. \A a, b \in Leaves : Claimed(a)' /\ Claimed(b)' /\ {a, b} \in unseen => {a, b} \in unseen'
  BY <1>1, <1>5
<1>7. Apart'
  BY <1>5, <1>6, QuietKeeps
<1>. QED
  BY <1>3, <1>4, <1>7

LEMMA DecideKeeps ==
  ASSUME IInv, NEW l \in Leaves, NEW s \in {"approved", "rejected", "ended"}, Decide(l, s)
  PROVE  IInv'
<1>. USE DEF IInv, TypeOK
<1>1. /\ l \notin widening /\ Live(l) /\ leave' = [leave EXCEPT ![l].status = s]
      /\ creating' = creating /\ unseen' = unseen
      /\ extension' = extension /\ widening' = widening
  BY DEF Decide
<1>2. /\ leave' \in [Leaves -> Rows] /\ leave'[l].status = s
      /\ \A k \in Leaves : /\ leave'[k].type = leave[k].type /\ leave'[k].from = leave[k].from
                           /\ leave'[k].to = leave[k].to
                           /\ k # l => leave'[k].status = leave[k].status
  BY <1>1 DEF Rows
<1>3. TypeOK'
  BY <1>1, <1>2, Names DEF Live
<1>4. UnderWay'
  BY <1>1, <1>2 DEF UnderWay
<1>5. Apart'
  BY <1>1, <1>2, QuietKeeps DEF Claimed, Live, Reach
<1>. QED
  BY <1>3, <1>4, <1>5

LEMMA RequestExtensionKeeps ==
  ASSUME IInv, NEW l \in Leaves, NEW d \in Days, RequestExtension(l, d)
  PROVE  IInv'
<1>. USE DEF IInv, TypeOK
<1>1. /\ leave[l].status = "approved" /\ l \notin widening /\ d > leave[l].to
      /\ extension' = [extension EXCEPT ![l] = d] /\ leave' = leave
      /\ creating' = creating /\ unseen' = unseen /\ widening' = widening
  BY DEF RequestExtension
<1>2. d \in 0..LastDay
  BY DEF Days
<1>3. TypeOK'
  BY <1>1, <1>2
<1>4. UnderWay'
  BY <1>1, <1>2, Names DEF UnderWay
<1>5. Apart'
  BY <1>1, QuietKeeps DEF Claimed, Live, Reach
<1>. QED
  BY <1>3, <1>4, <1>5

LEMMA CommitWideningKeeps ==
  ASSUME IInv, NEW l \in Leaves, CommitWidening(l)
  PROVE  IInv'
<1>. USE DEF IInv, TypeOK
<1>1. /\ l \in widening /\ leave' = [leave EXCEPT ![l].to = extension[l]]
      /\ extension' = [extension EXCEPT ![l] = 0] /\ widening' = widening \ {l}
      /\ creating' = creating /\ unseen' = unseen
  BY DEF CommitWidening
<1>2. leave[l].status = "approved" /\ extension[l] \in Days
  BY <1>1, Fields DEF UnderWay, Days
<1>3. /\ leave' \in [Leaves -> Rows] /\ leave'[l].to = extension[l]
      /\ \A k \in Leaves : /\ leave'[k].type = leave[k].type /\ leave'[k].from = leave[k].from
                           /\ leave'[k].status = leave[k].status
                           /\ k # l => leave'[k].to = leave[k].to
  BY <1>1, <1>2 DEF Rows
<1>4. TypeOK'
  BY <1>1, <1>3
<1>5. UnderWay'
  BY <1>1, <1>3 DEF UnderWay
<1>6. \A a \in Leaves : Reach(a)' = Reach(a)
  BY <1>1, <1>3 DEF Reach
<1>7. Apart'
  BY <1>1, <1>3, <1>6, QuietKeeps DEF Claimed, Live
<1>. QED
  BY <1>4, <1>5, <1>7

LEMMA WidenByParentKeeps ==
  ASSUME IInv, NEW l \in Leaves, WidenByParent(l)
  PROVE  IInv'
<1>. USE DEF IInv, TypeOK
<1>. DEFINE passed == {{l, k} : k \in {k \in Leaves \ {l} : Live(k) \/ creating = k}}
<1>1. /\ extension[l] > 0 /\ leave[l].status = "approved" /\ l \notin widening
      /\ leave' = [leave EXCEPT ![l].to = extension[l]]
      /\ extension' = [extension EXCEPT ![l] = 0] /\ unseen' = unseen \cup passed
      /\ creating' = creating /\ widening' = widening
  BY DEF WidenByParent
<1>2. extension[l] \in Days
  BY <1>1, Fields DEF Days
<1>3. /\ leave' \in [Leaves -> Rows] /\ leave'[l].to = extension[l]
      /\ \A k \in Leaves : /\ leave'[k].type = leave[k].type /\ leave'[k].from = leave[k].from
                           /\ leave'[k].status = leave[k].status
                           /\ k # l => leave'[k].to = leave[k].to
  BY <1>1, <1>2 DEF Rows
<1>4. passed \subseteq Pairs
  BY DEF Pairs
<1>5. TypeOK'
  BY <1>1, <1>3, <1>4
<1>6. UnderWay'
  BY <1>1, <1>3 DEF UnderWay
<1>7. ASSUME NEW k \in Leaves \ {l}, (Claimed(l) /\ Claimed(k) /\ Touch(l, k))'
      PROVE  {l, k} \in unseen'
  <2>1. Live(k) \/ creating = k
    BY <1>3, <1>7 DEF Claimed, Live, UnderWay
  <2>. QED
    BY <1>1, <2>1
<1>8. ASSUME NEW a \in Leaves \ {l}, NEW b \in Leaves \ {l}, a # b,
             (Claimed(a) /\ Claimed(b) /\ Touch(a, b))'
      PROVE  {a, b} \in unseen'
  BY <1>1, <1>3, <1>8 DEF Apart, Claimed, Live, Touch, Reach
<1>9. Apart'
  BY <1>5, <1>7, <1>8, ApartByLeave
<1>. QED
  BY <1>5, <1>6, <1>9

LEMMA RejectExtensionKeeps ==
  ASSUME IInv, NEW l \in Leaves, RejectExtension(l)
  PROVE  IInv'
<1>. USE DEF IInv, TypeOK
<1>1. /\ l \notin widening /\ extension' = [extension EXCEPT ![l] = 0] /\ leave' = leave
      /\ creating' = creating /\ unseen' = unseen /\ widening' = widening
  BY DEF RejectExtension
<1>2. TypeOK'
  BY <1>1
<1>3. UnderWay'
  BY <1>1 DEF UnderWay
<1>4. Apart'
  BY <1>1, QuietKeeps DEF Claimed, Live, Reach
<1>. QED
  BY <1>2, <1>3, <1>4

LEMMA NextKeeps == IInv /\ [Next]_vars => IInv'
<1>1. ASSUME IInv, UNCHANGED vars PROVE IInv'
  BY <1>1 DEF vars, IInv, TypeOK, UnderWay, Apart, Claimed, Live, Touch, Reach
<1>. QED
  BY <1>1, CreateKeeps, CommitCreationKeeps, AbortCreationKeeps, DecideKeeps, RecoverKeeps,
     RequestExtensionKeeps, WidenKeeps, CommitWideningKeeps, WidenByParentKeeps, RejectExtensionKeeps DEF Next

LEMMA Inductive == Spec => []IInv
BY InitIInv, NextKeeps, PTL DEF Spec

(* The leaves, their extensions and the transactions keep their types.     *)
THEOREM TypeCorrect == Spec => []TypeOK
BY Inductive, PTL DEF IInv

(* Two leaves of one type overlap only if neither could see the other, if  *)
(* an administrator recovered one of them, or if the parent's approval     *)
(* moved the end of one.                                                   *)
THEOREM GuardKeepsApart == Spec => []OverlapIsUnseen
<1>1. ASSUME IInv PROVE OverlapIsUnseen
  <2>. USE <1>1 DEF IInv
  <2>1. SUFFICES ASSUME NEW a \in Leaves, NEW b \in Leaves, a # b, Overlap(a, b)
                 PROVE  {a, b} \in unseen
    BY DEF OverlapIsUnseen
  <2>2. ASSUME NEW l \in Leaves PROVE Reach(l) \in Nat /\ Reach(l) >= leave[l].to
    <3>1. leave[l].to \in Nat /\ extension[l] \in Nat
      BY Fields DEF Days
    <3>2. l \in widening => extension[l] > leave[l].to
      BY DEF UnderWay
    <3>. QED
      BY <3>1, <3>2 DEF Reach
  <2>3. Touch(a, b)
    BY <2>1, <2>2, Fields DEF Overlap, Meets, Touch, Days
  <2>. QED
    BY <2>1, <2>3 DEF Apart, Claimed, Overlap
<1>. QED
  BY <1>1, Inductive, PTL
=================================================================================
