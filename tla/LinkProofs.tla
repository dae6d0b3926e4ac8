------------------------------- MODULE LinkProofs -------------------------------
(***************************************************************************)
(* Proofs about the parent's link, for any number of workers, requests and *)
(* deliveries and any times: its types, that a parent who is still to      *)
(* answer has received the link that is stored, and that the job waits for *)
(* a link whose time has not passed.                                       *)
(***************************************************************************)
EXTENDS ParentLinks, TLAPS

USE LinkAssumption

-----------------------------------------------------------------------------
LEMMA SettledEvents ==
  ASSUME TypeOK, NEW e, NEW to \in {"done", "failed"}
  PROVE  Settled(e, to) \in [Events -> EventRows]
BY DEF TypeOK, Settled, EventRows

LEMMA IdleWorker == Idle \in WorkerStates
BY DEF Idle, WorkerStates, Links, NoLink

(* What the worker has in hand once it has sent a link.                    *)
SentState(w) ==
  [pc |-> "sent", event |-> worker[w].event,
   link |-> [token |-> minted + 1, expiry |-> worker[w].link.expiry]]

LEMMA SentWorker ==
  ASSUME TypeOK, NEW w \in Workers, SentOff(w)
  PROVE  /\ worker' = [worker EXCEPT ![w] = SentState(w)]
         /\ SentState(w) \in WorkerStates
<1>1. /\ worker[w] \in WorkerStates /\ worker[w].link \in Links
      /\ worker[w].event \in Events \cup {None} /\ minted + 1 \in Nat
  BY DEF TypeOK, WorkerStates
<1>2. worker' = [worker EXCEPT ![w].pc = "sent", ![w].link.token = minted + 1]
  BY DEF SentOff
<1>3. worker'[w] = SentState(w)
  BY <1>1, <1>2 DEF TypeOK, WorkerStates, Links, SentState
<1>4. worker' = [worker EXCEPT ![w] = worker'[w]]
  BY <1>2 DEF TypeOK
<1>. QED
  BY <1>1, <1>3, <1>4 DEF WorkerStates, Links, SentState

(* A parent's link, the leave, the workers and the job keep their types,   *)
(* with any number of workers, resends and links.                          *)
THEOREM TypeCorrect == Spec => []TypeOK
<1>1. Init => TypeOK
  <2>. SUFFICES ASSUME Init PROVE TypeOK
    OBVIOUS
  <2>1. quiet \in BOOLEAN
    BY DEF Init
  <2>2. worker \in [Workers -> WorkerStates]
    BY IdleWorker DEF Init
  <2>3. events \in [Events -> EventRows]
    BY DEF Init, EventRows
  <2>4. details \in Links /\ now \in 1..LastTime /\ minted \in Nat /\ inbox \subseteq Links
    BY DEF Init, Links, NoLink
  <2>. QED
    BY <2>1, <2>2, <2>3, <2>4 DEF Init, TypeOK, LeaveStatuses, Decisions
<1>2. TypeOK /\ [Next]_vars => TypeOK'
  <2>. SUFFICES ASSUME TypeOK, [Next]_vars PROVE TypeOK'
    OBVIOUS
  <2>. USE DEF TypeOK, KeepLeave
  <2>1. CASE Tick
    BY <2>1 DEF Tick
  <2>2. ASSUME NEW w \in Workers, NEW e \in Events, NothingToSend(w, e) PROVE TypeOK'
    BY <2>2, SettledEvents DEF NothingToSend
  <2>3. ASSUME NEW w \in Workers, NEW e \in Events, Prepare(w, e) PROVE TypeOK'
    <3>1. worker' \in [Workers -> WorkerStates]
      BY <2>3 DEF Prepare, WorkerStates, Links
    <3>2. events' \in [Events -> EventRows]
      BY <2>3 DEF Prepare, Deliverable, EventRows
    <3>. QED
      BY <2>3, <3>1, <3>2 DEF Prepare
  <2>4. ASSUME NEW w \in Workers, StoreToken(w) PROVE TypeOK'
    <3>1. worker' \in [Workers -> WorkerStates]
      BY <2>4, IdleWorker DEF StoreToken, WorkerStates
    <3>2. events' \in [Events -> EventRows]
      BY <2>4, SettledEvents DEF StoreToken
    <3>. QED
      BY <2>4, <3>1, <3>2 DEF StoreToken
  <2>5. ASSUME NEW w \in Workers, SendLink(w) PROVE TypeOK'
    <3>1. worker' \in [Workers -> WorkerStates] /\ minted' \in Nat
      <4>1. SentOff(w)
        BY <2>5 DEF SendLink
      <4>2. worker' \in [Workers -> WorkerStates]
        BY <4>1, SentWorker
      <4>. QED
        BY <4>1, <4>2 DEF SentOff
    <3>2. inbox' \subseteq Links
      BY <2>5, <3>1 DEF SendLink, WorkerStates
    <3>. QED
      BY <2>5, <3>1, <3>2 DEF SendLink, SentOff
  <2>18. ASSUME NEW w \in Workers, NEW e \in Events, NobodyToAsk(w, e) PROVE TypeOK'
    BY <2>18, SettledEvents DEF NobodyToAsk
  <2>19. ASSUME NEW w \in Workers, SendToNobody(w) PROVE TypeOK'
    <3>1. worker' \in [Workers -> WorkerStates]
      BY <2>19 DEF SendToNobody, WorkerStates
    <3>. QED
      BY <2>19, <3>1 DEF SendToNobody
  <2>6. ASSUME NEW w \in Workers, CommitToken(w) PROVE TypeOK'
    <3>1. worker' \in [Workers -> WorkerStates] /\ details' \in Links /\ quiet' \in BOOLEAN
      BY <2>6, IdleWorker DEF CommitToken, WorkerStates
    <3>. QED
      BY <2>6, <3>1, SettledEvents DEF CommitToken
  <2>7. ASSUME NEW w \in Workers, DeliveryFails(w) PROVE TypeOK'
    <3>1. worker' \in [Workers -> WorkerStates]
      BY <2>7, IdleWorker DEF DeliveryFails
    <3>. QED
      BY <2>7, <3>1, SettledEvents DEF DeliveryFails
  <2>8. ASSUME NEW e \in Events, Resend(e) PROVE TypeOK'
    <3>1. details' \in Links /\ events' \in [Events -> EventRows]
      BY <2>8 DEF Resend, Links, EventRows
    <3>. QED
      BY <2>8, <3>1 DEF Resend
  <2>9. ASSUME NEW l \in inbox, LookUpLink(l) PROVE TypeOK'
    BY <2>9 DEF LookUpLink, Links
  <2>10. ASSUME NEW d \in {"APPROVED", "REJECTED"}, Answer(d) PROVE TypeOK'
    BY <2>10 DEF Answer, LeaveStatuses, Decisions
  <2>11. CASE AnswerRefused
    BY <2>11 DEF AnswerRefused
  <2>12. CASE CancelLeave
    <3>1. events' \in [Events -> EventRows]
      BY <2>12 DEF CancelLeave, EventRows
    <3>. QED
      BY <2>12, <3>1 DEF CancelLeave, LeaveEnds, LeaveStatuses, Decisions
  <2>13. CASE DecideOtherwise
    BY <2>13 DEF DecideOtherwise, LeaveStatuses, Decisions
  <2>14. ASSUME NEW by \in {"link", "job", "end"}, NEW token \in Nat, Condemn(by, token)
         PROVE  TypeOK'
    BY <2>14 DEF Condemn, Verdicts
  <2>15. ASSUME JobFindsUnanswered \/ JobFindsEnded \/ \E l \in inbox : OpenExpired(l)
         PROVE  TypeOK'
    BY <2>14, <2>15 DEF JobFindsUnanswered, JobFindsEnded, OpenExpired, Links
  <2>16. ASSUME NEW v \in verdicts, Expire(v) \/ ExpiryRefused(v) PROVE TypeOK'
    BY <2>16 DEF Expire, ExpiryRefused, LeaveEnds, LeaveStatuses, Decisions
  <2>17. CASE UNCHANGED vars
    BY <2>17 DEF vars
  <2>. QED
    BY <2>1, <2>2, <2>3, <2>4, <2>5, <2>6, <2>7, <2>8, <2>9, <2>10, <2>11, <2>12,
       <2>13, <2>15, <2>16, <2>17, <2>18, <2>19 DEF Next, WorkerStep
<1>. QED
  BY <1>1, <1>2, PTL DEF Spec

-----------------------------------------------------------------------------
(* The links that have gone out: received, or sent and about to be stored. *)
SentLinks == {worker[w].link : w \in {v \in Workers : worker[v].pc = "sent"}}
Known == inbox \cup SentLinks

(* A link that has an expiry is one the parent has, or was stored for one  *)
(* that nobody was sent; so is every link that a worker has sent, unless   *)
(* the leave was cancelled before.                                         *)
StoredIsReceived == details.expiry # 0 => details \in inbox \/ quiet \/ leave = "CANCELLED"
SentIsReceived ==
  \A w \in Workers :
    worker[w].pc = "sent" => worker[w].link \in inbox \/ leave = "CANCELLED"

(* While the parent is to answer he has the link or a request is open, or  *)
(* has failed for good, or was served without a message.                   *)
RequestOpen ==
  Pending => details \in inbox \/ quiet \/ \E e \in Events : events[e].status \in {"due", "failed"}

ReceivedInv == StoredIsReceived /\ SentIsReceived /\ RequestOpen

(* A token is minted once: it tells one link from every other.             *)
TokensMinted ==
  /\ \A l \in Known : l.token \in 1..minted
  /\ details.token <= minted /\ \A v \in verdicts : v.token <= minted
OneLinkPerToken ==
  /\ \A l, m \in Known : l.token = m.token => l = m
  /\ details.expiry # 0 => \A l \in Known : l.token = details.token => l = details

(* The job has decided on links whose time had passed.                     *)
JobVerdicts ==
  \A v \in verdicts, l \in Known : v.by = "job" /\ l.token = v.token => l.expiry <= now

(* A link that was not sent has no token.                                  *)
NoTokenYet == \A w \in Workers : worker[w].pc # "sent" => worker[w].link.token = 0

TokenInv == NoTokenYet /\ TokensMinted /\ OneLinkPerToken /\ JobVerdicts

-----------------------------------------------------------------------------
(* What a step may do to the links: mint one, store one, reset one.        *)
MintsOne ==
  \E w \in Workers :
    /\ SentOff(w) /\ minted' = minted + 1
    /\ SentLinks' \subseteq SentLinks \cup {SentState(w).link}
    /\ inbox' \subseteq inbox \cup {SentState(w).link}

LEMMA WorkersStep ==
  ASSUME TypeOK, [Next]_vars
  PROVE  /\ inbox \subseteq inbox'
         /\ MintsOne \/ (minted' = minted /\ inbox' = inbox /\ SentLinks' \subseteq SentLinks)
         /\ \A w \in Workers : worker'[w].pc = "sent" =>
              \/ worker[w].pc = "sent" /\ worker'[w].link = worker[w].link
              \/ worker'[w].link \in inbox' \/ leave = "CANCELLED"
<1>. DEFINE Kept == \A w \in Workers : worker'[w].pc = "sent" =>
                      worker[w].pc = "sent" /\ worker'[w].link = worker[w].link
            Goal == /\ inbox \subseteq inbox'
                    /\ MintsOne \/ (minted' = minted /\ inbox' = inbox /\ SentLinks' \subseteq SentLinks)
                    /\ \A w \in Workers : worker'[w].pc = "sent" =>
                         \/ worker[w].pc = "sent" /\ worker'[w].link = worker[w].link
                         \/ worker'[w].link \in inbox' \/ leave = "CANCELLED"
<1>1. ASSUME Kept, minted' = minted, inbox' = inbox PROVE Goal
  BY <1>1 DEF SentLinks
<1>2. ASSUME worker' = worker, minted' = minted, inbox' = inbox PROVE Goal
  <2>1. Kept
    BY <1>2
  <2>. HIDE DEF Goal
  <2>. QED
    BY <2>1, <1>1, <1>2
<1>3. ASSUME NEW w \in Workers, NEW e \in Events, NothingToSend(w, e) PROVE Goal
  BY <1>3, <1>2 DEF NothingToSend
<1>4. ASSUME NEW w \in Workers, NEW s \in WorkerStates, s.pc # "sent",
             worker' = [worker EXCEPT ![w] = s], minted' = minted, inbox' = inbox
      PROVE  Goal
  <2>1. Kept
    BY <1>4 DEF TypeOK
  <2>. HIDE DEF Goal
  <2>. QED
    BY <2>1, <1>1, <1>4
<1>. HIDE DEF Goal
<1>11. ASSUME NEW w \in Workers, NEW e \in Events, NobodyToAsk(w, e) PROVE Goal
  <2>1. worker' = worker /\ minted' = minted /\ inbox' = inbox
    BY <1>11 DEF NobodyToAsk
  <2>. QED
    BY <2>1, <1>2
<1>12. ASSUME NEW w \in Workers, SendToNobody(w) PROVE Goal
  <2>. DEFINE s == [worker[w] EXCEPT !.pc = "unsent"]
  <2>1. s \in WorkerStates /\ s.pc # "sent"
    BY DEF TypeOK, WorkerStates
  <2>2. worker' = [worker EXCEPT ![w] = s] /\ minted' = minted /\ inbox' = inbox
    BY <1>12 DEF SendToNobody
  <2>. HIDE DEF s
  <2>. QED
    BY <2>1, <2>2, <1>4
<1>5. ASSUME NEW w \in Workers, NEW e \in Events, Prepare(w, e) PROVE Goal
  <2>. DEFINE s == [pc |-> "ready", event |-> e, link |-> [token |-> 0, expiry |-> now + Ttl]]
  <2>1. s \in WorkerStates /\ s.pc # "sent"
    BY DEF TypeOK, WorkerStates, Links
  <2>. QED
    BY <2>1, <1>4, <1>5 DEF Prepare
<1>6. ASSUME NEW w \in Workers, StoreToken(w) PROVE Goal
  <2>. DEFINE s == [worker[w] EXCEPT !.pc = "holding"]
  <2>1. s \in WorkerStates /\ s.pc # "sent" /\ Idle.pc # "sent"
    BY DEF TypeOK, WorkerStates, Idle
  <2>2. worker' = [worker EXCEPT ![w] = s] \/ worker' = [worker EXCEPT ![w] = Idle]
    BY <1>6 DEF StoreToken
  <2>. HIDE DEF s
  <2>. QED
    BY <2>1, <2>2, <1>4, <1>6, IdleWorker DEF StoreToken
<1>7. ASSUME NEW w \in Workers, CommitToken(w) \/ DeliveryFails(w) PROVE Goal
  <2>1. Idle.pc # "sent"
    BY DEF Idle
  <2>. QED
    BY <2>1, <1>4, <1>7, IdleWorker DEF CommitToken, DeliveryFails
<1>8. ASSUME NEW w \in Workers, SendLink(w) PROVE Goal
  <2>1. SentOff(w) /\ minted' = minted + 1
    BY <1>8 DEF SendLink, SentOff
  <2>2. worker' = [worker EXCEPT ![w] = SentState(w)] /\ worker'[w] = SentState(w)
    BY <2>1, SentWorker DEF TypeOK
  <2>3. inbox' = IF leave = "CANCELLED" THEN inbox ELSE inbox \cup {SentState(w).link}
    BY <1>8, <2>2 DEF SendLink
  <2>4. \A v \in Workers \ {w} : worker'[v] = worker[v]
    BY <2>2 DEF TypeOK
  <2>5. SentLinks' \subseteq SentLinks \cup {SentState(w).link}
    BY <2>2, <2>4 DEF SentLinks
  <2>6. MintsOne
    BY <2>1, <2>3, <2>5 DEF MintsOne
  <2>. QED
    BY <2>2, <2>3, <2>4, <2>6 DEF Goal
<1>9. ASSUME \/ Tick \/ AnswerRefused \/ CancelLeave \/ DecideOtherwise
             \/ JobFindsUnanswered \/ JobFindsEnded
             \/ \E e \in Events : Resend(e)
             \/ \E l \in inbox : LookUpLink(l) \/ OpenExpired(l)
             \/ \E d \in {"APPROVED", "REJECTED"} : Answer(d)
             \/ \E v \in verdicts : Expire(v) \/ ExpiryRefused(v)
             \/ UNCHANGED vars
      PROVE  Goal
  <2>1. worker' = worker /\ minted' = minted /\ inbox' = inbox
    BY <1>9 DEF Tick, AnswerRefused, CancelLeave, DecideOtherwise, JobFindsUnanswered,
       JobFindsEnded, Resend, LookUpLink, OpenExpired, Answer, Expire, ExpiryRefused,
       LeaveEnds, Condemn, vars
  <2>. QED
    BY <2>1, <1>2
<1>10. Goal
  BY <1>3, <1>5, <1>6, <1>7, <1>8, <1>9, <1>11, <1>12 DEF Next, WorkerStep
<1>. QED
  BY <1>10 DEF Goal

(* A cancelled leave stays cancelled, an answer is not taken back, and the *)
(* clock does not.                                                         *)
LEMMA LeaveStep ==
  ASSUME TypeOK, [Next]_vars
  PROVE  /\ leave = "CANCELLED" => leave' = "CANCELLED"
         /\ Pending' => Pending
         /\ now' \in Nat /\ now <= now'
<1>. DEFINE Goal == /\ leave = "CANCELLED" => leave' = "CANCELLED"
                    /\ Pending' => Pending
                    /\ now' \in Nat /\ now <= now'
<1>1. now \in Nat
  BY DEF TypeOK
<1>2. ASSUME leave' = leave, decision' = decision, now' = now PROVE Goal
  BY <1>1, <1>2 DEF Pending
<1>3. ASSUME \E w \in Workers : WorkerStep(w) PROVE Goal
  BY <1>2, <1>3 DEF WorkerStep, NothingToSend, NobodyToAsk, Prepare, StoreToken, SendLink, SentOff,
     SendToNobody, CommitToken, DeliveryFails, KeepLeave
<1>4. ASSUME \/ AnswerRefused \/ JobFindsUnanswered \/ JobFindsEnded
             \/ \E e \in Events : Resend(e)
             \/ \E l \in inbox : LookUpLink(l) \/ OpenExpired(l)
             \/ \E v \in verdicts : ExpiryRefused(v)
             \/ UNCHANGED vars
      PROVE  Goal
  BY <1>2, <1>4 DEF AnswerRefused, JobFindsUnanswered, JobFindsEnded, Resend, KeepLeave,
     LookUpLink, OpenExpired, Condemn, ExpiryRefused, vars
<1>5. CASE Tick
  BY <1>1, <1>5 DEF Tick, Pending
<1>6. ASSUME NEW d \in {"APPROVED", "REJECTED"}, Answer(d) PROVE Goal
  BY <1>1, <1>6 DEF Answer, Pending
<1>7. ASSUME CancelLeave \/ \E v \in verdicts : Expire(v) PROVE Goal
  BY <1>1, <1>7 DEF CancelLeave, Expire, LeaveEnds, Pending
<1>8. CASE DecideOtherwise
  BY <1>1, <1>8 DEF DecideOtherwise, Pending
<1>. QED
  BY <1>3, <1>4, <1>5, <1>6, <1>7, <1>8 DEF Next

(* What is stored changes by a worker that stores the link it has sent or  *)
(* has for nobody, or by a resend; a request that is open is closed only   *)
(* by that, or when the link lives, or the parent need not answer any      *)
(* more, or there is nobody to ask.                                        *)
Open == \E e \in Events : events[e].status \in {"due", "failed"}
Stores(w) ==
  /\ worker[w].pc \in {"sent", "unsent"} /\ details' = worker[w].link
  /\ quiet' = (worker[w].pc = "unsent")
LEMMA DetailsStep ==
  ASSUME TypeOK, [Next]_vars
  PROVE  \/ \E w \in Workers : Stores(w)
         \/ /\ details' = [details EXCEPT !.expiry = 0] /\ Open'
         \/ /\ details' = details /\ (quiet => quiet')
            /\ Open /\ ~Open' => LinkLives \/ ~Pending' \/ quiet'
<1>. DEFINE Goal == \/ \E w \in Workers : Stores(w)
                    \/ /\ details' = [details EXCEPT !.expiry = 0] /\ Open'
                    \/ /\ details' = details /\ (quiet => quiet')
                       /\ Open /\ ~Open' => LinkLives \/ ~Pending' \/ quiet'
<1>1. ASSUME details' = details, quiet' = quiet, events' = events PROVE Goal
  BY <1>1 DEF Open
<1>2. ASSUME details' = details, quiet => quiet', LinkLives \/ ~Pending' \/ quiet' PROVE Goal
  BY <1>2
<1>. HIDE DEF Goal
<1>3. ASSUME NEW w \in Workers, NEW e \in Events, NothingToSend(w, e) PROVE Goal
  <2>1. LinkLives \/ ~Pending'
    BY <1>3 DEF NothingToSend, Pending, KeepLeave
  <2>. QED
    BY <1>2, <1>3, <2>1 DEF NothingToSend
<1>4. ASSUME NEW w \in Workers, NEW e \in Events, Prepare(w, e) PROVE Goal
  <2>1. Open <=> Open'
    BY <1>4 DEF Prepare, Open, TypeOK, EventRows
  <2>. QED
    BY <1>4, <2>1 DEF Prepare, Goal
<1>5. ASSUME NEW w \in Workers, StoreToken(w) PROVE Goal
  <2>1. CASE decision = "PENDING"
    BY <1>1, <1>5, <2>1 DEF StoreToken
  <2>2. CASE decision # "PENDING"
    BY <1>2, <1>5, <2>2 DEF StoreToken, Pending, KeepLeave
  <2>. QED
    BY <2>1, <2>2
<1>14. ASSUME NEW w \in Workers, NEW e \in Events, NobodyToAsk(w, e) PROVE Goal
  BY <1>2, <1>14 DEF NobodyToAsk
<1>15. ASSUME NEW w \in Workers, SendToNobody(w) PROVE Goal
  BY <1>1, <1>15 DEF SendToNobody
<1>6. ASSUME NEW w \in Workers, SendLink(w) PROVE Goal
  BY <1>1, <1>6 DEF SendLink, SentOff
<1>7. ASSUME NEW w \in Workers, CommitToken(w) PROVE Goal
  BY <1>7 DEF CommitToken, Stores, Goal
<1>8. ASSUME NEW w \in Workers, DeliveryFails(w) PROVE Goal
  <2>1. \A e : Open => (\E f \in Events : Settled(e, "failed")[f].status \in {"due", "failed"})
    BY DEF Settled, Open, TypeOK, EventRows
  <2>2. Open => Open'
    BY <1>8, <2>1 DEF DeliveryFails, Open
  <2>. QED
    BY <1>8, <2>2 DEF DeliveryFails, Goal
<1>9. ASSUME NEW e \in Events, Resend(e) PROVE Goal
  <2>1. events'[e].status = "due"
    BY <1>9 DEF Resend, TypeOK, EventRows
  <2>. QED
    BY <1>9, <2>1 DEF Resend, Open, Goal
<1>10. ASSUME CancelLeave PROVE Goal
  BY <1>2, <1>10 DEF CancelLeave, LeaveEnds, Pending
<1>11. ASSUME \/ Tick \/ AnswerRefused \/ DecideOtherwise
              \/ JobFindsUnanswered \/ JobFindsEnded
              \/ \E l \in inbox : LookUpLink(l) \/ OpenExpired(l)
              \/ \E d \in {"APPROVED", "REJECTED"} : Answer(d)
              \/ \E v \in verdicts : Expire(v) \/ ExpiryRefused(v)
              \/ UNCHANGED vars
       PROVE  Goal
  BY <1>1, <1>11 DEF Tick, AnswerRefused, DecideOtherwise, JobFindsUnanswered,
     JobFindsEnded, LookUpLink, OpenExpired, Answer, Expire, ExpiryRefused,
     LeaveEnds, Condemn, vars
<1>12. ASSUME NEW w \in Workers, WorkerStep(w) PROVE Goal
  BY <1>3, <1>4, <1>5, <1>6, <1>7, <1>8, <1>12, <1>14, <1>15 DEF WorkerStep
<1>13. Goal
  BY <1>9, <1>10, <1>11, <1>12 DEF Next
<1>. QED
  BY <1>13 DEF Goal

(* An expiry is decided on by what is stored at that moment.               *)
LEMMA VerdictStep ==
  ASSUME TypeOK, [Next]_vars, NEW v \in verdicts', v \notin verdicts
  PROVE  /\ v.token = details.token \/ v.token = 0
         /\ v.by = "job" => /\ v.token = details.token
                            /\ details.expiry # 0 /\ details.expiry <= now
         /\ UNCHANGED <<details, minted, worker, inbox>>
<1>1. PICK by \in {"link", "job", "end"}, token \in Nat :
        /\ Condemn(by, token)
        /\ \/ by = "link" /\ token = details.token
           \/ by = "end" /\ token = 0
           \/ by = "job" /\ token = details.token /\ details.expiry # 0 /\ details.expiry <= now
  <2>1. ASSUME \E w \in Workers : WorkerStep(w) PROVE verdicts' = verdicts
    BY <2>1 DEF WorkerStep, NothingToSend, NobodyToAsk, Prepare, StoreToken, SendLink, SentOff,
       SendToNobody, CommitToken, DeliveryFails, KeepLeave
  <2>2. ASSUME \/ Tick \/ AnswerRefused \/ CancelLeave \/ DecideOtherwise
               \/ \E e \in Events : Resend(e)
               \/ \E l \in inbox : LookUpLink(l)
               \/ \E d \in {"APPROVED", "REJECTED"} : Answer(d)
               \/ UNCHANGED vars
        PROVE  verdicts' = verdicts
    BY <2>2 DEF Tick, AnswerRefused, CancelLeave, DecideOtherwise, Resend, KeepLeave,
       LookUpLink, Answer, vars
  <2>3. ASSUME \E u \in verdicts : Expire(u) \/ ExpiryRefused(u) PROVE verdicts' \subseteq verdicts
    BY <2>3 DEF Expire, ExpiryRefused
  <2>4. JobFindsUnanswered \/ JobFindsEnded \/ \E l \in inbox : OpenExpired(l)
    BY <2>1, <2>2, <2>3 DEF Next
  <2>. QED
    BY <2>4 DEF JobFindsUnanswered, JobFindsEnded, OpenExpired, TypeOK, Links
<1>2. v = [by |-> by, token |-> token]
  BY <1>1 DEF Condemn
<1>. QED
  BY <1>1, <1>2 DEF Condemn

-----------------------------------------------------------------------------
LEMMA InitInv == Init => ReceivedInv /\ TokenInv
<1>. SUFFICES ASSUME Init PROVE ReceivedInv /\ TokenInv
  OBVIOUS
<1>1. Known = {} /\ verdicts = {} /\ details = NoLink /\ minted = 0
  BY DEF Init, Known, SentLinks, Idle
<1>2. \A w \in Workers : worker[w].pc # "sent" /\ worker[w].link.token = 0
  BY DEF Init, Idle, NoLink
<1>3. events[First].status = "due"
  BY DEF Init
<1>. QED
  BY <1>1, <1>2, <1>3 DEF ReceivedInv, StoredIsReceived, SentIsReceived, RequestOpen,
     TokenInv, NoTokenYet, TokensMinted, OneLinkPerToken, JobVerdicts, NoLink

LEMMA ReceivedStep ==
  ASSUME TypeOK, ReceivedInv, [Next]_vars
  PROVE  ReceivedInv'
<1>. USE DEF ReceivedInv
<1>1. inbox \subseteq inbox' /\ (leave = "CANCELLED" => leave' = "CANCELLED") /\ (Pending' => Pending)
  BY WorkersStep, LeaveStep
<1>2. SentIsReceived'
  BY <1>1, WorkersStep DEF SentIsReceived
<1>3. CASE \E w \in Workers : Stores(w)
  <2>1. details' \in inbox' \/ quiet' \/ leave' = "CANCELLED"
    BY <1>1, <1>3 DEF Stores, SentIsReceived
  <2>. QED
    BY <1>2, <2>1 DEF StoredIsReceived, RequestOpen, Pending
<1>4. CASE details' = [details EXCEPT !.expiry = 0] /\ Open'
  BY <1>2, <1>4 DEF StoredIsReceived, RequestOpen, Open, TypeOK, Links
<1>5. CASE /\ details' = details /\ (quiet => quiet')
           /\ Open /\ ~Open' => LinkLives \/ ~Pending' \/ quiet'
  <2>1. StoredIsReceived'
    BY <1>1, <1>5 DEF StoredIsReceived
  <2>2. RequestOpen'
    <3>1. LinkLives => details.expiry # 0
      BY DEF LinkLives, TypeOK, Links
    <3>2. LinkLives /\ Pending => details \in inbox \/ quiet
      BY <3>1 DEF StoredIsReceived, Pending
    <3>3. Pending' => details' \in inbox' \/ quiet' \/ Open'
      BY <1>1, <1>5, <3>2 DEF RequestOpen, Open
    <3>. QED
      BY <3>3 DEF RequestOpen, Open
  <2>. QED
    BY <1>2, <2>1, <2>2
<1>. QED
  BY <1>3, <1>4, <1>5, DetailsStep

LEMMA NoTokenStep ==
  ASSUME TypeOK, NoTokenYet, [Next]_vars
  PROVE  NoTokenYet'
<1>1. ASSUME worker' = worker PROVE NoTokenYet'
  BY <1>1 DEF NoTokenYet
<1>2. ASSUME NEW w \in Workers, NEW s \in WorkerStates, s.pc = "sent" \/ s.link.token = 0,
             worker' = [worker EXCEPT ![w] = s]
      PROVE  NoTokenYet'
  BY <1>2 DEF NoTokenYet, TypeOK
<1>3. ASSUME NEW w \in Workers, NEW e \in Events, Prepare(w, e) PROVE NoTokenYet'
  <2>. DEFINE s == [pc |-> "ready", event |-> e, link |-> [token |-> 0, expiry |-> now + Ttl]]
  <2>1. s \in WorkerStates /\ s.link.token = 0
    BY DEF TypeOK, WorkerStates, Links
  <2>. QED
    BY <2>1, <1>2, <1>3 DEF Prepare
<1>4. ASSUME NEW w \in Workers, worker' = [worker EXCEPT ![w] = Idle] PROVE NoTokenYet'
  <2>1. Idle.link.token = 0
    BY DEF Idle, NoLink
  <2>. QED
    BY <2>1, <1>2, <1>4, IdleWorker
<1>5. ASSUME NEW w \in Workers, NEW to \in {"holding", "unsent"}, worker[w].pc # "sent",
             worker' = [worker EXCEPT ![w].pc = to]
      PROVE  NoTokenYet'
  <2>. DEFINE s == [worker[w] EXCEPT !.pc = to]
  <2>1. s \in WorkerStates /\ s.link.token = 0
    BY <1>5 DEF NoTokenYet, TypeOK, WorkerStates
  <2>2. worker' = [worker EXCEPT ![w] = s]
    BY <1>5
  <2>. HIDE DEF s
  <2>. QED
    BY <2>1, <2>2, <1>2
<1>6. ASSUME NEW w \in Workers, SendLink(w) PROVE NoTokenYet'
  <2>1. SentState(w).pc = "sent"
    BY DEF SentState
  <2>. QED
    BY <2>1, <1>2, <1>6, SentWorker DEF SendLink
<1>7. ASSUME NEW w \in Workers, WorkerStep(w) PROVE NoTokenYet'
  <2>1. ASSUME NEW e \in Events, NothingToSend(w, e) \/ NobodyToAsk(w, e) PROVE NoTokenYet'
    BY <2>1, <1>1 DEF NothingToSend, NobodyToAsk
  <2>2. ASSUME StoreToken(w) \/ SendToNobody(w) \/ CommitToken(w) \/ DeliveryFails(w)
        PROVE  NoTokenYet'
    BY <2>2, <1>4, <1>5 DEF StoreToken, SendToNobody, CommitToken, DeliveryFails
  <2>. QED
    BY <2>1, <2>2, <1>3, <1>6, <1>7 DEF WorkerStep
<1>8. ASSUME \/ Tick \/ AnswerRefused \/ CancelLeave \/ DecideOtherwise
             \/ JobFindsUnanswered \/ JobFindsEnded
             \/ \E e \in Events : Resend(e)
             \/ \E l \in inbox : LookUpLink(l) \/ OpenExpired(l)
             \/ \E d \in {"APPROVED", "REJECTED"} : Answer(d)
             \/ \E v \in verdicts : Expire(v) \/ ExpiryRefused(v)
             \/ UNCHANGED vars
      PROVE  NoTokenYet'
  <2>1. worker' = worker
    BY <1>8 DEF Tick, AnswerRefused, CancelLeave, DecideOtherwise, JobFindsUnanswered,
       JobFindsEnded, Resend, LookUpLink, OpenExpired, Answer, Expire, ExpiryRefused,
       LeaveEnds, Condemn, vars
  <2>. QED
    BY <2>1, <1>1
<1>. QED
  BY <1>7, <1>8 DEF Next

(* Every link in hand or out is one that was before, or the one minted.    *)
LEMMA KnownStep ==
  ASSUME TypeOK, TokensMinted, [Next]_vars
  PROVE  /\ minted' \in Nat /\ minted <= minted'
         /\ \/ Known' \subseteq Known
            \/ \E l \in Links : /\ l.token = minted' /\ l.token > minted
                                /\ Known' \subseteq Known \cup {l}
<1>1. CASE MintsOne
  <2>1. PICK w \in Workers : /\ SentOff(w) /\ minted' = minted + 1
                             /\ SentLinks' \subseteq SentLinks \cup {SentState(w).link}
                             /\ inbox' \subseteq inbox \cup {SentState(w).link}
    BY <1>1 DEF MintsOne
  <2>2. SentState(w).link \in Links /\ SentState(w).link.token = minted + 1
    BY <2>1, SentWorker DEF SentState, WorkerStates
  <2>. QED
    BY <2>1, <2>2 DEF Known, TypeOK
<1>2. CASE minted' = minted /\ inbox' = inbox /\ SentLinks' \subseteq SentLinks
  BY <1>2 DEF Known, TypeOK
<1>. QED
  BY <1>1, <1>2, WorkersStep

LEMMA TokenStep ==
  ASSUME TypeOK, TypeOK', TokenInv, [Next]_vars
  PROVE  TokenInv'
<1>. USE DEF TokenInv
<1>1. /\ Known \subseteq Links /\ Known' \subseteq Links /\ details \in Links /\ minted \in Nat
      /\ verdicts \subseteq Verdicts /\ verdicts' \subseteq Verdicts
  BY DEF TypeOK, Known, SentLinks, WorkerStates
<1>2. /\ minted' \in Nat /\ minted <= minted'
      /\ \/ Known' \subseteq Known
         \/ \E l \in Links : /\ l.token = minted' /\ l.token > minted
                             /\ Known' \subseteq Known \cup {l}
  BY KnownStep
<1>3. \/ details' \in Known \/ details' = [details EXCEPT !.expiry = 0] \/ details' = details
      \/ details' \in Links /\ details'.token = 0
  <2>1. \A w \in Workers : Stores(w) =>
          details' \in Known \/ (details' \in Links /\ details'.token = 0)
    BY DEF Stores, Known, SentLinks, NoTokenYet, TypeOK
  <2>. QED
    BY <2>1, DetailsStep
<1>4. TokensMinted'
  <2>1. \A l \in Known' : l.token \in 1..minted'
    BY <1>1, <1>2 DEF TokensMinted, Links
  <2>2. details'.token <= minted
    BY <1>1, <1>3 DEF TokensMinted, Links
  <2>3. details'.token <= minted'
    BY <1>2, <2>2, <1>1 DEF TypeOK, Links
  <2>4. ASSUME NEW v \in verdicts' PROVE v.token <= minted'
    <3>1. v.token <= minted
      BY <1>1, VerdictStep DEF TokensMinted
    <3>. QED
      BY <1>1, <1>2, <3>1 DEF Verdicts
  <2>. QED
    BY <2>1, <2>3, <2>4 DEF TokensMinted
<1>5. OneLinkPerToken'
  <2>1. ASSUME NEW l \in Known', NEW m \in Known', l.token = m.token PROVE l = m
    BY <1>1, <1>2, <2>1 DEF OneLinkPerToken, TokensMinted
  <2>2. ASSUME details'.expiry # 0, NEW l \in Known', l.token = details'.token
        PROVE  l = details'
    <3>0. details'.token # 0
      BY <2>2, <1>4, <1>1 DEF TokensMinted
    <3>1. details' \in Known \/ details' = details
      BY <1>1, <1>3, <2>2, <3>0 DEF Links
    <3>2. l \in Known
      BY <1>1, <1>2, <2>2, <3>1 DEF TokensMinted
    <3>. QED
      BY <2>2, <3>1, <3>2 DEF OneLinkPerToken
  <2>. QED
    BY <2>1, <2>2 DEF OneLinkPerToken
<1>6. JobVerdicts'
  <2>1. now \in Nat /\ now' \in Nat /\ now <= now'
    BY LeaveStep DEF TypeOK
  <2>2. ASSUME NEW v \in verdicts', NEW l \in Known', v.by = "job", l.token = v.token
        PROVE  l.expiry <= now'
    <3>1. CASE v \in verdicts
      <4>1. l \in Known
        BY <1>1, <1>2, <2>2, <3>1 DEF TokensMinted
      <4>2. l.expiry <= now
        BY <2>2, <3>1, <4>1 DEF JobVerdicts
      <4>. QED
        BY <1>1, <2>1, <4>2 DEF Links
    <3>2. CASE v \notin verdicts
      <4>1. /\ v.token = details.token /\ details.expiry # 0 /\ details.expiry <= now
            /\ UNCHANGED <<details, minted, worker, inbox>>
        BY <2>2, <3>2, VerdictStep
      <4>2. l \in Known
        BY <4>1 DEF Known, SentLinks
      <4>3. l = details
        BY <2>2, <4>1, <4>2 DEF OneLinkPerToken
      <4>. QED
        BY <1>1, <2>1, <4>1, <4>3 DEF Links
    <3>. QED
      BY <3>1, <3>2
  <2>. QED
    BY <2>2 DEF JobVerdicts
<1>. QED
  BY <1>4, <1>5, <1>6, NoTokenStep

LEMMA Inductive == Spec => [](TypeOK /\ ReceivedInv /\ TokenInv)
<1>1. TypeOK /\ TypeOK' /\ ReceivedInv /\ TokenInv /\ [Next]_vars => ReceivedInv' /\ TokenInv'
  BY ReceivedStep, TokenStep
<1>. QED
  BY <1>1, InitInv, TypeCorrect, PTL DEF Spec

-----------------------------------------------------------------------------
(* generateParentApproval and resendParentApproval: with duplicate         *)
(* deliveries, failures after the send and resends in between, once every  *)
(* request is served a parent who is still to answer has received the link *)
(* that is stored, unless the last request was served without a message:   *)
(* for want of a parent or a phone, or of a rule or a recipient.           *)
THEOREM ParentHasTheLink == Spec => []RequestReachesParent
<1>1. ReceivedInv => RequestReachesParent
  BY DEF ReceivedInv, RequestOpen, RequestReachesParent
<1>. QED
  BY <1>1, Inductive, PTL

(* findLeavesWithExpiredParentApproval: the job never expires a leave for  *)
(* a link whose time has not passed, although the two look at the stored   *)
(* expiry in different transactions and a resend resets it in between.     *)
THEOREM JobWaits == Spec => JobWaitsForTheLink
<1>1. TypeOK /\ TokenInv /\ [Next]_vars => [\A v \in ExpiresBy("job") : ~InTime(v)]_vars
  <2>. SUFFICES ASSUME TypeOK, TokenInv, NEW v \in ExpiresBy("job"), NEW l \in inbox,
                       l.token = v.token
                PROVE  ~(l.expiry > now)
    BY DEF InTime
  <2>1. l.expiry <= now
    BY DEF ExpiresBy, TokenInv, JobVerdicts, Known
  <2>. QED
    BY <2>1 DEF TypeOK, Links
<1>. QED
  BY <1>1, Inductive, PTL DEF Spec, JobWaitsForTheLink
=================================================================================
