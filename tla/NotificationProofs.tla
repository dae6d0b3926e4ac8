--------------------------- MODULE NotificationProofs ---------------------------
(***************************************************************************)
(* Proofs about the delivery of one event's notifications, for any number  *)
(* of workers, any plan, any budget and any troubles: an event is done     *)
(* only when everybody has got a message, and what was logged is not sent  *)
(* again.                                                                  *)
(***************************************************************************)
EXTENDS NotificationDelivery, TLAPS

USE DeliveryAssumption

(* An event that is not settled has an attempt left, and a claim is held   *)
(* only while the event is claimed.                                        *)
Budget ==
  /\ event.status \in {"pending", "claimed"} => event.attempts < MaxAttempts
  /\ event.holder # None => event.status = "claimed"

(* A worker that sends is at a send of the plan.                           *)
Placed ==
  \A w \in Workers :
    /\ worker[w].at >= 1
    /\ worker[w].pc \in {"send", "log"} => worker[w].at <= Len(plan)

(* A worker without a failure has seen to every recipient it has passed:   *)
(* it has sent, or found a row of the log, which stands for a message.     *)
Passed(w, i) == i < worker[w].at \/ worker[w].pc \in {"move", "report"}

Covered ==
  /\ \A r \in log : posts[r] > 0
  /\ \A w \in Workers :
       /\ worker[w].pc = "log" => posts[Recipient(w)] > 0
       /\ worker[w].pc # "idle" /\ ~worker[w].failures =>
            \A i \in 1..Len(plan) : Passed(w, i) => posts[plan[i]] > 0

(* What a worker finds in the log has been there since before it began, or *)
(* was added since.                                                        *)
Began == \A w \in Workers : began[w] \subseteq log

IInv == TypeOK /\ Budget /\ Placed /\ Covered /\ Began /\ DoneMeansSent /\ LoggedIsNotRepeated

-----------------------------------------------------------------------------
LEMMA PlanFields ==
  ASSUME TypeOK
  PROVE  /\ Len(plan) \in Nat
         /\ \A i \in 1..Len(plan) : plan[i] \in Recipients
<1>1. plan \in Seq(Recipients)
  BY DEF TypeOK
<1>. QED
  BY <1>1

LEMMA WorkerFields ==
  ASSUME TypeOK, NEW w \in Workers
  PROVE  /\ worker[w].pc \in Steps /\ worker[w].at \in Nat /\ worker[w].failures \in BOOLEAN
BY DEF TypeOK, WorkerStates

(* The recipient a worker is at is one of the plan's.                      *)
LEMMA RecipientType ==
  ASSUME TypeOK, Placed, NEW w \in Workers, Sends(w)
  PROVE  worker[w].at \in 1..Len(plan) /\ Recipient(w) \in Recipients
BY PlanFields, WorkerFields DEF Placed, Sends, Recipient

(* An attempt that is given back leaves the budget in order.               *)
LEMMA GivenBack ==
  ASSUME NEW e \in Events, e.attempts < MaxAttempts
  PROVE  /\ Failed(e) \in Events
         /\ Failed(e).status \in {"pending", "failed"}
         /\ Failed(e).status = "pending" => Failed(e).attempts < MaxAttempts
         /\ Failed(e).holder = None
<1>1. e.attempts \in 0..MaxAttempts
  BY DEF Events
<1>2. e.attempts + 1 \in 0..MaxAttempts
  BY <1>1
<1>. QED
  BY <1>1, <1>2 DEF Failed, Events

LEMMA InitIInv == Init => IInv
<1>1. SUFFICES ASSUME Init PROVE IInv
  OBVIOUS
<1>2. worker \in [Workers -> WorkerStates] /\ \A w \in Workers : worker[w] = Idle
  BY <1>1 DEF Init, Idle, WorkerStates, Steps
<1>3. event \in Events
  BY <1>1 DEF Init, Events
<1>4. TypeOK
  BY <1>1, <1>2, <1>3 DEF Init, TypeOK
<1>. QED
  BY <1>1, <1>2, <1>4
     DEF Init, IInv, Budget, Placed, Covered, Began, DoneMeansSent, LoggedIsNotRepeated, Idle

(* The steps in which a worker goes on to its next send: what it leaves    *)
(* behind is sent, unless the attempt has failed.                          *)
LEMMA NextSendKeeps ==
  ASSUME IInv, NEW w \in Workers, NEW failed \in BOOLEAN,
         worker[w].pc \in {"check", "send", "log"}, Sends(w), NextSend(w, failed),
         kind' = kind, plan' = plan, event' = event, posts' = posts, moved' = moved,
         began' = began, troubles' \in Nat,
         log \subseteq log', log' \subseteq log \cup {Recipient(w)},
         ~failed \/ log' # log => posts[Recipient(w)] > 0
  PROVE  IInv'
<1>. USE DEF IInv
<1>. DEFINE next == [worker[w] EXCEPT !.pc = "check", !.at = @ + 1, !.failures = @ \/ failed]
<1>1. next \in WorkerStates /\ next.pc = "check" /\ next.at = worker[w].at + 1
      /\ (~next.failures => ~worker[w].failures /\ ~failed)
  <2>1. worker[w] \in WorkerStates
    BY DEF TypeOK
  <2>2. next.failures = (worker[w].failures \/ failed) /\ next.pc = "check"
        /\ next.at = worker[w].at + 1
    BY <2>1 DEF WorkerStates
  <2>3. (worker[w].failures \/ failed) \in BOOLEAN /\ worker[w].at + 1 \in Nat
    BY <2>1 DEF WorkerStates
  <2>4. next \in WorkerStates
    BY <2>1, <2>3 DEF WorkerStates, Steps
  <2>. QED
    BY <2>2, <2>4
<1>2. worker' = [worker EXCEPT ![w] = next]
  BY DEF NextSend, TypeOK
<1>. HIDE DEF next
<1>3. worker' \in [Workers -> WorkerStates] /\ worker'[w] = next
      /\ \A v \in Workers \ {w} : worker'[v] = worker[v]
  BY <1>1, <1>2 DEF TypeOK
<1>4. worker[w].at \in 1..Len(plan) /\ Recipient(w) \in Recipients
  BY RecipientType
<1>5. TypeOK'
  BY <1>3, <1>4 DEF TypeOK
<1>6. Budget'
  BY DEF Budget
<1>7. Placed'
  BY <1>1, <1>3, <1>4 DEF Placed
<1>8. \A r \in log' : posts[r] > 0
  BY DEF Covered
<1>9. ASSUME ~next.failures, NEW i \in 1..Len(plan), i < worker[w].at + 1
      PROVE  posts[plan[i]] > 0
  <2>1. CASE i = worker[w].at
    BY <1>1, <1>9, <2>1 DEF Recipient
  <2>2. CASE i < worker[w].at
    BY <1>1, <1>9, <2>2 DEF Covered, Passed
  <2>. QED
    BY <1>4, <1>9, <2>1, <2>2
<1>10. Covered'
  <2>1. ASSUME NEW v \in Workers, v # w
        PROVE  /\ worker'[v].pc = "log" => posts[Recipient(v)'] > 0
               /\ worker'[v].pc # "idle" /\ ~worker'[v].failures =>
                    \A i \in 1..Len(plan) : Passed(v, i)' => posts[plan[i]] > 0
    BY <1>3, <2>1 DEF Covered, Passed, Recipient
  <2>2. /\ worker'[w].pc # "log"
        /\ ~worker'[w].failures => \A i \in 1..Len(plan) : Passed(w, i)' => posts[plan[i]] > 0
    BY <1>1, <1>3, <1>9 DEF Passed
  <2>. QED
    BY <1>8, <2>1, <2>2 DEF Covered
<1>11. Began'
  BY DEF Began
<1>12. DoneMeansSent'
  BY DEF DoneMeansSent, Planned
<1>13. LoggedIsNotRepeated'
  BY <1>1, <1>3 DEF LoggedIsNotRepeated, Recipient
<1>. QED
  BY <1>5, <1>6, <1>7, <1>10, <1>11, <1>12, <1>13

(* A worker changes and the event may; no message, no row of the log.  It  *)
(* is enough to know what the worker has become.                           *)
LEMMA WorkerKeeps ==
  ASSUME IInv, NEW w \in Workers, NEW new \in WorkerStates,
         worker' = [worker EXCEPT ![w] = new],
         kind' = kind, plan' = plan, posts' = posts, log' = log,
         event' \in Events, Budget', moved' \in BOOLEAN, troubles' \in Nat,
         began' \in [Workers -> SUBSET Recipients],
         \A v \in Workers \ {w} : began'[v] = began[v],
         began'[w] \subseteq log,
         new.at >= 1, new.pc = "send" => new.at <= Len(plan), new.pc # "log",
         new.pc = "send" /\ kind = "leave" => plan[new.at] \notin began'[w],
         new.pc # "idle" /\ ~new.failures =>
           \A i \in 1..Len(plan) :
             i < new.at \/ new.pc \in {"move", "report"} => posts[plan[i]] > 0,
         event'.status = "done" /\ event.status # "done" =>
           \A i \in 1..Len(plan) : posts[plan[i]] > 0
  PROVE  IInv'
<1>. USE DEF IInv
<1>1. worker' \in [Workers -> WorkerStates] /\ worker'[w] = new
      /\ \A v \in Workers \ {w} : worker'[v] = worker[v]
  BY DEF TypeOK
<1>2. TypeOK'
  BY <1>1 DEF TypeOK
<1>3. Placed'
  BY <1>1 DEF Placed
<1>4. Covered'
  <2>1. \A r \in log' : posts'[r] > 0
    BY DEF Covered
  <2>2. ASSUME NEW v \in Workers, v # w
        PROVE  /\ worker'[v].pc = "log" => posts'[Recipient(v)'] > 0
               /\ worker'[v].pc # "idle" /\ ~worker'[v].failures =>
                    \A i \in 1..Len(plan) : Passed(v, i)' => posts'[plan[i]] > 0
    BY <1>1, <2>2 DEF Covered, Passed, Recipient
  <2>3. worker'[w].pc # "idle" /\ ~worker'[w].failures =>
          \A i \in 1..Len(plan) : Passed(w, i)' => posts'[plan[i]] > 0
    BY <1>1 DEF Passed
  <2>. QED
    BY <1>1, <2>1, <2>2, <2>3 DEF Covered
<1>5. Began'
  BY <1>1 DEF Began
<1>6. DoneMeansSent'
  BY DEF DoneMeansSent, Planned
<1>7. LoggedIsNotRepeated'
  BY <1>1 DEF LoggedIsNotRepeated, Recipient
<1>. QED
  BY <1>2, <1>3, <1>4, <1>5, <1>6, <1>7

LEMMA ClaimKeeps ==
  ASSUME IInv, NEW w \in Workers, Claim(w)
  PROVE  IInv'
<1>. USE DEF IInv
<1>. DEFINE new == [Idle EXCEPT !.pc = "check"]
<1>1. /\ event.status = "pending"
      /\ event' = [event EXCEPT !.status = "claimed", !.holder = w]
      /\ worker' = [worker EXCEPT ![w] = new] /\ began' = [began EXCEPT ![w] = log]
      /\ kind' = kind /\ plan' = plan /\ posts' = posts /\ log' = log
      /\ moved' = moved /\ troubles' = troubles
  BY DEF Claim
<1>2. new \in WorkerStates /\ new.pc = "check" /\ new.at = 1 /\ new.failures = FALSE
  BY DEF Idle, WorkerStates, Steps
<1>3. event' \in Events /\ event'.status = "claimed" /\ event'.attempts = event.attempts
  BY <1>1 DEF TypeOK, Events
<1>4. Budget'
  BY <1>1, <1>3 DEF Budget
<1>5. began' \in [Workers -> SUBSET Recipients] /\ began'[w] = log
      /\ \A v \in Workers \ {w} : began'[v] = began[v]
  BY <1>1 DEF TypeOK
<1>6. \A i \in 1..Len(plan) : ~(i < 1)
  BY PlanFields
<1>7. moved' \in BOOLEAN /\ troubles' \in Nat
  BY <1>1 DEF TypeOK
<1>. HIDE DEF new
<1>8. \A i \in 1..Len(plan) :
        i < new.at \/ new.pc \in {"move", "report"} => posts[plan[i]] > 0
  BY <1>2, <1>6
<1>9. new.at >= 1 /\ new.pc \notin {"send", "log"}
  BY <1>2
<1>10. event'.status # "done"
  BY <1>3
<1>11. began'[w] \subseteq log
  BY <1>5
<1>. QED
  BY <1>1, <1>2, <1>3, <1>4, <1>5, <1>7, <1>8, <1>9, <1>10, <1>11, WorkerKeeps

LEMMA LapseKeeps ==
  ASSUME IInv, Lapse
  PROVE  IInv'
<1>. USE DEF IInv
<1>1. event.status = "claimed" /\ event' = Failed(event) /\ event.attempts < MaxAttempts
  BY DEF Lapse, Budget
<1>2. event' \in Events /\ Budget' /\ event'.status # "done"
  BY <1>1, GivenBack DEF TypeOK, Budget
<1>3. troubles' \in Nat
  BY DEF Lapse, TypeOK
<1>4. UNCHANGED <<kind, plan, worker, posts, log, moved, began>>
  BY DEF Lapse
<1>. QED
  BY <1>2, <1>3, <1>4 DEF TypeOK, Placed, Covered, Passed, Recipient, Began, DoneMeansSent,
     LoggedIsNotRepeated

LEMMA CheckKeeps ==
  ASSUME IInv, NEW w \in Workers, Check(w)
  PROVE  IInv'
<1>. USE DEF IInv
<1>1. worker[w].pc = "check" /\ Sends(w)
      /\ UNCHANGED <<kind, plan, event, posts, log, moved, troubles, began>>
  BY DEF Check
<1>2. worker[w].at \in 1..Len(plan)
  BY <1>1, RecipientType
<1>3. CASE kind = "leave" /\ Recipient(w) \in log
  <2>1. NextSend(w, FALSE) /\ posts[Recipient(w)] > 0
    BY <1>3 DEF Check, Covered
  <2>. QED
    BY <1>1, <2>1, NextSendKeeps DEF TypeOK
<1>4. CASE ~(kind = "leave" /\ Recipient(w) \in log)
  <2>. DEFINE new == [worker[w] EXCEPT !.pc = "send"]
  <2>1. worker' = [worker EXCEPT ![w] = new]
    BY <1>4 DEF Check, TypeOK
  <2>2. worker[w] \in WorkerStates
    BY DEF TypeOK
  <2>3. new \in WorkerStates /\ new.pc = "send" /\ new.at = worker[w].at
        /\ new.failures = worker[w].failures
    BY <2>2 DEF WorkerStates, Steps
  <2>. HIDE DEF new
  <2>4. kind = "leave" => plan[new.at] \notin began'[w]
    BY <1>1, <1>4, <2>3 DEF Recipient, Began
  <2>5. ~new.failures => \A i \in 1..Len(plan) : i < new.at => posts[plan[i]] > 0
    BY <1>1, <2>3 DEF Covered, Passed
  <2>6. new.at >= 1 /\ new.at <= Len(plan)
    BY <1>2, <2>3, PlanFields
  <2>7. Budget' /\ event' \in Events /\ moved' \in BOOLEAN /\ troubles' \in Nat
        /\ began' \in [Workers -> SUBSET Recipients] /\ began'[w] \subseteq log
    BY <1>1 DEF Budget, TypeOK, Began
  <2>. QED
    BY <1>1, <2>1, <2>3, <2>4, <2>5, <2>6, <2>7, WorkerKeeps
<1>. QED
  BY <1>3, <1>4

LEMMA SendKeeps ==
  ASSUME IInv, NEW w \in Workers, Send(w)
  PROVE  IInv'
<1>. USE DEF IInv
<1>1. /\ worker[w].pc = "send" /\ posts' = [posts EXCEPT ![Recipient(w)] = @ + 1]
      /\ worker' = [worker EXCEPT ![w].pc = "log"]
      /\ UNCHANGED <<kind, plan, event, log, moved, troubles, began>>
  BY DEF Send
<1>2. Sends(w)
  BY <1>1 DEF Placed, Sends
<1>3. worker[w].at \in 1..Len(plan) /\ Recipient(w) \in Recipients
  BY <1>2, RecipientType
<1>4. /\ posts' \in [Recipients -> Nat] /\ posts'[Recipient(w)] > 0
      /\ \A r \in Recipients : posts'[r] >= posts[r]
  BY <1>1, <1>3 DEF TypeOK
<1>5. /\ worker' \in [Workers -> WorkerStates] /\ worker'[w].pc = "log"
      /\ worker'[w].at = worker[w].at /\ worker'[w].failures = worker[w].failures
      /\ \A v \in Workers \ {w} : worker'[v] = worker[v]
  BY <1>1 DEF TypeOK, WorkerStates, Steps
<1>6. \A r \in Recipients : posts[r] > 0 => posts'[r] > 0
  BY <1>4 DEF TypeOK
<1>7. TypeOK'
  BY <1>1, <1>4, <1>5 DEF TypeOK
<1>8. Budget' /\ Began'
  BY <1>1 DEF Budget, Began
<1>9. Placed'
  BY <1>1, <1>3, <1>5 DEF Placed
<1>10. Covered'
  <2>1. \A r \in log' : posts'[r] > 0
    BY <1>1, <1>6 DEF Covered, TypeOK
  <2>2. ASSUME NEW v \in Workers, worker'[v].pc = "log" PROVE posts'[Recipient(v)'] > 0
    <3>1. CASE v = w
      BY <1>1, <1>4, <1>5, <3>1 DEF Recipient
    <3>2. CASE v # w
      <4>1. Sends(v)
        BY <1>5, <2>2, <3>2 DEF Placed, Sends
      <4>. QED
        BY <1>1, <1>5, <1>6, <2>2, <3>2, <4>1, RecipientType DEF Covered, Recipient
    <3>. QED
      BY <3>1, <3>2
  <2>3. ASSUME NEW v \in Workers, worker'[v].pc # "idle", ~worker'[v].failures,
               NEW i \in 1..Len(plan), Passed(v, i)'
        PROVE  posts'[plan[i]] > 0
    <3>1. worker[v].pc # "idle" /\ ~worker[v].failures /\ Passed(v, i)
      BY <1>1, <1>5, <2>3 DEF Passed
    <3>. QED
      BY <1>6, <3>1, PlanFields DEF Covered
  <2>. QED
    BY <1>1, <2>1, <2>2, <2>3 DEF Covered
<1>11. DoneMeansSent'
  BY <1>1, <1>6, PlanFields DEF DoneMeansSent, Planned
<1>12. LoggedIsNotRepeated'
  BY <1>1, <1>5 DEF LoggedIsNotRepeated, Recipient
<1>. QED
  BY <1>7, <1>8, <1>9, <1>10, <1>11, <1>12

LEMMA OutcomeKeeps ==
  ASSUME IInv, NEW w \in Workers, SendFails(w) \/ LogSent(w) \/ LogFails(w)
  PROVE  IInv'
<1>. USE DEF IInv
<1>1. Sends(w)
  BY DEF Placed, Sends, SendFails, LogSent, LogFails
<1>2. CASE SendFails(w)
  <2>1. worker[w].pc = "send" /\ NextSend(w, TRUE)
        /\ UNCHANGED <<kind, plan, event, posts, log, moved, began>>
    BY <1>2 DEF SendFails
  <2>2. troubles' \in Nat
    BY <1>2 DEF SendFails, TypeOK
  <2>. QED
    BY <1>1, <2>1, <2>2, NextSendKeeps
<1>3. CASE LogSent(w)
  <2>1. worker[w].pc = "log" /\ NextSend(w, FALSE) /\ troubles' \in Nat
        /\ UNCHANGED <<kind, plan, event, posts, moved, began>>
        /\ log \subseteq log' /\ log' \subseteq log \cup {Recipient(w)}
    BY <1>3 DEF LogSent, TypeOK
  <2>2. posts[Recipient(w)] > 0
    BY <2>1 DEF Covered
  <2>. QED
    BY <1>1, <2>1, <2>2, NextSendKeeps
<1>4. CASE LogFails(w)
  <2>1. worker[w].pc = "log" /\ NextSend(w, TRUE)
        /\ UNCHANGED <<kind, plan, event, posts, log, moved, began>>
    BY <1>4 DEF LogFails
  <2>2. troubles' \in Nat
    BY <1>4 DEF LogFails, TypeOK
  <2>. QED
    BY <1>1, <2>1, <2>2, NextSendKeeps
<1>. QED
  BY <1>2, <1>3, <1>4

(* notify has returned, and the location has been seen to.                 *)
LEMMA FinishKeeps ==
  ASSUME IInv, NEW w \in Workers, Notified(w) \/ Move(w)
  PROVE  IInv'
<1>. USE DEF IInv
<1>. DEFINE to == IF worker[w].pc = "move" \/ worker[w].failures THEN "report" ELSE "move"
            new == [worker[w] EXCEPT !.pc = to]
<1>1. worker[w].pc \in {"check", "move"} /\ worker' = [worker EXCEPT ![w] = new]
      /\ UNCHANGED <<kind, plan, event, posts, log, began>>
  BY DEF Notified, Move, TypeOK
<1>2. moved' \in BOOLEAN /\ troubles' \in Nat
  <2>1. CASE Notified(w)
    BY <2>1 DEF Notified, TypeOK
  <2>2. CASE Move(w)
    <3>1. moved' \in BOOLEAN
      <4>1. moved' = (moved \/ kind = "leave") \/ moved' = moved
        BY <2>2 DEF Move
      <4>. QED
        BY <4>1 DEF TypeOK
    <3>. QED
      BY <2>2, <3>1 DEF Move, TypeOK
  <2>. QED
    BY <2>1, <2>2
<1>3. worker[w] \in WorkerStates
  BY DEF TypeOK
<1>4. new \in WorkerStates /\ new.pc = to /\ new.at = worker[w].at
      /\ new.failures = worker[w].failures
  BY <1>3 DEF WorkerStates, Steps
<1>5. ~worker[w].failures => \A i \in 1..Len(plan) : posts[plan[i]] > 0
  <2>1. CASE worker[w].pc = "move"
    BY <2>1 DEF Covered, Passed
  <2>2. CASE worker[w].pc = "check"
    <3>1. \A i \in 1..Len(plan) : i < worker[w].at
      BY <2>2, WorkerFields, PlanFields DEF Notified, Move, Sends
    <3>. QED
      BY <2>2, <3>1 DEF Covered, Passed
  <2>. QED
    BY <1>1, <2>1, <2>2
<1>6. to \in {"move", "report"} /\ new.at >= 1
  BY <1>4 DEF Placed
<1>7. Budget' /\ event' \in Events /\ began' \in [Workers -> SUBSET Recipients]
      /\ began'[w] \subseteq log
  BY <1>1 DEF Budget, TypeOK, Began
<1>. HIDE DEF new, to
<1>. QED
  BY <1>1, <1>2, <1>4, <1>5, <1>6, <1>7, WorkerKeeps

LEMMA ReportKeeps ==
  ASSUME IInv, NEW w \in Workers, Report(w)
  PROVE  IInv'
<1>. USE DEF IInv
<1>1. /\ worker[w].pc = "report" /\ worker' = [worker EXCEPT ![w] = Idle]
      /\ event' = IF event.holder # w THEN event
                  ELSE IF worker[w].failures THEN Failed(event)
                  ELSE [event EXCEPT !.status = "done", !.holder = None]
      /\ UNCHANGED <<kind, plan, posts, log, moved, troubles, began>>
  BY DEF Report
<1>2. Idle \in WorkerStates /\ Idle.pc = "idle" /\ Idle.at = 1
  BY DEF Idle, WorkerStates, Steps
<1>3. event' \in Events /\ Budget'
      /\ (event'.status = "done" /\ event.status # "done" => ~worker[w].failures)
  <2>1. CASE event.holder # w
    BY <1>1, <2>1 DEF Budget, TypeOK
  <2>2. CASE event.holder = w /\ worker[w].failures
    <3>1. event' = Failed(event) /\ event.attempts < MaxAttempts
      BY <1>1, <2>2 DEF Budget
    <3>. QED
      BY <3>1, GivenBack DEF Budget, TypeOK
  <2>3. CASE event.holder = w /\ ~worker[w].failures
    <3>1. event' = [event EXCEPT !.status = "done", !.holder = None]
      BY <1>1, <2>3
    <3>2. event' \in Events /\ event'.status = "done" /\ event'.holder = None
      BY <3>1 DEF TypeOK, Events
    <3>. QED
      BY <2>3, <3>2 DEF Budget
  <2>. QED
    BY <2>1, <2>2, <2>3
<1>4. ~worker[w].failures => \A i \in 1..Len(plan) : posts[plan[i]] > 0
  BY <1>1 DEF Covered, Passed
<1>5. /\ moved' \in BOOLEAN /\ troubles' \in Nat /\ began' \in [Workers -> SUBSET Recipients]
      /\ began'[w] \subseteq log /\ \A v \in Workers : began'[v] = began[v]
  BY <1>1 DEF TypeOK, Began
<1>6. Idle.at >= 1 /\ Idle.pc \notin {"send", "log"}
  BY <1>2
<1>7. event'.status = "done" /\ event.status # "done" =>
        \A i \in 1..Len(plan) : posts[plan[i]] > 0
  BY <1>3, <1>4
<1>. QED
  BY <1>1, <1>2, <1>3, <1>5, <1>6, <1>7, WorkerKeeps

LEMMA NextKeeps == IInv /\ [Next]_vars => IInv'
<1>1. ASSUME IInv, UNCHANGED vars PROVE IInv'
  BY <1>1 DEF vars, IInv, TypeOK, Budget, Placed, Covered, Passed, Recipient, Began,
     DoneMeansSent, Planned, LoggedIsNotRepeated
<1>. QED
  BY <1>1, LapseKeeps, ClaimKeeps, CheckKeeps, SendKeeps, OutcomeKeeps, FinishKeeps, ReportKeeps
     DEF Next, Run

LEMMA Inductive == Spec => []IInv
BY InitIInv, NextKeeps, PTL DEF Spec

(* The event, its workers and the log keep their types.                    *)
THEOREM TypeCorrect == Spec => []TypeOK
BY Inductive, PTL DEF IInv

(* An event is done only when every recipient of its plan has a message.   *)
THEOREM DoneIsSent == Spec => []DoneMeansSent
BY Inductive, PTL DEF IInv

(* No attempt on an event of a leave sends what was logged before it.      *)
THEOREM LoggedOnce == Spec => []LoggedIsNotRepeated
BY Inductive, PTL DEF IInv
=================================================================================
