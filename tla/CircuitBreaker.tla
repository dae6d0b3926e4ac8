----------------------------- MODULE CircuitBreaker -----------------------------
(***************************************************************************)
(* The circuit breaker the SMS provider is called through, and the retries *)
(* inside each call.  The breaker's entry is shared by every call of the   *)
(* process, and a call decides on what the entry says when it returns,     *)
(* whatever it said when the call began: a call let through before the     *)
(* breaker opened may close it, or open it again.                          *)
(***************************************************************************)
EXTENDS Naturals

CONSTANTS
  Callers,      \* messages that may be under way together
  Threshold,    \* failureThreshold
  HalfOpenMax,  \* halfOpenMaxRequests
  MaxRetries    \* maxRetries of withRetry

ASSUME BreakerAssumption ==
  /\ Threshold \in Nat \ {0} /\ HalfOpenMax \in Nat \ {0} /\ MaxRetries \in Nat

VARIABLES
  entry,     \* the breaker; failures counts up to Threshold, cooled says
             \* that cooldownMs have passed since lastStateChange
  calls,     \* each caller: whether fn() runs, and its failed attempts
  provider,  \* what the provider answers
  admitted,  \* calls let through since the breaker last opened
  failed     \* calls failed since the breaker last closed, up to Threshold

vars == <<entry, calls, provider, admitted, failed>>

Entries == [state : {"CLOSED", "OPEN", "HALF_OPEN"}, failures : 0..Threshold,
            sent : 0..HalfOpenMax, cooled : BOOLEAN]
Calls == [running : BOOLEAN, attempt : 0..MaxRetries]
NoCall == [running |-> FALSE, attempt |-> 0]

Init ==
  /\ entry = [state |-> "CLOSED", failures |-> 0, sent |-> 0, cooled |-> FALSE]
  /\ calls = [c \in Callers |-> NoCall]
  /\ provider = "up" /\ admitted = 0 /\ failed = 0

UpTo(n) == IF n < Threshold THEN n + 1 ELSE n

\* updateState: lastStateChange is stamped even when the state stays
Become(e, s) == [e EXCEPT !.state = s, !.cooled = FALSE]

\* Slip: a breaker that half-opens keeps the count of its last probes.
HalfOpenedKeeping(e) == IF e.state = "OPEN" /\ e.cooled THEN Become(e, "HALF_OPEN") ELSE e

HalfOpened(e) ==
  IF e.state = "OPEN" /\ e.cooled THEN [Become(e, "HALF_OPEN") EXCEPT !.sent = 0] ELSE e

\* Slip: a probe is let through without being counted.
AdmitUncounted(e) == e

Admit(e) == IF e.state = "HALF_OPEN" THEN [e EXCEPT !.sent = @ + 1] ELSE e

\* A call that is let through; one that is not changes nothing.
Call(c) ==
  LET e == HalfOpened(entry) IN
  /\ ~ calls[c].running
  /\ e.state # "OPEN" /\ (e.state = "HALF_OPEN" => e.sent < HalfOpenMax)
  /\ entry' = Admit(e)
  /\ calls' = [calls EXCEPT ![c] = [running |-> TRUE, attempt |-> 0]]
  /\ admitted' = IF e.state = "CLOSED" \/ admitted > HalfOpenMax THEN admitted ELSE admitted + 1
  /\ UNCHANGED <<provider, failed>>

\* A failure worth a retry: no answer in time, 429 or 5xx.
Retry(c) ==
  /\ calls[c].running /\ provider = "failing" /\ calls[c].attempt < MaxRetries
  /\ calls' = [calls EXCEPT ![c].attempt = @ + 1]
  /\ UNCHANGED <<entry, provider, admitted, failed>>

\* Slip: the failures from before the breaker opened are kept.
ClosedKeeping(e) == Become(e, "CLOSED")

Closed(e) == [Become(e, "CLOSED") EXCEPT !.failures = 0]

Succeed(c) ==
  /\ calls[c].running /\ provider = "up"
  /\ calls' = [calls EXCEPT ![c] = NoCall]
  /\ entry' = IF entry.state = "HALF_OPEN" THEN Closed(entry) ELSE entry
  /\ admitted' = IF entry.state = "HALF_OPEN" THEN 0 ELSE admitted
  /\ failed' = IF entry.state = "HALF_OPEN" THEN 0 ELSE failed
  /\ UNCHANGED provider

\* Slip: the failure of a probe counts like any other.
CountedAlways(e) ==
  LET n == UpTo(e.failures) IN
  IF n = Threshold /\ e.state = "CLOSED" THEN [Become(e, "OPEN") EXCEPT !.failures = n]
  ELSE [e EXCEPT !.failures = n]

Counted(e) ==
  LET n == UpTo(e.failures) IN
  IF e.state = "HALF_OPEN" THEN Become(e, "OPEN")
  ELSE IF n = Threshold THEN [Become(e, "OPEN") EXCEPT !.failures = n]
  ELSE [e EXCEPT !.failures = n]

\* The last attempt failed, or the provider refused the message: a refusal
\* is not worth a retry, and counts like an outage.
Fail(c) ==
  /\ calls[c].running
  /\ \/ provider = "refusing"
     \/ provider = "failing" /\ calls[c].attempt = MaxRetries
  /\ calls' = [calls EXCEPT ![c] = NoCall]
  /\ entry' = Counted(entry)
  /\ admitted' = IF entry'.state = "OPEN" THEN 0 ELSE admitted
  /\ failed' = IF entry.state = "CLOSED" THEN UpTo(failed) ELSE failed
  /\ UNCHANGED provider

Cool ==
  /\ entry.state = "OPEN" /\ ~ entry.cooled
  /\ entry' = [entry EXCEPT !.cooled = TRUE]
  /\ UNCHANGED <<calls, provider, admitted, failed>>

ProviderTurns ==
  /\ provider' \in {"up", "failing", "refusing"} \ {provider}
  /\ UNCHANGED <<entry, calls, admitted, failed>>

Next ==
  \/ \E c \in Callers : Call(c) \/ Retry(c) \/ Succeed(c) \/ Fail(c)
  \/ Cool \/ ProviderTurns

Spec == Init /\ [][Next]_vars

\* A running call makes progress (a fetch has a deadline, a sleep ends), time
\* passes, and messages keep being sent.
FairSpec ==
  /\ Spec /\ WF_vars(Cool) /\ WF_vars(\E c \in Callers : Call(c))
  /\ \A c \in Callers : WF_vars(Retry(c) \/ Succeed(c) \/ Fail(c))

-----------------------------------------------------------------------------
TypeOK ==
  /\ entry \in Entries
  /\ calls \in [Callers -> Calls]
  /\ provider \in {"up", "failing", "refusing"}
  /\ admitted \in Nat /\ failed \in 0..Threshold

\* "waiting for probe result" (circuit-breaker.ts:75) is only said while a
\* call runs whose result will move the breaker: it never refuses every
\* message for a probe that nobody is making, whatever calls from before
\* the breaker opened return meanwhile.
ProbeUnderWay ==
  entry.state = "HALF_OPEN" => \E c \in Callers : calls[c].running

\* While it is not closed, the breaker lets at most halfOpenMaxRequests
\* messages through to a provider that is down, until one of them fails
\* and the cooldown passes once more.
ProbesBounded == entry.state # "CLOSED" => admitted <= HalfOpenMax

\* A closed breaker opens for failureThreshold failures of its own: what
\* failed before it last closed is forgiven.
TripIsEarned ==
  [][entry.state = "CLOSED" /\ entry'.state = "OPEN" => failed' = Threshold]_vars

\* When the provider recovers for good the breaker closes for good.
RecoversWithProvider == <>[](provider = "up") => <>[](entry.state = "CLOSED")
=================================================================================
