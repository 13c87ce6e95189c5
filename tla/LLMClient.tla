------------------------------ MODULE LLMClient ------------------------------
(***************************************************************************)
(* LLMClient.complete: one completion at a time, asked of Anthropic with   *)
(* retries and then of OpenAI with retries, possibly inside the wait_for   *)
(* of an analyzer.  Time passes in seconds, in calls and in backoff.       *)
(***************************************************************************)
EXTENDS Integers

CONSTANTS
  MaxRetries,  \* attempts at each provider
  MaxWait,     \* bound on one backoff
  CallTime     \* seconds a call may take that is not cut

VARIABLES
  asked,     \* the provider the completion is at
  attempt,   \* the attempt it is at
  requests,  \* requests of this completion so far, by provider
  reply,     \* what complete has returned: "text", "error" or, so far, "none"
  deadline,  \* when wait_for fires, counted from its start; 0 outside of it
  now,       \* seconds since its start
  slow       \* those of them spent in calls, not in backoff

LLMVars == <<asked, attempt, requests, reply>>
timer == <<deadline, now, slow>>

Provider == {"anthropic", "openai"}

\* _backoff, with base 1 s and cap 30 s.
Backoff(n) == IF 2 ^ n < 30 THEN 2 ^ n ELSE 30

ASSUME LLMAssumption ==
  /\ MaxRetries \in Nat \ {0} /\ MaxWait \in Nat /\ CallTime \subseteq Nat
  /\ \A n \in 0 .. MaxRetries - 1 : Backoff(n) \in 0 .. MaxWait

NoRequests == [p \in Provider |-> 0]

Idle == asked = "anthropic" /\ attempt = 0 /\ requests = NoRequests /\ reply = "none"

StartCompletion ==
  asked' = "anthropic" /\ attempt' = 0 /\ requests' = NoRequests /\ reply' = "none"

\* A call of d seconds and a backoff of w, both over before wait_for fires.
Spend(d, w) ==
  IF deadline = 0 THEN UNCHANGED timer
  ELSE /\ now + d + w <= deadline
       /\ now' = now + d + w
       /\ slow' = slow + d
       /\ UNCHANGED deadline

Request(p) == reply = "none" /\ asked = p /\ requests' = [requests EXCEPT ![p] = @ + 1]

\* What is left of a provider: complete catches whatever Anthropic raised and
\* asks OpenAI, whose exception is complete's own.
GiveUp(p) ==
  /\ attempt' = 0
  /\ IF p = "anthropic" THEN asked' = "openai" /\ UNCHANGED reply
                        ELSE reply' = "error" /\ UNCHANGED asked

-----------------------------------------------------------------------------
\* The text comes back; OpenAI's may be empty, and is then "".
Answered(p) ==
  /\ Request(p)
  /\ \E d \in CallTime : Spend(d, 0)
  /\ reply' = "text"
  /\ UNCHANGED <<asked, attempt>>

\* Mutant: max for min in the backoff.
TransientAtCap(p) ==
  /\ Request(p)
  /\ \E d \in CallTime : Spend(d, 30)
  /\ IF attempt + 1 < MaxRetries THEN attempt' = attempt + 1 /\ UNCHANGED <<asked, reply>>
                                 ELSE GiveUp(p)

\* A rate limit, a status of 500 or more, or no connection: wait and try again.
\* The last attempt waits too before it gives up.
Transient(p) ==
  /\ Request(p)
  /\ \E d \in CallTime : Spend(d, Backoff(attempt))
  /\ IF attempt + 1 < MaxRetries THEN attempt' = attempt + 1 /\ UNCHANGED <<asked, reply>>
                                 ELSE GiveUp(p)

\* Another 4xx, or an answer without content or usage: not tried again.
Rejected(p) ==
  /\ Request(p)
  /\ \E d \in CallTime : Spend(d, 0)
  /\ GiveUp(p)

Complete == \E p \in Provider : Answered(p) \/ Transient(p) \/ Rejected(p)

\* wait_for fires while a call is under way ...
CutCall ==
  /\ reply = "none"
  /\ requests' = [requests EXCEPT ![asked] = @ + 1]
  /\ slow' = slow + deadline - now

\* ... or in the backoff after one.
CutBackoff ==
  /\ reply = "none"
  /\ requests' = [requests EXCEPT ![asked] = @ + 1]
  /\ \E d \in CallTime :
       /\ now + d <= deadline /\ deadline < now + d + Backoff(attempt)
       /\ slow' = slow + d
=============================================================================
