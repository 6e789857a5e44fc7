-------------------------- MODULE ProviderRequest --------------------------
(***************************************************************************)
(* BaseIntegrationProvider._request (src/providers/base.py) with the       *)
(* circuit breaker all calls to one provider share in a process            *)
(* (src/utils/circuit_breaker.py) and the retry helper (src/utils/retry.py)*)
(*                                                                         *)
(* Calls are coroutines of one event loop: what runs between two awaits is *)
(* one step.  A call is admitted once and answered much later, when the    *)
(* breaker may be in another state than the one that admitted it.          *)
(***************************************************************************)
EXTENDS Naturals

CONSTANTS
    Calls,              \* concurrent callers
    Mode,               \* how each caller calls _request: see Modes
    FailureThreshold,   \* failure_threshold
    SuccessThreshold,   \* success_threshold_half_open
    MaxAttempts,        \* RetryPolicy.max_attempts
    MaxErrors           \* bound: calls and requests that fail

\* "single": retry=False.  "policy": retry=True, on a class that sets
\* retry_policy.  "field": retry=True on any other class: the attribute is the
\* dataclasses.Field of BaseIntegrationProvider, which is no dataclass.
Modes == {"single", "policy", "field"}

ASSUME ModeAssumption == Mode \in [Calls -> Modes]
ASSUME ThresholdAssumption ==
    /\ FailureThreshold \in Nat \ {0}
    /\ SuccessThreshold \in Nat \ {0}
ASSUME CountAssumption == MaxAttempts \in Nat \ {0} /\ MaxErrors \in Nat

VARIABLES
    breaker,    \* the provider's CircuitBreaker
    call,       \* local state of each caller, and the outcome of its last call
    errors,     \* failures so far (bounded by MaxErrors)
    streak,     \* history: calls that failed since one last succeeded
    earned      \* history: half-open successes since the breaker last opened

vars == <<breaker, call, errors, streak, earned>>

Breakers == [state : {"closed", "open", "half_open"},
             failures : Nat,
             successes : Nat,       \* _successes_half_open
             recent : BOOLEAN]      \* last failure within recovery_timeout

CallState == [pc : {"idle", "sent", "backoff"},
              requests : Nat,       \* HTTP requests of this call
              result : {"none", "ok", "error", "rejected"}]

TypeOK ==
    /\ breaker \in Breakers
    /\ call \in [Calls -> CallState]
    /\ errors \in Nat
    /\ streak \in Nat
    /\ earned \in 0..SuccessThreshold

Init ==
    /\ breaker = [state |-> "closed", failures |-> 0, successes |-> 0, recent |-> FALSE]
    /\ call = [c \in Calls |-> [pc |-> "idle", requests |-> 0, result |-> "none"]]
    /\ errors = 0
    /\ streak = 0
    /\ earned = SuccessThreshold

-----------------------------------------------------------------------------
(* CircuitBreaker.  Each method runs under the breaker's lock.             *)

\* The state property: reading it lets an open breaker become half-open.
ReadKeepsCount(b) == IF b.state = "open" /\ ~b.recent
                     THEN [b EXCEPT !.state = "half_open"] ELSE b
ReadAlwaysResets(b) == IF b.state \in {"open", "half_open"} /\ ~b.recent
                       THEN [b EXCEPT !.state = "half_open", !.successes = 0] ELSE b
Read(b) == IF b.state = "open" /\ ~b.recent
           THEN [b EXCEPT !.state = "half_open", !.successes = 0] ELSE b

record_success_keeps_failures(b) ==
    CASE b.state = "half_open" /\ b.successes + 1 >= SuccessThreshold ->
            [b EXCEPT !.state = "closed", !.successes = 0]
      [] b.state = "half_open" /\ b.successes + 1 < SuccessThreshold ->
            [b EXCEPT !.successes = @ + 1]
      [] OTHER -> [b EXCEPT !.failures = 0]
record_success(b) ==
    CASE b.state = "half_open" /\ b.successes + 1 >= SuccessThreshold ->
            [b EXCEPT !.state = "closed", !.failures = 0, !.successes = 0]
      [] b.state = "half_open" /\ b.successes + 1 < SuccessThreshold ->
            [b EXCEPT !.successes = @ + 1]
      [] OTHER -> [b EXCEPT !.failures = 0]

record_failure_misspelt(b) ==
    LET n == b.failures + 1 IN
    [b EXCEPT !.failures = n, !.recent = TRUE,
              !.state = IF n >= FailureThreshold THEN "opened" ELSE @]
record_failure(b) ==
    LET n == b.failures + 1 IN
    [b EXCEPT !.failures = n, !.recent = TRUE,
              !.state = IF n >= FailureThreshold THEN "open" ELSE @]

\* recovery_timeout has passed since the last failure.
Tick ==
    /\ breaker.recent
    /\ breaker' = [breaker EXCEPT !.recent = FALSE]
    /\ UNCHANGED <<call, errors, streak, earned>>

-----------------------------------------------------------------------------
(* _request.                                                               *)

\* The end of a call: what the breaker b is told, and the history of it.
Succeed(c) ==
    /\ breaker' = record_success(breaker)
    /\ call' = [call EXCEPT ![c].pc = "idle", ![c].result = "ok"]
    /\ streak' = 0
    /\ earned' = IF breaker.state = "half_open" /\ earned < SuccessThreshold
                 THEN earned + 1 ELSE earned
    /\ UNCHANGED errors

Fail(b) ==
    /\ breaker' = record_failure(b)
    /\ streak' = streak + 1
    /\ earned' = IF b.state # "open" /\ record_failure(b).state = "open"
                 THEN 0 ELSE earned

\* allow_request raises CircuitBreakerOpen.
Rejected(c) ==
    /\ call[c].pc = "idle"
    /\ Read(breaker).state = "open"
    /\ call' = [call EXCEPT ![c] = [pc |-> "idle", requests |-> 0, result |-> "rejected"]]
    /\ UNCHANGED <<breaker, errors, streak, earned>>

\* allow_request, then the first HTTP request of the call.
Admitted(c) ==
    /\ call[c].pc = "idle"
    /\ Mode[c] # "field"
    /\ Read(breaker).state # "open"
    /\ breaker' = Read(breaker)
    /\ call' = [call EXCEPT ![c] = [pc |-> "sent", requests |-> 1, result |-> "none"]]
    /\ UNCHANGED <<errors, streak, earned>>

\* allow_request, then a provider whose auth_headers raise CredentialInvalid:
\* the call ends before the breaker is told anything.
NoCredential(c) ==
    /\ call[c].pc = "idle"
    /\ Read(breaker).state # "open"
    /\ breaker' = Read(breaker)
    /\ call' = [call EXCEPT ![c] = [pc |-> "idle", requests |-> 0, result |-> "none"]]
    /\ UNCHANGED <<errors, streak, earned>>

\* with_retry reads max_attempts of a dataclasses.Field: AttributeError, which
\* _request records as a failure of the provider.
PolicyRaises(c) ==
    /\ call[c].pc = "idle"
    /\ Mode[c] = "field"
    /\ Read(breaker).state # "open"
    /\ errors < MaxErrors
    /\ errors' = errors + 1
    /\ Fail(Read(breaker))
    /\ call' = [call EXCEPT ![c] = [pc |-> "idle", requests |-> 0, result |-> "error"]]

\* An answer below 400, or one of allowed_status.
Accepted(c) == call[c].pc = "sent" /\ Succeed(c)

\* 429 or 500, 502, 503, 504, with attempts of the policy left.
WillRetry(c) == Mode[c] = "policy" /\ call[c].requests < MaxAttempts

Backoff(c) ==
    /\ call[c].pc = "sent"
    /\ WillRetry(c)
    /\ errors < MaxErrors
    /\ errors' = errors + 1
    /\ call' = [call EXCEPT ![c].pc = "backoff"]
    /\ UNCHANGED <<breaker, streak, earned>>

\* The wait is over: the breaker is not asked again.
Resend(c) ==
    /\ call[c].pc = "backoff"
    /\ call' = [call EXCEPT ![c].pc = "sent", ![c].requests = @ + 1]
    /\ UNCHANGED <<breaker, errors, streak, earned>>

\* The call fails: a status to retry without WillRetry, any other status of 400
\* or more, or an error of httpx, neither of which with_retry retries.
Failed(c) ==
    /\ call[c].pc = "sent"
    /\ errors < MaxErrors
    /\ errors' = errors + 1
    /\ call' = [call EXCEPT ![c].pc = "idle", ![c].result = "error"]
    /\ Fail(breaker)

Step(c) ==
    \/ Accepted(c)
    \/ Backoff(c)
    \/ Resend(c)
    \/ Failed(c)

Next ==
    \/ Tick
    \/ \E c \in Calls :
          Rejected(c) \/ Admitted(c) \/ NoCredential(c) \/ PolicyRaises(c) \/ Step(c)

Spec == Init /\ [][Next]_vars

\* Time passes, requests are answered (httpx has a timeout of 30 seconds) and
\* callers with credentials keep coming.
FairSpec ==
    /\ Spec
    /\ WF_vars(Tick)
    /\ \A c \in Calls : WF_vars(Step(c)) /\ WF_vars(Admitted(c))

-----------------------------------------------------------------------------
(* Properties.                                                             *)

\* An answer to a request sent before the breaker opened does not close it: an
\* open breaker is only left for half-open, once recovery_timeout has passed
\* since the last failure, late ones included.
LateAnswersKeepItOpen ==
    [][breaker.state = "open" /\ breaker'.state # "open"
          => breaker'.state = "half_open" /\ ~breaker.recent]_vars

\* In a closed breaker the count is that of the consecutive failures, whatever
\* late answers and recoveries went before: it opens on FailureThreshold of
\* them and on nothing less.
CountsConsecutiveFailures ==
    breaker.state = "closed"
        => breaker.failures = streak /\ streak < FailureThreshold

\* A breaker that had opened is closed again only after SuccessThreshold
\* successes in half-open since then: none counts of an earlier recovery that
\* was broken off.
RecoveryIsEarned == breaker.state = "closed" => earned = SuccessThreshold

\* When the failures stop the breaker closes and stays closed.
HealthyRecovers == <>[](breaker.state = "closed")

\* src/utils/circuit_breaker.py:19, "half-open probe": a failed probe opens the
\* breaker again.
FailedProbeReopens ==
    [][breaker.state = "half_open" /\ streak' > streak => breaker'.state = "open"]_vars

\* docs/providers.md:23, the helpers "provide retries": a call that fails has
\* sent at least one request.
FailureFollowsRequest ==
    \A c \in Calls : call[c].result = "error" => call[c].requests > 0
=============================================================================
