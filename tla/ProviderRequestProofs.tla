----------------------- MODULE ProviderRequestProofs -----------------------
(***************************************************************************)
(* Proofs about ProviderRequest for any number of callers, thresholds and  *)
(* attempts.  RecoveryIsEarned is not inductive: a breaker about to close  *)
(* must already hold as many half-open successes as the counter says, and  *)
(* none may be left from before it opened.  IInv adds both.                *)
(***************************************************************************)
EXTENDS ProviderRequest, TLAPS

\* What the success counter means in each state of the breaker.
CounterIsEarned ==
    /\ breaker.state = "open" => earned = 0
    /\ breaker.state = "half_open"
          => earned = breaker.successes /\ breaker.successes < SuccessThreshold

IInv == TypeOK /\ CountsConsecutiveFailures /\ RecoveryIsEarned /\ CounterIsEarned

-----------------------------------------------------------------------------
(* The methods of the breaker map breakers to breakers.                    *)

\* Reading the state changes it only from open to half-open.
LEMMA ReadType ==
    ASSUME NEW b \in Breakers
    PROVE  /\ Read(b) \in Breakers
           /\ Read(b) = b \/ /\ b.state = "open" /\ ~b.recent
                             /\ Read(b).state = "half_open" /\ Read(b).successes = 0
  BY DEF Read, Breakers

\* A success closes a half-open breaker or counts, and clears the failures of
\* one in another state.
LEMMA SuccessType ==
    ASSUME NEW b \in Breakers
    PROVE  /\ record_success(b) \in Breakers
           /\ b.state # "half_open" => /\ record_success(b).state = b.state
                                       /\ record_success(b).failures = 0
           /\ b.state = "half_open" =>
                 \/ /\ b.successes + 1 >= SuccessThreshold
                    /\ record_success(b).state = "closed"
                    /\ record_success(b).failures = 0
                 \/ /\ b.successes + 1 < SuccessThreshold
                    /\ record_success(b).state = "half_open"
                    /\ record_success(b).successes = b.successes + 1
<1>. USE DEF Breakers
<1>0. b.successes + 1 \in Nat /\ SuccessThreshold \in Nat
  BY ThresholdAssumption
<1>1. CASE b.state = "half_open" /\ b.successes + 1 >= SuccessThreshold
  <2>1. record_success(b) = [b EXCEPT !.state = "closed", !.failures = 0, !.successes = 0]
    BY <1>0, <1>1 DEF record_success
  <2>2. record_success(b).state = "closed" /\ record_success(b).failures = 0
    BY <2>1
  <2>3. ASSUME NEW r, NEW z \in Nat, NEW st \in {"closed", "open", "half_open"},
               r = [b EXCEPT !.state = st, !.failures = z, !.successes = z]
        PROVE  r \in Breakers
    BY <2>3
  <2>4. record_success(b) \in Breakers
    BY <2>1, <2>3
  <2>. QED BY <2>2, <2>4, <1>1
<1>2. CASE b.state = "half_open" /\ ~(b.successes + 1 >= SuccessThreshold)
  <2>1. b.successes + 1 < SuccessThreshold
    BY <1>0, <1>2
  <2>2. PICK n \in Nat : n = b.successes + 1
    BY <1>0
  <2>3. record_success(b) = [b EXCEPT !.successes = n]
    BY <1>2, <2>1, <2>2 DEF record_success
  <2>4. record_success(b) \in Breakers /\ record_success(b).state = b.state
        /\ record_success(b).successes = n
    BY <2>3
  <2>. QED BY <2>1, <2>2, <2>4, <1>2
<1>3. CASE b.state # "half_open"
  <2>1. record_success(b) = [b EXCEPT !.failures = 0]
    BY <1>3 DEF record_success
  <2>. QED BY <2>1, <1>3
<1>. QED BY <1>1, <1>2, <1>3

\* A failure is counted and, at the threshold, opens the breaker.
LEMMA FailureType ==
    ASSUME NEW b \in Breakers
    PROVE  /\ record_failure(b) \in Breakers
           /\ record_failure(b).failures = b.failures + 1
           /\ record_failure(b).successes = b.successes
           /\ b.failures + 1 >= FailureThreshold => record_failure(b).state = "open"
           /\ b.failures + 1 < FailureThreshold => record_failure(b).state = b.state
<1>0. /\ b.failures + 1 \in Nat /\ FailureThreshold \in Nat
      /\ b.state \in {"closed", "open", "half_open"} /\ b.successes \in Nat
  BY ThresholdAssumption DEF Breakers
<1>1. CASE b.failures + 1 >= FailureThreshold
  <2>0. PICK n \in Nat : n = b.failures + 1
    BY <1>0
  <2>1. record_failure(b) = [b EXCEPT !.failures = n, !.recent = TRUE, !.state = "open"]
    BY <1>1, <2>0 DEF record_failure
  <2>2. /\ record_failure(b) \in Breakers
        /\ record_failure(b).failures = n
        /\ record_failure(b).state = "open"
        /\ record_failure(b).successes = b.successes
    BY <2>1, <1>0 DEF Breakers
  <2>. QED BY <2>0, <2>2, <1>0, <1>1
<1>2. CASE ~(b.failures + 1 >= FailureThreshold)
  <2>0. PICK n \in Nat : n = b.failures + 1
    BY <1>0
  <2>1. record_failure(b) = [b EXCEPT !.failures = n, !.recent = TRUE, !.state = b.state]
    BY <1>2, <2>0 DEF record_failure
  <2>2. /\ record_failure(b) \in Breakers
        /\ record_failure(b).failures = n
        /\ record_failure(b).state = b.state
        /\ record_failure(b).successes = b.successes
    BY <2>1, <1>0 DEF Breakers
  <2>. QED BY <2>0, <2>2, <1>0, <1>2
<1>. QED BY <1>1, <1>2

-----------------------------------------------------------------------------
(* The invariant.                                                          *)

LEMMA InitInv == Init => IInv
<1>. SUFFICES ASSUME Init PROVE IInv
  OBVIOUS
<1>1. breaker \in Breakers /\ breaker.state = "closed" /\ breaker.failures = 0
  BY DEF Init, Breakers
<1>2. call \in [Calls -> CallState]
  BY DEF Init, CallState
<1>3. errors = 0 /\ streak = 0 /\ earned = SuccessThreshold
  BY DEF Init
<1>4. TypeOK
  <2>1. earned \in 0..SuccessThreshold
    BY <1>3, ThresholdAssumption
  <2>. QED BY <1>1, <1>2, <1>3, <2>1 DEF TypeOK
<1>. QED
  BY <1>1, <1>3, <1>4, ThresholdAssumption
  DEF IInv, CountsConsecutiveFailures, RecoveryIsEarned, CounterIsEarned

\* The part of IInv that speaks of the breaker and its history.
BreakerInv ==
    /\ breaker \in Breakers /\ streak \in Nat /\ earned \in 0..SuccessThreshold
    /\ CountsConsecutiveFailures /\ RecoveryIsEarned /\ CounterIsEarned

LEMMA SucceedInv ==
    ASSUME BreakerInv, NEW c \in Calls, Succeed(c)
    PROVE  BreakerInv'
<1>1. breaker' = record_success(breaker) /\ streak' = 0
  BY DEF Succeed
<1>2. earned' = IF breaker.state = "half_open" /\ earned < SuccessThreshold
                THEN earned + 1 ELSE earned
  BY DEF Succeed
<1>. QED
  BY <1>1, <1>2, SuccessType, ThresholdAssumption
  DEF BreakerInv, Breakers, CountsConsecutiveFailures, RecoveryIsEarned, CounterIsEarned

LEMMA FailInv ==
    ASSUME BreakerInv, Fail(breaker)
    PROVE  BreakerInv'
  BY FailureType, ThresholdAssumption
  DEF BreakerInv, Breakers, CountsConsecutiveFailures, RecoveryIsEarned, CounterIsEarned,
      Fail

LEMMA FailReadInv ==
    ASSUME BreakerInv, Fail(Read(breaker))
    PROVE  BreakerInv'
<1>1. CASE Read(breaker) = breaker
  BY <1>1, FailInv
<1>2. CASE Read(breaker) # breaker
  <2>1. /\ breaker.state = "open" /\ Read(breaker) \in Breakers
        /\ Read(breaker).state = "half_open" /\ Read(breaker).successes = 0
    BY <1>2, ReadType DEF BreakerInv
  <2>2. earned = 0
    BY <2>1 DEF BreakerInv, CounterIsEarned
  <2>3. /\ breaker' \in Breakers /\ breaker'.successes = 0
        /\ breaker'.state \in {"open", "half_open"}
    BY <2>1, FailureType, ThresholdAssumption DEF Fail, Breakers
  <2>4. streak' = streak + 1 /\ earned' = 0
    BY <2>2 DEF Fail
  <2>. QED
    BY <2>3, <2>4, ThresholdAssumption
    DEF BreakerInv, CountsConsecutiveFailures, RecoveryIsEarned, CounterIsEarned
<1>. QED BY <1>1, <1>2

LEMMA ReadInv ==
    ASSUME BreakerInv, breaker' = Read(breaker), UNCHANGED <<streak, earned>>
    PROVE  BreakerInv'
  BY ReadType, ThresholdAssumption
  DEF BreakerInv, Breakers, CountsConsecutiveFailures, RecoveryIsEarned, CounterIsEarned

LEMMA StepInv == IInv /\ [Next]_vars => IInv'
<1>. SUFFICES ASSUME IInv, [Next]_vars PROVE IInv'
  OBVIOUS
<1>1. BreakerInv
  BY DEF IInv, TypeOK, BreakerInv
<1>2. BreakerInv'
  <2>1. CASE Tick
    BY <1>1, <2>1 DEF Tick, BreakerInv, Breakers, CountsConsecutiveFailures,
                      RecoveryIsEarned, CounterIsEarned
  <2>2. ASSUME NEW c \in Calls, Rejected(c) \/ Admitted(c) \/ NoCredential(c)
        PROVE  BreakerInv'
    <3>1. CASE Rejected(c)
      BY <1>1, <3>1 DEF Rejected, BreakerInv, CountsConsecutiveFailures,
                        RecoveryIsEarned, CounterIsEarned
    <3>2. CASE Admitted(c)
      BY <1>1, <3>2, ReadInv DEF Admitted
    <3>3. CASE NoCredential(c)
      BY <1>1, <3>3, ReadInv DEF NoCredential
    <3>. QED BY <2>2, <3>1, <3>2, <3>3
  <2>3. ASSUME NEW c \in Calls, PolicyRaises(c) PROVE BreakerInv'
    BY <1>1, <2>3, FailReadInv DEF PolicyRaises
  <2>4. ASSUME NEW c \in Calls, Step(c) PROVE BreakerInv'
    <3>1. CASE Accepted(c)
      BY <1>1, <3>1, SucceedInv DEF Accepted
    <3>2. CASE Backoff(c) \/ Resend(c)
      BY <1>1, <3>2 DEF Backoff, Resend, BreakerInv, CountsConsecutiveFailures,
                        RecoveryIsEarned, CounterIsEarned
    <3>3. CASE Failed(c)
      BY <1>1, <3>3, FailInv DEF Failed
    <3>. QED BY <2>4, <3>1, <3>2, <3>3 DEF Step
  <2>5. CASE UNCHANGED vars
    BY <1>1, <2>5 DEF vars, BreakerInv, CountsConsecutiveFailures,
                      RecoveryIsEarned, CounterIsEarned
  <2>. QED BY <2>1, <2>2, <2>3, <2>4, <2>5 DEF Next
<1>3. call' \in [Calls -> CallState] /\ errors' \in Nat
  <2>. USE DEF IInv, TypeOK
  <2>1. CASE Tick \/ UNCHANGED vars
    BY <2>1 DEF Tick, vars
  <2>2. ASSUME NEW c \in Calls,
               Rejected(c) \/ Admitted(c) \/ NoCredential(c) \/ PolicyRaises(c)
        PROVE  call' \in [Calls -> CallState] /\ errors' \in Nat
    <3>1. CASE Rejected(c)
      BY <3>1 DEF Rejected, CallState
    <3>2. CASE Admitted(c)
      BY <3>2 DEF Admitted, CallState
    <3>3. CASE NoCredential(c)
      BY <3>3 DEF NoCredential, CallState
    <3>4. CASE PolicyRaises(c)
      BY <3>4 DEF PolicyRaises, CallState
    <3>. QED BY <2>2, <3>1, <3>2, <3>3, <3>4
  <2>3. ASSUME NEW c \in Calls, Step(c)
        PROVE  call' \in [Calls -> CallState] /\ errors' \in Nat
    <3>0. call[c] \in CallState
      OBVIOUS
    <3>1. CASE Accepted(c)
      <4>1. [call[c] EXCEPT !.pc = "idle", !.result = "ok"] \in CallState
        BY <3>0 DEF CallState
      <4>. QED BY <3>1, <4>1 DEF Accepted, Succeed
    <3>2. CASE Backoff(c)
      <4>1. [call[c] EXCEPT !.pc = "backoff"] \in CallState
        BY <3>0 DEF CallState
      <4>. QED BY <3>2, <4>1 DEF Backoff
    <3>3. CASE Resend(c)
      <4>0. call[c].requests + 1 \in Nat
        BY <3>0 DEF CallState
      <4>1. ASSUME NEW n \in Nat
            PROVE  [call[c] EXCEPT !.pc = "sent", !.requests = n] \in CallState
        BY <3>0 DEF CallState
      <4>. QED BY <3>3, <4>0, <4>1 DEF Resend
    <3>4. CASE Failed(c)
      <4>1. [call[c] EXCEPT !.pc = "idle", !.result = "error"] \in CallState
        BY <3>0 DEF CallState
      <4>. QED BY <3>4, <4>1 DEF Failed
    <3>. QED BY <2>3, <3>1, <3>2, <3>3, <3>4 DEF Step
  <2>. QED BY <2>1, <2>2, <2>3 DEF Next
<1>. QED BY <1>2, <1>3 DEF IInv, TypeOK, BreakerInv

LEMMA Invariance == Spec => []IInv
  BY InitInv, StepInv, PTL DEF Spec

-----------------------------------------------------------------------------
(* Theorems.                                                               *)

\* The counters, the breaker and the callers keep their types (the breaker of
\* one provider, shared by every call of a process).
THEOREM TypeCorrect == Spec => []TypeOK
  BY Invariance, PTL DEF IInv

\* A closed breaker counts consecutive failures, after any history of late
\* answers, recoveries and failed calls.
THEOREM CountTheorem == Spec => []CountsConsecutiveFailures
  BY Invariance, PTL DEF IInv

\* A breaker closes again only on successes recorded in half-open since it last
\* opened.
THEOREM RecoveryTheorem == Spec => []RecoveryIsEarned
  BY Invariance, PTL DEF IInv

\* The action LateAnswersKeepItOpen allows.
Guarded == breaker.state = "open" /\ breaker'.state # "open"
              => breaker'.state = "half_open" /\ ~breaker.recent

LEMMA StepGuarded == IInv /\ [Next]_vars => Guarded
<1>. SUFFICES ASSUME IInv, [Next]_vars, breaker.state = "open", breaker'.state # "open"
              PROVE  breaker'.state = "half_open" /\ ~breaker.recent
  BY DEF Guarded
<1>0. breaker \in Breakers
  BY DEF IInv, TypeOK
<1>1. CASE Tick \/ UNCHANGED vars
  BY <1>0, <1>1 DEF Tick, vars, Breakers
<1>2. ASSUME NEW c \in Calls, Rejected(c) \/ Admitted(c) \/ NoCredential(c)
      PROVE  breaker'.state = "half_open" /\ ~breaker.recent
  BY <1>2, <1>0, ReadType DEF Rejected, Admitted, NoCredential
<1>3. ASSUME NEW c \in Calls, PolicyRaises(c)
      PROVE  breaker'.state = "half_open" /\ ~breaker.recent
  <2>1. /\ breaker' = record_failure(Read(breaker))
        /\ Read(breaker).state # "open"
    BY <1>3 DEF PolicyRaises, Fail
  <2>2. /\ Read(breaker) \in Breakers /\ Read(breaker).state = "half_open"
        /\ ~breaker.recent
    BY <1>0, <2>1, ReadType
  <2>. QED
    BY <2>1, <2>2, FailureType, ThresholdAssumption DEF Breakers
<1>4. ASSUME NEW c \in Calls, Step(c)
      PROVE  breaker'.state = "half_open" /\ ~breaker.recent
  <2>1. CASE Accepted(c)
    BY <1>0, <2>1, SuccessType DEF Accepted, Succeed
  <2>2. CASE Backoff(c) \/ Resend(c)
    BY <2>2 DEF Backoff, Resend
  <2>3. CASE Failed(c)
    BY <1>0, <2>3, FailureType, ThresholdAssumption DEF Failed, Fail, Breakers
  <2>. QED BY <1>4, <2>1, <2>2, <2>3 DEF Step
<1>. QED BY <1>1, <1>2, <1>3, <1>4 DEF Next

\* No answer closes an open breaker, however late: it leaves that state only
\* for half-open and only after recovery_timeout.
THEOREM LateAnswerTheorem == Spec => LateAnswersKeepItOpen
<1>1. IInv /\ [Next]_vars => [Guarded]_vars
  BY StepGuarded
<1>. QED
  BY <1>1, Invariance, PTL DEF Spec, LateAnswersKeepItOpen, Guarded
=============================================================================
