----------------------- MODULE WebhookDeliveryProofs -----------------------
(***************************************************************************)
(* Proofs about WebhookDelivery, for any sets of events, subscriptions and *)
(* workers and any limits.  TypeOK is inductive by itself; the safety      *)
(* properties need to know what a session in flight may have loaded        *)
(* (WorkerInv), because it commits from that copy.                         *)
(***************************************************************************)
EXTENDS WebhookDelivery, TLAPS

\* The shapes a worker's record takes.
LEMMA IdleType == Idle \in WorkerState
  BY DEF Idle, WorkerState, Statuses

LEMMA DispatchingType ==
  ASSUME NEW e \in Events, NEW b \in SUBSET Events, NEW l \in Statuses
  PROVE  Dispatching(e, b, l) \in WorkerState
  BY DEF Dispatching, Idle, WorkerState, Statuses

LEMMA StoredType ==
  ASSUME NEW e \in Events
  PROVE  [Idle EXCEPT !.pc = "stored", !.event = e] \in WorkerState
  BY DEF Idle, WorkerState, Statuses

LEMMA ContinueType ==
  ASSUME TypeOK, NEW w \in Workers
  PROVE  Continue(w) \in WorkerState
  BY IdleType DEF TypeOK, Continue, Idle, WorkerState, Statuses

LEMMA AfterDeliveryType ==
  ASSUME TypeOK, NEW w \in Workers
  PROVE  AfterDelivery(w) \in WorkerState
  <1>1. [worker[w] EXCEPT !.pc = "deliver", !.target = None] \in WorkerState
    BY DEF TypeOK, WorkerState
  <1> QED BY <1>1, ContinueType DEF AfterDelivery

LEMMA OutcomeType ==
  ASSUME NEW b \in BOOLEAN
  PROVE  Outcome(b) \in Statuses
  BY DEF Outcome, Statuses

\* A worker from "stored" to "answered" holds an event.
HoldsEvent ==
    \A w \in Workers :
        worker[w].pc \in {"stored", "match", "unmatched", "deliver", "posting",
                          "answered"}
            => worker[w].event \in Events

HoldsTarget ==
    \A w \in Workers :
        worker[w].pc \in {"posting", "answered"}
            => worker[w].target \in Subscriptions

Typed == TypeOK /\ HoldsEvent /\ HoldsTarget

LEMMA TypedInit == Init => Typed
  BY IdleType, BoundAssumption
     DEF Init, Typed, TypeOK, HoldsEvent, HoldsTarget, Statuses, Idle

LEMMA TypedStep == Typed /\ [Next]_vars => Typed'
  <1> SUFFICES ASSUME Typed, [Next]_vars PROVE Typed'
    OBVIOUS
  <1> USE DEF Typed
  <1>1. ASSUME NEW s \in Subscriptions, register_webhook(s) \/ delete_webhook(s)
        PROVE  Typed'
    BY <1>1 DEF TypeOK, HoldsEvent, HoldsTarget, register_webhook, delete_webhook, tables
  <1>2. ASSUME NEW w \in Workers, NEW e \in Events, receive_webhook(w, e)
        PROVE  Typed'
    <2>2. TypeOK'
      BY <1>2, StoredType DEF TypeOK, receive_webhook, Statuses
    <2>3. HoldsEvent' /\ HoldsTarget'
      BY <1>2 DEF TypeOK, HoldsEvent, HoldsTarget, receive_webhook, Idle
    <2> QED BY <2>2, <2>3
  <1>14. ASSUME NEW w \in Workers, RefreshStored(w)
         PROVE  Typed'
    <2>1. worker[w].event \in Events
      BY <1>14 DEF RefreshStored, HoldsEvent
    <2>2. Dispatching(worker[w].event, {}, status[worker[w].event]) \in WorkerState
      BY <2>1, DispatchingType DEF TypeOK
    <2>3. TypeOK'
      BY <1>14, <2>2 DEF TypeOK, RefreshStored, tables
    <2>4. HoldsEvent' /\ HoldsTarget'
      BY <1>14, <2>1 DEF TypeOK, HoldsEvent, HoldsTarget, RefreshStored, Dispatching, Idle
    <2> QED BY <2>3, <2>4
  <1>3. ASSUME NEW w \in Workers, NEW e \in Events, redispatch_event(w, e)
        PROVE  Typed'
    <2>1. Dispatching(e, {}, status[e]) \in WorkerState
      BY DispatchingType DEF TypeOK
    <2>2. TypeOK'
      BY <1>3, <2>1 DEF TypeOK, redispatch_event, tables
    <2>3. HoldsEvent' /\ HoldsTarget'
      BY <1>3 DEF TypeOK, HoldsEvent, HoldsTarget, redispatch_event, Dispatching, Idle
    <2> QED BY <2>2, <2>3
  <1>4. ASSUME NEW w \in Workers, retry_failed(w) \/ dead_letter_overflow(w)
        PROVE  Typed'
    <2>1. PICK b \in SUBSET Events, p \in {"next", "bury"} :
             worker' = [worker EXCEPT ![w] = [Idle EXCEPT !.pc = p, !.batch = b]]
      BY <1>4 DEF retry_failed, dead_letter_overflow, Selections, Due, Exhausted
    <2>2. [Idle EXCEPT !.pc = p, !.batch = b] \in WorkerState
      BY DEF Idle, WorkerState, Statuses
    <2>3. UNCHANGED <<tables, subscription, accepted, replays, faults, shared>>
      BY <1>4 DEF retry_failed, dead_letter_overflow
    <2>4. TypeOK'
      BY <2>1, <2>2, <2>3 DEF TypeOK, tables
    <2>5. HoldsEvent' /\ HoldsTarget'
      BY <2>1 DEF TypeOK, HoldsEvent, HoldsTarget, Idle
    <2> QED BY <2>4, <2>5
  <1>5. ASSUME NEW w \in Workers, RetryNext(w)
        PROVE  Typed'
    <2>1. PICK e \in worker[w].batch :
             worker' = [worker EXCEPT ![w] = Dispatching(e, worker[w].batch \ {e}, "failed")]
      BY <1>5 DEF RetryNext
    <2>2. e \in Events /\ worker[w].batch \ {e} \in SUBSET Events
      BY DEF TypeOK, WorkerState
    <2>3. Dispatching(e, worker[w].batch \ {e}, "failed") \in WorkerState
      BY <2>2, DispatchingType DEF Statuses
    <2>4. TypeOK'
      BY <1>5, <2>1, <2>3 DEF RetryNext, TypeOK, tables
    <2>5. HoldsEvent' /\ HoldsTarget'
      BY <2>1, <2>2 DEF TypeOK, HoldsEvent, HoldsTarget, Dispatching, Idle
    <2> QED BY <2>4, <2>5
  <1>6. ASSUME NEW w \in Workers, Bury(w)
        PROVE  Typed'
    <2>1. TypeOK'
      BY <1>6, IdleType DEF TypeOK, Bury, Statuses
    <2>2. HoldsEvent' /\ HoldsTarget'
      BY <1>6 DEF TypeOK, HoldsEvent, HoldsTarget, Bury, Idle
    <2> QED BY <2>1, <2>2
  <1>7. ASSUME NEW w \in Workers, dispatch_event(w)
        PROVE  Typed'
    <2>1. worker[w].event \in Events
      BY <1>7 DEF dispatch_event, HoldsEvent
    <2> DEFINE found == Matching(worker[w].event)
    <2>a. found \in SUBSET Subscriptions
      BY DEF Matching
    <2>b. worker' = [worker EXCEPT ![w].todo = found,
                                   ![w].pc = IF found = {} THEN "unmatched" ELSE "deliver"]
      BY <1>7 DEF dispatch_event
    <2> HIDE DEF found
    <2> DEFINE where == IF found = {} THEN "unmatched" ELSE "deliver"
    <2>c. where \in {"unmatched", "deliver"}
      OBVIOUS
    <2>2. worker' = [worker EXCEPT ![w] = [@ EXCEPT !.todo = found, !.pc = where]]
      BY <2>b
    <2> HIDE DEF where
    <2>w. worker[w] \in WorkerState
      BY DEF TypeOK
    <2>r. [worker[w] EXCEPT !.todo = found, !.pc = where] \in WorkerState
      BY <2>a, <2>c, <2>w DEF WorkerState
    <2>u. UNCHANGED <<tables, subscription, accepted, replays, faults, shared>>
      BY <1>7 DEF dispatch_event
    <2>3. TypeOK'
      BY <2>2, <2>r, <2>u DEF TypeOK, tables
    <2>f. /\ worker'[w].event = worker[w].event /\ worker'[w].pc = where
          /\ \A x \in Workers \ {w} : worker'[x] = worker[x]
      BY <2>2, <2>w DEF TypeOK, WorkerState
    <2>4. HoldsEvent' /\ HoldsTarget'
      BY <2>1, <2>f, <2>c DEF HoldsEvent, HoldsTarget
    <2> QED BY <2>3, <2>4
  <1>8. ASSUME NEW w \in Workers, NoSubscribers(w)
        PROVE  Typed'
    <2>1. Continue(w) \in WorkerState
      BY ContinueType
    <2>2. TypeOK'
      BY <1>8, <2>1 DEF TypeOK, NoSubscribers, Flushed, Statuses
    <2>3. HoldsEvent' /\ HoldsTarget'
      BY <1>8 DEF TypeOK, HoldsEvent, HoldsTarget, NoSubscribers, Continue, Idle
    <2> QED BY <2>2, <2>3
  <1>9. ASSUME NEW w \in Workers, deliver_to_subscription(w)
        PROVE  Typed'
    <2>1. worker[w].event \in Events
      BY <1>9 DEF deliver_to_subscription, HoldsEvent
    <2>2. PICK s \in worker[w].todo :
             worker' = [worker EXCEPT ![w].pc = "posting", ![w].todo = @ \ {s},
                                      ![w].target = s,
                                      ![w].seenStatus = status[worker[w].event],
                                      ![w].seenAttempts = attempts[worker[w].event]]
      BY <1>9 DEF deliver_to_subscription
    <2>3. /\ UNCHANGED <<tables, subscription, accepted, replays, faults>>
          /\ shared' = shared \/ shared' = shared \cup {worker[w].event}
      BY <1>9 DEF deliver_to_subscription
    <2>4. /\ status[worker[w].event] \in Statuses /\ attempts[worker[w].event] \in Nat
          /\ s \in Subscriptions
      BY <2>1 DEF TypeOK, WorkerState
    <2>5. worker' \in [Workers -> WorkerState]
      BY <2>2, <2>4 DEF TypeOK, WorkerState
    <2>6. /\ \A x \in Workers \ {w} : worker'[x] = worker[x]
          /\ worker'[w].event = worker[w].event /\ worker'[w].target = s
      BY <2>2 DEF TypeOK, WorkerState
    <2>7. TypeOK'
      BY <2>1, <2>3, <2>5 DEF TypeOK, tables
    <2>8. HoldsEvent' /\ HoldsTarget'
      BY <2>1, <2>4, <2>6 DEF HoldsEvent, HoldsTarget
    <2> QED BY <2>7, <2>8
  <1>10. ASSUME NEW w \in Workers, InvalidTarget(w) \/ Crash(w)
         PROVE  Typed'
    <2>1. /\ worker' = [worker EXCEPT ![w] = Idle]
          /\ UNCHANGED <<tables, subscription, accepted, replays, shared>>
          /\ faults' = faults \/ faults' = faults + 1
      BY <1>10 DEF InvalidTarget, Crash
    <2>2. TypeOK'
      BY <2>1, IdleType DEF TypeOK, tables
    <2>3. HoldsEvent' /\ HoldsTarget'
      BY <2>1 DEF TypeOK, HoldsEvent, HoldsTarget, Idle
    <2> QED BY <2>2, <2>3
  <1>11. ASSUME NEW w \in Workers, NEW taken \in BOOLEAN, NEW success \in BOOLEAN,
                Answer(w, taken, success)
         PROVE  Typed'
    <2>1. worker[w].event \in Events /\ worker[w].target \in Subscriptions
      BY <1>11 DEF Answer, HoldsEvent, HoldsTarget
    <2>2. accepted' \subseteq Events \X Subscriptions
      BY <1>11, <2>1 DEF TypeOK, Answer
    <2>3. worker' = [worker EXCEPT ![w].pc = "answered", ![w].success = success]
      BY <1>11 DEF Answer
    <2>r. [worker[w] EXCEPT !.pc = "answered", !.success = success] \in WorkerState
      BY DEF TypeOK, WorkerState
    <2>u. UNCHANGED <<tables, subscription, replays, faults, shared>>
      BY <1>11 DEF Answer
    <2>4. TypeOK'
      BY <2>2, <2>3, <2>r, <2>u DEF TypeOK, tables
    <2>5. HoldsEvent' /\ HoldsTarget'
      BY <2>1, <2>3 DEF TypeOK, HoldsEvent, HoldsTarget, WorkerState
    <2> QED BY <2>4, <2>5
  <1>12. ASSUME NEW w \in Workers, Settle(w)
         PROVE  Typed'
    <2>1. worker[w].event \in Events /\ worker[w].target \in Subscriptions
      BY <1>12 DEF Settle, HoldsEvent, HoldsTarget
    <2>2. AfterDelivery(w) \in WorkerState
      BY AfterDeliveryType
    <2>3. /\ worker[w].seenAttempts \in Nat
          /\ worker[w].success \in BOOLEAN
      BY DEF TypeOK, WorkerState
    <2>4. Outcome(worker[w].success) \in Statuses
      BY <2>3, OutcomeType
    <2>5. TypeOK'
      BY <1>12, <2>1, <2>2, <2>3, <2>4 DEF TypeOK, Settle, Flushed, Recorded, Counted
    <2>6. HoldsEvent' /\ HoldsTarget'
      BY <1>12, <2>1 DEF TypeOK, HoldsEvent, HoldsTarget, Settle, AfterDelivery,
                         Continue, Idle, WorkerState
    <2> QED BY <2>5, <2>6
  <1>13. CASE UNCHANGED vars
    BY <1>13 DEF TypeOK, HoldsEvent, HoldsTarget, vars
  <1> QED
    BY <1>1, <1>2, <1>3, <1>4, <1>5, <1>6, <1>7, <1>8, <1>9, <1>10, <1>11, <1>12,
       <1>13, <1>14
    DEF Next, Proceed

\* Every variable keeps its type, with any number of workers and faults.
THEOREM TypeCorrect == Spec => []TypeOK
  <1>1. Typed => TypeOK
    BY DEF Typed
  <1> QED BY <1>1, TypedInit, TypedStep, PTL DEF Spec

-----------------------------------------------------------------------------
(* Safety.                                                                 *)

\* What a session in flight carries is still true of the tables when it is
\* used: delivery rows are only added and an accepted delivery stays accepted.
SeenIsPast ==
    \A w \in Workers :
        worker[w].pc \in {"posting", "answered"}
            => worker[w].seenAttempts <= rows[worker[w].event]

ServesItsChannel ==
    \A w \in Workers :
        /\ worker[w].pc \in {"deliver", "posting", "answered"}
             => \A s \in worker[w].todo : Channel[s] = Channel[worker[w].event]
        /\ worker[w].pc \in {"posting", "answered"}
             => Channel[worker[w].target] = Channel[worker[w].event]

SuccessWasAccepted ==
    \A w \in Workers :
        worker[w].pc = "answered" /\ worker[w].success
            => <<worker[w].event, worker[w].target>> \in accepted

BuriesExhausted ==
    \A w \in Workers :
        worker[w].pc = "bury" => \A e \in worker[w].batch : rows[e] >= RetryMax

WorkerInv == SeenIsPast /\ ServesItsChannel /\ SuccessWasAccepted /\ BuriesExhausted

Safety == /\ DeliveredWasAccepted
          /\ FailedHasFailure
          /\ AttemptsAreDeliveries
          /\ DeadLetteredIsExhausted
          /\ DeliveriesStayInChannel

IInv == Typed /\ WorkerInv /\ Safety

LEMMA SafetyInit == Init => IInv
  <1> SUFFICES ASSUME Init PROVE IInv
    OBVIOUS
  <1>1. Typed
    BY TypedInit
  <1>2. WorkerInv
    BY DEF Init, WorkerInv, SeenIsPast, ServesItsChannel, SuccessWasAccepted,
           BuriesExhausted, Idle
  <1>3. Safety
    BY DEF Init, Safety, DeliveredWasAccepted, FailedHasFailure,
           AttemptsAreDeliveries, DeadLetteredIsExhausted, DeliveriesStayInChannel
  <1> QED BY <1>1, <1>2, <1>3 DEF IInv

\* A step that leaves the tables and the outside world alone keeps Safety.
LEMMA SafetyFrame ==
  ASSUME Safety, UNCHANGED <<tables, accepted>>
  PROVE  Safety'
  BY DEF Safety, DeliveredWasAccepted, FailedHasFailure, AttemptsAreDeliveries,
         DeadLetteredIsExhausted, DeliveriesStayInChannel, tables

\* A worker that becomes idle, or only waits for its next event, carries
\* nothing that WorkerInv constrains.
LEMMA WorkerFrame ==
  ASSUME Typed, WorkerInv, NEW w \in Workers, NEW r \in WorkerState,
         r.pc \in {"idle", "stored", "next", "match", "unmatched"},
         worker' = [worker EXCEPT ![w] = r], UNCHANGED <<rows, accepted>>
  PROVE  WorkerInv'
  BY DEF Typed, TypeOK, WorkerInv, SeenIsPast, ServesItsChannel,
         SuccessWasAccepted, BuriesExhausted

LEMMA SafetyStep == IInv /\ [Next]_vars => IInv'
  <1> SUFFICES ASSUME IInv, [Next]_vars PROVE WorkerInv' /\ Safety'
    BY TypedStep DEF IInv
  <1> USE DEF IInv
  <1>t. TypeOK /\ HoldsEvent /\ HoldsTarget
    BY DEF Typed
  <1>1. ASSUME NEW s \in Subscriptions, register_webhook(s) \/ delete_webhook(s)
        PROVE  WorkerInv' /\ Safety'
    <2>1. UNCHANGED <<tables, accepted, worker>>
      BY <1>1 DEF register_webhook, delete_webhook
    <2>2. WorkerInv'
      BY <2>1 DEF WorkerInv, SeenIsPast, ServesItsChannel, SuccessWasAccepted,
                  BuriesExhausted, tables
    <2> QED BY <2>1, <2>2, SafetyFrame
  <1>2. ASSUME NEW w \in Workers, NEW e \in Events, receive_webhook(w, e)
        PROVE  WorkerInv' /\ Safety'
    <2>2. [Idle EXCEPT !.pc = "stored", !.event = e].pc = "stored"
      BY DEF Idle
    <2>3. WorkerInv'
      BY <1>2, <2>2, StoredType, WorkerFrame DEF receive_webhook
    <2>4. Safety'
      BY <1>2, <1>t DEF receive_webhook, TypeOK, Safety, DeliveredWasAccepted,
         FailedHasFailure, AttemptsAreDeliveries, DeadLetteredIsExhausted,
         DeliveriesStayInChannel
    <2> QED BY <2>3, <2>4
  <1>15. ASSUME NEW w \in Workers, RefreshStored(w)
         PROVE  WorkerInv' /\ Safety'
    <2> DEFINE r == Dispatching(worker[w].event, {}, status[worker[w].event])
    <2>1. r \in WorkerState
      BY <1>15, <1>t, DispatchingType DEF RefreshStored, HoldsEvent, TypeOK
    <2>2. r.pc = "match"
      BY DEF Dispatching, Idle
    <2>3. worker' = [worker EXCEPT ![w] = r] /\ UNCHANGED <<tables, accepted>>
      BY <1>15 DEF RefreshStored
    <2> HIDE DEF r
    <2>4. WorkerInv'
      BY <2>1, <2>2, <2>3, WorkerFrame DEF tables
    <2> QED BY <2>3, <2>4, SafetyFrame
  <1>3. ASSUME NEW w \in Workers, NEW e \in Events, redispatch_event(w, e)
        PROVE  WorkerInv' /\ Safety'
    <2>1. Dispatching(e, {}, status[e]) \in WorkerState
      BY <1>t, DispatchingType DEF TypeOK
    <2>2. Dispatching(e, {}, status[e]).pc = "match"
      BY DEF Dispatching, Idle
    <2>3. WorkerInv'
      BY <1>3, <2>1, <2>2, WorkerFrame DEF redispatch_event, tables
    <2> QED BY <1>3, <2>3, SafetyFrame DEF redispatch_event
  <1>4. ASSUME NEW w \in Workers, retry_failed(w)
        PROVE  WorkerInv' /\ Safety'
    <2>1. PICK b \in SUBSET Events :
             worker' = [worker EXCEPT ![w] = [Idle EXCEPT !.pc = "next", !.batch = b]]
      BY <1>4 DEF retry_failed, Selections, Due
    <2>2. [Idle EXCEPT !.pc = "next", !.batch = b] \in WorkerState
      BY DEF Idle, WorkerState, Statuses
    <2>3. [Idle EXCEPT !.pc = "next", !.batch = b].pc = "next"
      BY DEF Idle
    <2>4. WorkerInv'
      BY <1>4, <2>1, <2>2, <2>3, WorkerFrame DEF retry_failed, tables
    <2> QED BY <1>4, <2>4, SafetyFrame DEF retry_failed
  <1>5. ASSUME NEW w \in Workers, dead_letter_overflow(w)
        PROVE  WorkerInv' /\ Safety'
    <2>1. PICK b \in SUBSET Exhausted :
             worker' = [worker EXCEPT ![w] = [Idle EXCEPT !.pc = "bury", !.batch = b]]
      BY <1>5 DEF dead_letter_overflow, Selections
    <2>2. \A e \in b : rows[e] >= RetryMax
      BY <1>t, RetryMaxAssumption
         DEF Exhausted, TypeOK, Safety, AttemptsAreDeliveries
    <2>3. WorkerInv'
      BY <1>5, <1>t, <2>1, <2>2
         DEF dead_letter_overflow, TypeOK, WorkerInv, SeenIsPast, ServesItsChannel,
             SuccessWasAccepted, BuriesExhausted, Idle, tables
    <2> QED BY <1>5, <2>3, SafetyFrame DEF dead_letter_overflow
  <1>6. ASSUME NEW w \in Workers, RetryNext(w)
        PROVE  WorkerInv' /\ Safety'
    <2>1. PICK e \in worker[w].batch :
             worker' = [worker EXCEPT ![w] = Dispatching(e, worker[w].batch \ {e}, "failed")]
      BY <1>6 DEF RetryNext
    <2>2. e \in Events /\ worker[w].batch \ {e} \in SUBSET Events
      BY <1>t DEF TypeOK, WorkerState
    <2>3. Dispatching(e, worker[w].batch \ {e}, "failed") \in WorkerState
      BY <2>2, DispatchingType DEF Statuses
    <2>4. Dispatching(e, worker[w].batch \ {e}, "failed").pc = "match"
      BY DEF Dispatching, Idle
    <2>5. WorkerInv'
      BY <1>6, <2>1, <2>3, <2>4, WorkerFrame DEF RetryNext, tables
    <2> QED BY <1>6, <2>5, SafetyFrame DEF RetryNext
  <1>7. ASSUME NEW w \in Workers, Bury(w)
        PROVE  WorkerInv' /\ Safety'
    <2>1. Idle.pc = "idle"
      BY DEF Idle
    <2>2. WorkerInv'
      BY <1>7, <2>1, IdleType, WorkerFrame DEF Bury
    <2>3. \A e \in worker[w].batch : rows[e] >= RetryMax
      BY <1>7 DEF Bury, WorkerInv, BuriesExhausted
    <2>4. Safety'
      BY <1>7, <1>t, <2>3 DEF Bury, TypeOK, Safety, DeliveredWasAccepted,
         FailedHasFailure, AttemptsAreDeliveries, DeadLetteredIsExhausted,
         DeliveriesStayInChannel
    <2> QED BY <2>2, <2>4
  <1>8. ASSUME NEW w \in Workers, dispatch_event(w)
        PROVE  WorkerInv' /\ Safety'
    <2> DEFINE found == Matching(worker[w].event)
    <2>1. \A s \in found : Channel[s] = Channel[worker[w].event]
      BY DEF Matching
    <2>2. worker' = [worker EXCEPT ![w].todo = found,
                                   ![w].pc = IF found = {} THEN "unmatched" ELSE "deliver"]
      BY <1>8 DEF dispatch_event
    <2>3. UNCHANGED <<tables, accepted>>
      BY <1>8 DEF dispatch_event
    <2> HIDE DEF found
    <2>4. PICK p \in {"unmatched", "deliver"} :
             worker' = [worker EXCEPT ![w].todo = found, ![w].pc = p]
      BY <2>2
    <2>5. WorkerInv'
      BY <1>t, <2>1, <2>3, <2>4
         DEF TypeOK, WorkerState, WorkerInv, SeenIsPast, ServesItsChannel,
             SuccessWasAccepted, BuriesExhausted, tables
    <2> QED BY <2>3, <2>5, SafetyFrame
  <1>9. ASSUME NEW w \in Workers, NoSubscribers(w)
        PROVE  WorkerInv' /\ Safety'
    <2>1. Continue(w) \in WorkerState
      BY <1>t, ContinueType
    <2>2. Continue(w).pc \in {"idle", "next"}
      BY DEF Continue, Idle
    <2>3. WorkerInv'
      BY <1>9, <2>1, <2>2, WorkerFrame DEF NoSubscribers
    <2>4. Safety'
      BY <1>9, <1>t DEF NoSubscribers, Flushed, TypeOK, Safety, DeliveredWasAccepted,
         FailedHasFailure, AttemptsAreDeliveries, DeadLetteredIsExhausted,
         DeliveriesStayInChannel
    <2> QED BY <2>3, <2>4
  <1>10. ASSUME NEW w \in Workers, deliver_to_subscription(w)
         PROVE  WorkerInv' /\ Safety'
    <2> DEFINE e == worker[w].event
    <2>1. e \in Events
      BY <1>10, <1>t DEF deliver_to_subscription, HoldsEvent
    <2>2. PICK s \in worker[w].todo :
             worker' = [worker EXCEPT ![w].pc = "posting", ![w].todo = @ \ {s},
                                      ![w].target = s, ![w].seenStatus = status[e],
                                      ![w].seenAttempts = attempts[e]]
      BY <1>10 DEF deliver_to_subscription
    <2>3. UNCHANGED <<tables, accepted>>
      BY <1>10 DEF deliver_to_subscription
    <2>4. \A x \in worker[w].todo : Channel[x] = Channel[e]
      BY <1>10 DEF deliver_to_subscription, WorkerInv, ServesItsChannel
    <2>5. attempts[e] <= rows[e]
      BY <2>1 DEF Safety, AttemptsAreDeliveries
    <2>6. /\ \A x \in Workers \ {w} : worker'[x] = worker[x]
          /\ worker'[w].pc = "posting" /\ worker'[w].event = e
          /\ worker'[w].todo = worker[w].todo \ {s} /\ worker'[w].target = s
          /\ worker'[w].seenAttempts = attempts[e]
          /\ rows' = rows /\ accepted' = accepted
      BY <1>t, <2>2, <2>3 DEF TypeOK, WorkerState, tables
    <2> HIDE DEF e
    <2>7. SeenIsPast'
      BY <2>5, <2>6 DEF WorkerInv, SeenIsPast
    <2>8. ServesItsChannel'
      BY <2>4, <2>6 DEF WorkerInv, ServesItsChannel
    <2>9. SuccessWasAccepted' /\ BuriesExhausted'
      BY <2>6 DEF WorkerInv, SuccessWasAccepted, BuriesExhausted
    <2> QED BY <2>3, <2>7, <2>8, <2>9, SafetyFrame DEF WorkerInv
  <1>11. ASSUME NEW w \in Workers, InvalidTarget(w) \/ Crash(w)
         PROVE  WorkerInv' /\ Safety'
    <2>1. /\ worker' = [worker EXCEPT ![w] = Idle]
          /\ UNCHANGED <<tables, accepted>>
      BY <1>11 DEF InvalidTarget, Crash
    <2>2. Idle.pc = "idle"
      BY DEF Idle
    <2>3. WorkerInv'
      BY <2>1, <2>2, IdleType, WorkerFrame DEF tables
    <2> QED BY <2>1, <2>3, SafetyFrame
  <1>12. ASSUME NEW w \in Workers, NEW taken \in BOOLEAN, NEW success \in BOOLEAN,
                Answer(w, taken, success)
         PROVE  WorkerInv' /\ Safety'
    <2> DEFINE e == worker[w].event
               s == worker[w].target
    <2>1. e \in Events /\ s \in Subscriptions
      BY <1>12, <1>t DEF Answer, HoldsEvent, HoldsTarget
    <2>2. worker' = [worker EXCEPT ![w].pc = "answered", ![w].success = success]
      BY <1>12 DEF Answer
    <2>3. UNCHANGED tables
      BY <1>12 DEF Answer
    <2>4. /\ accepted \subseteq accepted'
          /\ accepted' \subseteq accepted \cup {<<e, s>>}
          /\ success => <<e, s>> \in accepted'
      BY <1>12 DEF Answer
    <2>5. Channel[s] = Channel[e]
      BY <1>12 DEF Answer, WorkerInv, ServesItsChannel
    <2>6. WorkerInv'
      <3>a. /\ worker'[w].event = worker[w].event
            /\ worker'[w].target = worker[w].target
            /\ worker'[w].todo = worker[w].todo
            /\ worker'[w].seenAttempts = worker[w].seenAttempts
            /\ \A x \in Workers \ {w} : worker'[x] = worker[x]
        BY <1>t, <2>2 DEF TypeOK, WorkerState
      <3>b. worker[w].pc = "posting"
        BY <1>12 DEF Answer
      <3>0. ServesItsChannel'
        <4>1. \A x \in Workers \ {w} :
                 /\ worker'[x].pc \in {"deliver", "posting", "answered"}
                      => \A z \in worker'[x].todo : Channel[z] = Channel[worker'[x].event]
                 /\ worker'[x].pc \in {"posting", "answered"}
                      => Channel[worker'[x].target] = Channel[worker'[x].event]
          BY <3>a DEF WorkerInv, ServesItsChannel
        <4>2. /\ \A z \in worker'[w].todo : Channel[z] = Channel[worker'[w].event]
              /\ Channel[worker'[w].target] = Channel[worker'[w].event]
          BY <3>a, <3>b DEF WorkerInv, ServesItsChannel
        <4> QED BY <4>1, <4>2 DEF ServesItsChannel
      <3>1. SeenIsPast'
        <4>1. \A x \in Workers \ {w} :
                 worker'[x].pc \in {"posting", "answered"}
                    => worker'[x].seenAttempts <= rows'[worker'[x].event]
          BY <3>a, <2>3 DEF WorkerInv, SeenIsPast, tables
        <4>2. worker'[w].seenAttempts <= rows'[worker'[w].event]
          BY <3>a, <3>b, <2>3 DEF WorkerInv, SeenIsPast, tables
        <4> QED BY <4>1, <4>2 DEF SeenIsPast
      <3>2. SuccessWasAccepted'
        <4>1. \A x \in Workers \ {w} :
                 worker'[x].pc = "answered" /\ worker'[x].success
                    => <<worker'[x].event, worker'[x].target>> \in accepted'
          BY <3>a, <2>4 DEF WorkerInv, SuccessWasAccepted
        <4>2. worker'[w].success = success
          BY <1>t, <2>2 DEF TypeOK, WorkerState
        <4> QED BY <4>1, <4>2, <3>a, <2>4 DEF SuccessWasAccepted
      <3>3. BuriesExhausted'
        BY <1>t, <2>2, <2>3 DEF TypeOK, WorkerState, WorkerInv, BuriesExhausted, tables
      <3> QED BY <3>0, <3>1, <3>2, <3>3 DEF WorkerInv
    <2>7. Safety'
      <3>1. DeliveriesStayInChannel'
        BY <2>4, <2>5 DEF Safety, DeliveriesStayInChannel
      <3>2. DeliveredWasAccepted'
        BY <2>3, <2>4 DEF Safety, DeliveredWasAccepted, tables
      <3>3. FailedHasFailure' /\ AttemptsAreDeliveries' /\ DeadLetteredIsExhausted'
        BY <2>3 DEF Safety, FailedHasFailure, AttemptsAreDeliveries,
                    DeadLetteredIsExhausted, tables
      <3> QED BY <3>1, <3>2, <3>3 DEF Safety
    <2> QED BY <2>6, <2>7
  <1>13. ASSUME NEW w \in Workers, Settle(w)
         PROVE  WorkerInv' /\ Safety'
    <2> DEFINE e == worker[w].event
               s == worker[w].target
    <2>1. e \in Events /\ s \in Subscriptions
      BY <1>13, <1>t DEF Settle, HoldsEvent, HoldsTarget
    <2>2. rows' = [rows EXCEPT ![e] = @ + 1]
      BY <1>13 DEF Settle, Recorded
    <2>3. \A x \in Events : rows[x] \in Nat /\ rows'[x] \in Nat /\ rows[x] <= rows'[x]
      BY <1>t, <2>1, <2>2 DEF TypeOK
    <2>4. /\ worker' = [worker EXCEPT ![w] = AfterDelivery(w)]
          /\ accepted' = accepted
      BY <1>13 DEF Settle
    <2>5. \/ AfterDelivery(w).pc \in {"idle", "next"}
          \/ /\ AfterDelivery(w).pc = "deliver"
             /\ AfterDelivery(w).todo = worker[w].todo
             /\ AfterDelivery(w).event = e
      BY <1>t DEF AfterDelivery, Continue, Idle, TypeOK, WorkerState
    <2>6. WorkerInv'
      <3>0. /\ worker[w].pc = "answered"
            /\ AfterDelivery(w) \in WorkerState
        BY <1>13, <1>t, AfterDeliveryType DEF Settle
      <3>1. SeenIsPast'
        <4> SUFFICES ASSUME NEW x \in Workers, worker'[x].pc \in {"posting", "answered"}
                     PROVE  worker'[x].seenAttempts <= rows'[worker'[x].event]
          BY DEF SeenIsPast
        <4>1. x # w
          BY <1>t, <2>4, <2>5 DEF TypeOK
        <4>2. worker'[x] = worker[x]
          BY <1>t, <2>4, <4>1 DEF TypeOK
        <4>3. worker[x].event \in Events /\ worker[x].seenAttempts \in Nat
          BY <1>t, <4>2 DEF TypeOK, WorkerState, HoldsEvent
        <4>4. worker[x].seenAttempts <= rows[worker[x].event]
          BY <4>2 DEF WorkerInv, SeenIsPast
        <4> QED BY <2>3, <4>2, <4>3, <4>4
      <3>2. ServesItsChannel' /\ SuccessWasAccepted'
        BY <1>t, <2>4, <2>5, <3>0 DEF TypeOK, WorkerInv, ServesItsChannel, SuccessWasAccepted
      <3>3. BuriesExhausted'
        <4> SUFFICES ASSUME NEW x \in Workers, worker'[x].pc = "bury",
                            NEW y \in worker'[x].batch
                     PROVE  rows'[y] >= RetryMax
          BY DEF BuriesExhausted
        <4>1. worker'[x] = worker[x]
          BY <1>t, <2>4, <2>5 DEF TypeOK
        <4>2. y \in Events /\ rows[y] >= RetryMax
          BY <1>t, <4>1 DEF TypeOK, WorkerState, WorkerInv, BuriesExhausted
        <4> QED BY <2>3, <4>2, RetryMaxAssumption
      <3> QED BY <3>1, <3>2, <3>3 DEF WorkerInv
    <2>7. /\ attempts' = [attempts EXCEPT ![e] = worker[w].seenAttempts + 1]
          /\ worker[w].seenAttempts <= rows[e]
          /\ worker[w].seenAttempts \in Nat
      BY <1>13, <1>t DEF Settle, Counted, WorkerInv, SeenIsPast, TypeOK, WorkerState
    <2>8. /\ status' = [status EXCEPT ![e] = Flushed(worker[w].seenStatus,
                                                    Outcome(worker[w].success), @)]
          /\ okRows' = IF worker[w].success
                        THEN [okRows EXCEPT ![e] = @ \cup {s}] ELSE okRows
          /\ badRows' = IF worker[w].success
                         THEN badRows ELSE [badRows EXCEPT ![e] = @ \cup {s}]
      BY <1>13 DEF Settle
    <2>9. worker[w].success => <<e, s>> \in accepted
      BY <1>13 DEF Settle, WorkerInv, SuccessWasAccepted
    <2>10. DeliveredWasAccepted'
      BY <1>t, <2>1, <2>4, <2>8, <2>9
         DEF TypeOK, Safety, DeliveredWasAccepted, Flushed, Outcome
    <2>11. FailedHasFailure'
      BY <1>t, <2>1, <2>8 DEF TypeOK, Safety, FailedHasFailure, Flushed, Outcome
    <2>12. AttemptsAreDeliveries'
      BY <1>t, <2>1, <2>2, <2>7 DEF TypeOK, Safety, AttemptsAreDeliveries
    <2>13. DeadLetteredIsExhausted'
      BY <1>t, <2>1, <2>3, <2>8, RetryMaxAssumption
         DEF TypeOK, Safety, DeadLetteredIsExhausted, Flushed, Outcome
    <2>14. DeliveriesStayInChannel'
      BY <2>4 DEF Safety, DeliveriesStayInChannel
    <2> QED BY <2>6, <2>10, <2>11, <2>12, <2>13, <2>14 DEF Safety
  <1>14. CASE UNCHANGED vars
    <2>1. UNCHANGED <<tables, accepted, worker>>
      BY <1>14 DEF vars, tables
    <2>2. WorkerInv'
      BY <2>1 DEF WorkerInv, SeenIsPast, ServesItsChannel, SuccessWasAccepted,
                  BuriesExhausted, tables
    <2> QED BY <2>1, <2>2, SafetyFrame
  <1> QED
    BY <1>1, <1>2, <1>3, <1>4, <1>5, <1>6, <1>7, <1>8, <1>9, <1>10, <1>11, <1>12,
       <1>13, <1>14, <1>15
    DEF Next, Proceed

\* "delivered" is never invented: any number of stale sessions, crashes and
\* replays leaves every delivered event with a target that accepted it.
THEOREM DeliveredTheorem == Spec => []DeliveredWasAccepted
  <1>1. IInv => DeliveredWasAccepted
    BY DEF IInv, Safety
  <1> QED BY <1>1, SafetyInit, SafetyStep, PTL DEF Spec

\* Dead-lettering happens only after WEBHOOK_RETRY_MAX delivery rows.
THEOREM DeadLetterTheorem == Spec => []DeadLetteredIsExhausted
  <1>1. IInv => DeadLetteredIsExhausted
    BY DEF IInv, Safety
  <1> QED BY <1>1, SafetyInit, SafetyStep, PTL DEF Spec

\* An event has the status 'failed' only if a delivery of it failed: what stale
\* sessions write to delivery_status never makes up a failure.
THEOREM FailedTheorem == Spec => []FailedHasFailure
  <1>1. IInv => FailedHasFailure
    BY DEF IInv, Safety
  <1> QED BY <1>1, SafetyInit, SafetyStep, PTL DEF Spec

\* The attempts counter of an event never overstates the deliveries made for it.
THEOREM RetryLoopTheorem == Spec => []AttemptsAreDeliveries
  <1>1. IInv => AttemptsAreDeliveries
    BY DEF IInv, Safety
  <1> QED BY <1>1, SafetyInit, SafetyStep, PTL DEF Spec

\* Tenant isolation of deliveries, for every assignment of channels.
THEOREM IsolationTheorem == Spec => []DeliveriesStayInChannel
  <1>1. IInv => DeliveriesStayInChannel
    BY DEF IInv, Safety
  <1> QED BY <1>1, SafetyInit, SafetyStep, PTL DEF Spec

-----------------------------------------------------------------------------
(* An attempt is lost only to another session that delivers the same event.*)

\* While no two sessions have had e in flight at once, the counter is the number
\* of delivery rows, one session at most has e in flight, and that session has
\* read the counter as it still is.
Undisturbed ==
    \A e \in Events \ shared :
        /\ attempts[e] = rows[e]
        /\ \A w \in Workers : InFlight(w, e) => worker[w].seenAttempts = attempts[e]
        /\ \A w, x \in Workers : InFlight(w, e) /\ InFlight(x, e) => w = x

\* A step that puts nothing in flight, and counts nothing.
LEMMA UndisturbedFrame ==
  ASSUME TypeOK, Undisturbed, NEW w \in Workers, NEW r,
         worker' = [worker EXCEPT ![w] = r],
         \/ r.pc \notin {"posting", "answered"}
         \/ /\ r.event = worker[w].event /\ worker[w].pc \in {"posting", "answered"}
            /\ r.seenAttempts = worker[w].seenAttempts,
         UNCHANGED <<attempts, rows, shared>>
  PROVE  Undisturbed'
  BY DEF TypeOK, Undisturbed, InFlight

LEMMA UndisturbedStep == Typed /\ Undisturbed /\ [Next]_vars => Undisturbed'
  <1> SUFFICES ASSUME Typed, Undisturbed, [Next]_vars PROVE Undisturbed'
    OBVIOUS
  <1>t. TypeOK /\ HoldsEvent
    BY DEF Typed
  <1>i. Idle.pc = "idle"
    BY DEF Idle
  <1>1. ASSUME NEW s \in Subscriptions, register_webhook(s) \/ delete_webhook(s)
        PROVE  Undisturbed'
    BY <1>1 DEF register_webhook, delete_webhook, tables, Undisturbed, InFlight
  <1>2. ASSUME NEW w \in Workers, NEW e \in Events, receive_webhook(w, e)
        PROVE  Undisturbed'
    <2>1. [Idle EXCEPT !.pc = "stored", !.event = e].pc = "stored"
      BY DEF Idle
    <2> QED BY <1>2, <1>t, <2>1, UndisturbedFrame DEF receive_webhook
  <1>3. ASSUME NEW w \in Workers, NEW e, NEW b, NEW l,
               worker' = [worker EXCEPT ![w] = Dispatching(e, b, l)],
               UNCHANGED <<attempts, rows, shared>>
        PROVE  Undisturbed'
    <2>1. Dispatching(e, b, l).pc = "match"
      BY DEF Dispatching, Idle
    <2> QED BY <1>3, <1>t, <2>1, UndisturbedFrame
  <1>4. ASSUME NEW w \in Workers, NEW e \in Events, redispatch_event(w, e)
        PROVE  Undisturbed'
    BY <1>3, <1>4 DEF redispatch_event, tables
  <1>5. ASSUME NEW w \in Workers, RefreshStored(w) \/ RetryNext(w)
        PROVE  Undisturbed'
    BY <1>3, <1>5 DEF RefreshStored, RetryNext, tables
  <1>6. ASSUME NEW w \in Workers, retry_failed(w) \/ dead_letter_overflow(w)
        PROVE  Undisturbed'
    <2>1. PICK b \in SUBSET Events, p \in {"next", "bury"} :
             worker' = [worker EXCEPT ![w] = [Idle EXCEPT !.pc = p, !.batch = b]]
      BY <1>6 DEF retry_failed, dead_letter_overflow, Selections, Due, Exhausted
    <2>2. [Idle EXCEPT !.pc = p, !.batch = b].pc = p
      BY DEF Idle
    <2>3. UNCHANGED <<attempts, rows, shared>>
      BY <1>6 DEF retry_failed, dead_letter_overflow, tables
    <2> QED BY <1>t, <2>1, <2>2, <2>3, UndisturbedFrame
  <1>7. ASSUME NEW w \in Workers, Bury(w) \/ InvalidTarget(w) \/ Crash(w)
        PROVE  Undisturbed'
    <2>1. worker' = [worker EXCEPT ![w] = Idle] /\ UNCHANGED <<attempts, rows, shared>>
      BY <1>7 DEF Bury, InvalidTarget, Crash, tables
    <2> QED BY <1>t, <1>i, <2>1, UndisturbedFrame
  <1>8. ASSUME NEW w \in Workers, dispatch_event(w)
        PROVE  Undisturbed'
    <2> DEFINE found == Matching(worker[w].event)
    <2>1. /\ worker' = [worker EXCEPT ![w].todo = found,
                        ![w].pc = IF found = {} THEN "unmatched" ELSE "deliver"]
          /\ UNCHANGED <<attempts, rows, shared>>
      BY <1>8 DEF dispatch_event, tables
    <2> HIDE DEF found
    <2>2. PICK p \in {"unmatched", "deliver"} :
             worker' = [worker EXCEPT ![w] = [@ EXCEPT !.todo = found, !.pc = p]]
      BY <2>1
    <2>3. [worker[w] EXCEPT !.todo = found, !.pc = p].pc = p
      BY <1>t DEF TypeOK, WorkerState
    <2> QED BY <1>t, <2>1, <2>2, <2>3, UndisturbedFrame
  <1>9. ASSUME NEW w \in Workers, NoSubscribers(w)
        PROVE  Undisturbed'
    <2>1. Continue(w).pc \in {"idle", "next"}
      BY DEF Continue, Idle
    <2> QED BY <1>9, <1>t, <2>1, UndisturbedFrame DEF NoSubscribers
  <1>10. ASSUME NEW w \in Workers, deliver_to_subscription(w)
         PROVE  Undisturbed'
    <2> DEFINE e == worker[w].event
    <2>1. /\ worker[w].pc = "deliver" /\ e \in Events
          /\ UNCHANGED <<attempts, rows>>
          /\ shared \subseteq shared'
          /\ (\E x \in Workers \ {w} : InFlight(x, e)) => e \in shared'
      BY <1>10, <1>t DEF deliver_to_subscription, HoldsEvent, tables
    <2>2. /\ \A x \in Workers \ {w} : worker'[x] = worker[x]
          /\ worker'[w].event = e /\ worker'[w].seenAttempts = attempts[e]
      BY <1>10, <1>t DEF deliver_to_subscription, TypeOK, WorkerState
    <2> SUFFICES ASSUME NEW y \in Events \ shared'
                 PROVE  /\ attempts'[y] = rows'[y]
                        /\ \A v \in Workers : InFlight(v, y)'
                              => worker'[v].seenAttempts = attempts'[y]
                        /\ \A v, x \in Workers : InFlight(v, y)' /\ InFlight(x, y)'
                              => v = x
      BY DEF Undisturbed
    <2>3. y \in Events \ shared
      BY <2>1
    <2>4. \A x \in Workers \ {w} : InFlight(x, y)' => InFlight(x, y)
      BY <2>2 DEF InFlight
    <2>5. InFlight(w, y)' => y = e
      BY <2>2 DEF InFlight
    <2> HIDE DEF e
    <2>6. attempts'[y] = rows'[y]
      BY <2>1, <2>3 DEF Undisturbed
    <2>7. \A v \in Workers : InFlight(v, y)' => worker'[v].seenAttempts = attempts'[y]
      BY <2>1, <2>2, <2>3, <2>4, <2>5 DEF Undisturbed
    <2>8. \A v, x \in Workers : InFlight(v, y)' /\ InFlight(x, y)' => v = x
      BY <2>1, <2>3, <2>4, <2>5 DEF Undisturbed
    <2> QED BY <2>6, <2>7, <2>8
  <1>11. ASSUME NEW w \in Workers, NEW taken \in BOOLEAN, NEW success \in BOOLEAN,
                Answer(w, taken, success)
         PROVE  Undisturbed'
    <2> DEFINE r == [worker[w] EXCEPT !.pc = "answered", !.success = success]
    <2>1. /\ worker' = [worker EXCEPT ![w] = r]
          /\ worker[w].pc = "posting"
          /\ UNCHANGED <<attempts, rows, shared>>
      BY <1>11 DEF Answer, tables
    <2>2. r.event = worker[w].event /\ r.seenAttempts = worker[w].seenAttempts
      BY <1>t DEF TypeOK, WorkerState
    <2> HIDE DEF r
    <2> QED BY <1>t, <2>1, <2>2, UndisturbedFrame
  <1>12. ASSUME NEW w \in Workers, Settle(w)
         PROVE  Undisturbed'
    <2> DEFINE e == worker[w].event
    <2>1. e \in Events /\ worker[w].pc = "answered" /\ worker[w].seenAttempts \in Nat
      BY <1>12, <1>t DEF Settle, HoldsEvent, TypeOK, WorkerState
    <2>2. /\ attempts' = [attempts EXCEPT ![e] = worker[w].seenAttempts + 1]
          /\ rows' = [rows EXCEPT ![e] = @ + 1]
          /\ worker' = [worker EXCEPT ![w] = AfterDelivery(w)]
          /\ shared' = shared
      BY <1>12 DEF Settle, Counted, Recorded
    <2>3. AfterDelivery(w).pc \in {"idle", "next", "deliver"}
      BY <1>t DEF AfterDelivery, Continue, Idle, TypeOK, WorkerState
    <2>4. \A x \in Workers, y \in Events : InFlight(x, y)' => x # w /\ InFlight(x, y)
      BY <1>t, <2>2, <2>3 DEF InFlight, TypeOK
    <2>5. \A x \in Workers \ {w} : worker'[x] = worker[x]
      BY <1>t, <2>2 DEF TypeOK
    <2>6. InFlight(w, e)
      BY <2>1 DEF InFlight
    <2> SUFFICES ASSUME NEW y \in Events \ shared
                 PROVE  /\ attempts'[y] = rows'[y]
                        /\ \A v \in Workers : InFlight(v, y)'
                              => worker'[v].seenAttempts = attempts'[y]
                        /\ \A v, x \in Workers : InFlight(v, y)' /\ InFlight(x, y)'
                              => v = x
      BY <2>2 DEF Undisturbed
    <2> HIDE DEF e
    <2>7. \A v, x \in Workers : InFlight(v, y)' /\ InFlight(x, y)' => v = x
      BY <2>4 DEF Undisturbed
    <2>8. CASE y = e
      <3>1. worker[w].seenAttempts = attempts[y] /\ attempts[y] = rows[y]
        BY <2>6, <2>8 DEF Undisturbed
      <3>2. attempts'[y] = rows'[y]
        BY <1>t, <2>2, <2>8, <3>1 DEF TypeOK
      <3>3. \A v \in Workers : InFlight(v, y) => v = w
        BY <2>6, <2>8 DEF Undisturbed
      <3>4. \A v \in Workers : ~ InFlight(v, y)'
        BY <2>4, <3>3
      <3> QED BY <2>7, <3>2, <3>4
    <2>9. CASE y # e
      <3>1. attempts'[y] = attempts[y] /\ rows'[y] = rows[y]
        BY <1>t, <2>2, <2>9 DEF TypeOK
      <3> QED BY <2>4, <2>5, <2>7, <3>1 DEF Undisturbed
    <2> QED BY <2>8, <2>9
  <1>13. CASE UNCHANGED vars
    BY <1>13 DEF vars, Undisturbed, InFlight
  <1> QED
    BY <1>1, <1>2, <1>4, <1>5, <1>6, <1>7, <1>8, <1>9, <1>10, <1>11, <1>12, <1>13
    DEF Next, Proceed

\* A delivery goes uncounted only where two sessions delivered the event at
\* once: every other event's counter is the number of its deliveries.
THEOREM AloneTheorem == Spec => []AloneIsCounted
  <1>1. Init => Undisturbed
    BY DEF Init, Undisturbed, InFlight, Idle
  <1>2. Undisturbed => AloneIsCounted
    BY DEF Undisturbed, AloneIsCounted
  <1> QED BY <1>1, <1>2, TypedInit, TypedStep, UndisturbedStep, PTL DEF Spec

-----------------------------------------------------------------------------
(* The tables implement the ledger of DeliveryLedger.                      *)

\* A session works only on events that have a row, and no row is ever removed.
WorksOnStored ==
    \A e \in Events :
        status[e] = "absent" => \A w \in Workers : /\ worker[w].event # e
                                                   /\ e \notin worker[w].batch

LInv == IInv /\ WorksOnStored

\* No row is removed, and what a worker turns to has a row.
LEMMA StoredFrame ==
  ASSUME TypeOK, WorksOnStored, NEW w \in Workers, NEW r,
         worker' = [worker EXCEPT ![w] = r],
         \A e \in Events : status'[e] = "absent"
                              => /\ status[e] = "absent"
                                 /\ r.event # e /\ e \notin r.batch
  PROVE  WorksOnStored'
  BY DEF TypeOK, WorksOnStored

\* Going on to what is left of a batch turns to no event that had no row.
LEMMA StoredContinue ==
  ASSUME TypeOK, WorksOnStored, NEW w \in Workers, NEW e \in Events,
         status[e] = "absent"
  PROVE  /\ Continue(w).event # e /\ e \notin Continue(w).batch
         /\ AfterDelivery(w).event # e /\ e \notin AfterDelivery(w).batch
  <1>1. worker[w].event # e /\ e \notin worker[w].batch
    BY DEF WorksOnStored
  <1>2. Continue(w).event # e /\ e \notin Continue(w).batch
    BY <1>1, NoneAssumption DEF Continue, Idle
  <1>3. LET r == [worker[w] EXCEPT !.pc = "deliver", !.target = None]
        IN  r.event # e /\ e \notin r.batch
    BY <1>1 DEF TypeOK, WorkerState
  <1> QED BY <1>2, <1>3 DEF AfterDelivery

LEMMA StoredInit == Init => LInv
  BY SafetyInit, NoneAssumption DEF Init, LInv, WorksOnStored, Idle

\* Each step is a step of the ledger, or leaves it alone.
LEMMA LedgerStep ==
  LInv /\ [Next]_vars
    => LInv' /\ [Ledger!Next]_<<status, Ledger!ledger, accepted>>
  <1> SUFFICES ASSUME LInv, [Next]_vars
               PROVE  WorksOnStored' /\ [Ledger!Next]_<<status, Ledger!ledger, accepted>>
    BY SafetyStep DEF LInv
  <1> USE DEF Ledger!Stored, Ledger!ledger
  <1>t. TypeOK /\ HoldsEvent /\ HoldsTarget /\ WorkerInv /\ WorksOnStored
    BY DEF LInv, IInv, Typed
  <1>u. Idle.event = None /\ Idle.batch = {} /\ \A e \in Events : None # e
    BY NoneAssumption DEF Idle
  <1>1. ASSUME NEW s \in Subscriptions, register_webhook(s) \/ delete_webhook(s)
        PROVE  WorksOnStored' /\ UNCHANGED <<status, Ledger!ledger, accepted>>
    BY <1>1, <1>t DEF register_webhook, delete_webhook, tables, WorksOnStored
  <1>2. ASSUME NEW w \in Workers, NEW e \in Events, receive_webhook(w, e)
        PROVE  WorksOnStored' /\ Ledger!Store(e)
    <2>1. /\ [Idle EXCEPT !.pc = "stored", !.event = e].event = e
          /\ [Idle EXCEPT !.pc = "stored", !.event = e].batch = {}
      BY DEF Idle
    <2>2. \A x \in Events : status'[x] = "absent" => status[x] = "absent" /\ e # x
      BY <1>2, <1>t DEF receive_webhook, TypeOK
    <2>3. WorksOnStored'
      BY <1>2, <1>t, <2>1, <2>2, StoredFrame DEF receive_webhook
    <2>4. Ledger!Store(e)
      BY <1>2 DEF receive_webhook, Ledger!Store
    <2> QED BY <2>3, <2>4
  <1>13. ASSUME NEW w \in Workers, RefreshStored(w)
         PROVE  WorksOnStored' /\ UNCHANGED <<status, Ledger!ledger, accepted>>
    <2> DEFINE r == Dispatching(worker[w].event, {}, status[worker[w].event])
    <2>1. r.event = worker[w].event /\ r.batch = {}
      BY DEF Dispatching, Idle
    <2>2. worker' = [worker EXCEPT ![w] = r] /\ UNCHANGED <<tables, accepted>>
      BY <1>13 DEF RefreshStored
    <2> HIDE DEF r
    <2>3. \A e \in Events : status[e] = "absent" => r.event # e /\ e \notin r.batch
      BY <1>t, <2>1 DEF WorksOnStored
    <2>4. WorksOnStored'
      BY <1>t, <2>2, <2>3, StoredFrame DEF tables
    <2> QED BY <2>2, <2>4 DEF tables
  <1>3. ASSUME NEW w \in Workers, NEW e \in Events, redispatch_event(w, e)
        PROVE  WorksOnStored' /\ UNCHANGED <<status, Ledger!ledger, accepted>>
    <2>1. /\ Dispatching(e, {}, status[e]).event = e
          /\ Dispatching(e, {}, status[e]).batch = {}
      BY DEF Dispatching, Idle
    <2>2. WorksOnStored'
      BY <1>3, <1>t, <2>1, StoredFrame DEF redispatch_event, tables
    <2> QED BY <1>3, <2>2 DEF redispatch_event, tables
  <1>4. ASSUME NEW w \in Workers, retry_failed(w) \/ dead_letter_overflow(w)
        PROVE  WorksOnStored' /\ UNCHANGED <<status, Ledger!ledger, accepted>>
    <2>1. PICK b \in SUBSET {e \in Events : status[e] = "failed"}, p \in {"next", "bury"} :
             worker' = [worker EXCEPT ![w] = [Idle EXCEPT !.pc = p, !.batch = b]]
      BY <1>4 DEF retry_failed, dead_letter_overflow, Selections, Due, Exhausted
    <2>2. /\ [Idle EXCEPT !.pc = p, !.batch = b].event = None
          /\ [Idle EXCEPT !.pc = p, !.batch = b].batch = b
      BY DEF Idle
    <2>3. UNCHANGED <<tables, accepted>>
      BY <1>4 DEF retry_failed, dead_letter_overflow
    <2>4. WorksOnStored'
      BY <1>t, <1>u, <2>1, <2>2, <2>3, StoredFrame DEF tables
    <2> QED BY <2>3, <2>4 DEF tables
  <1>5. ASSUME NEW w \in Workers, RetryNext(w)
        PROVE  WorksOnStored' /\ UNCHANGED <<status, Ledger!ledger, accepted>>
    <2>1. PICK e \in worker[w].batch :
             worker' = [worker EXCEPT ![w] = Dispatching(e, worker[w].batch \ {e}, "failed")]
      BY <1>5 DEF RetryNext
    <2>2. /\ Dispatching(e, worker[w].batch \ {e}, "failed").event = e
          /\ Dispatching(e, worker[w].batch \ {e}, "failed").batch = worker[w].batch \ {e}
      BY DEF Dispatching, Idle
    <2>3. UNCHANGED <<tables, accepted>>
      BY <1>5 DEF RetryNext
    <2>4. \A x \in Events : status[x] = "absent" => e # x /\ x \notin worker[w].batch \ {e}
      BY <1>t DEF WorksOnStored
    <2>5. WorksOnStored'
      <3> DEFINE r == Dispatching(e, worker[w].batch \ {e}, "failed")
      <3>1. /\ worker' = [worker EXCEPT ![w] = r]
            /\ \A x \in Events : status'[x] = "absent"
                                    => /\ status[x] = "absent"
                                       /\ r.event # x /\ x \notin r.batch
        BY <2>1, <2>2, <2>3, <2>4 DEF tables
      <3> HIDE DEF r
      <3> QED BY <1>t, <3>1, StoredFrame
    <2> QED BY <2>3, <2>5 DEF tables
  <1>6. ASSUME NEW w \in Workers, Bury(w)
        PROVE  WorksOnStored' /\ Ledger!GiveUp(worker[w].batch)
                 /\ worker[w].batch \in SUBSET Events
    <2>1. worker[w].batch \in SUBSET Events
      BY <1>t DEF TypeOK, WorkerState
    <2>2. \A e \in worker[w].batch : status[e] # "absent" /\ rows[e] >= RetryMax
      BY <1>6, <1>t, <2>1 DEF Bury, WorkerInv, BuriesExhausted, WorksOnStored
    <2>3. \A x \in Events : status'[x] = "absent" => status[x] = "absent"
      BY <1>6 DEF Bury
    <2>4. WorksOnStored'
      BY <1>6, <1>t, <1>u, <2>3, StoredFrame DEF Bury
    <2>5. Ledger!GiveUp(worker[w].batch)
      BY <1>6, <2>2 DEF Bury, Ledger!GiveUp
    <2> QED BY <2>1, <2>4, <2>5
  <1>7. ASSUME NEW w \in Workers, dispatch_event(w) \/ deliver_to_subscription(w)
        PROVE  WorksOnStored' /\ UNCHANGED <<status, Ledger!ledger, accepted>>
    <2>1. UNCHANGED <<tables, accepted>>
      BY <1>7 DEF dispatch_event, deliver_to_subscription
    <2>2. PICK r \in WorkerState :
             /\ worker' = [worker EXCEPT ![w] = r]
             /\ r.event = worker[w].event /\ r.batch = worker[w].batch
      <3>1. worker[w] \in WorkerState /\ worker'[w] \in WorkerState
        BY <1>t, <1>7, TypedStep DEF LInv, IInv, Typed, TypeOK
      <3>2. worker' = [worker EXCEPT ![w] = worker'[w]]
        BY <1>7, <1>t DEF dispatch_event, deliver_to_subscription, TypeOK
      <3>3. /\ worker'[w].event = worker[w].event
            /\ worker'[w].batch = worker[w].batch
        <4>1. CASE dispatch_event(w)
          <5> DEFINE found == Matching(worker[w].event)
                     p == IF found = {} THEN "unmatched" ELSE "deliver"
          <5>1. worker' = [worker EXCEPT ![w].todo = found, ![w].pc = p]
            BY <4>1 DEF dispatch_event
          <5> HIDE DEF found, p
          <5> QED BY <5>1, <1>t DEF TypeOK, WorkerState
        <4>2. CASE deliver_to_subscription(w)
          BY <4>2, <1>t DEF deliver_to_subscription, TypeOK, WorkerState
        <4> QED BY <1>7, <4>1, <4>2
      <3> QED BY <3>1, <3>2, <3>3
    <2>3. WorksOnStored'
      <3>1. \A e \in Events : status[e] = "absent" => r.event # e /\ e \notin r.batch
        BY <1>t, <2>2 DEF WorksOnStored
      <3> QED BY <1>t, <2>1, <2>2, <3>1, StoredFrame DEF tables
    <2> QED BY <2>1, <2>3 DEF tables
  <1>8. ASSUME NEW w \in Workers, NoSubscribers(w)
        PROVE  WorksOnStored' /\ [Ledger!Next]_<<status, Ledger!ledger, accepted>>
    <2> DEFINE e == worker[w].event
    <2>1. e \in Events /\ status[e] # "absent"
      BY <1>8, <1>t DEF NoSubscribers, HoldsEvent, WorksOnStored
    <2>2. status' = status \/ status' = [status EXCEPT ![e] = "no_subscribers"]
      BY <1>8, <1>t DEF NoSubscribers, Flushed, TypeOK
    <2>3. UNCHANGED <<rows, okRows, badRows, accepted>>
          /\ worker' = [worker EXCEPT ![w] = Continue(w)]
      BY <1>8 DEF NoSubscribers
    <2>4. \A x \in Events : status'[x] = "absent" => status[x] = "absent"
      BY <1>t, <2>1, <2>2 DEF TypeOK
    <2>5. WorksOnStored'
      BY <1>t, <2>3, <2>4, StoredContinue, StoredFrame
    <2>6. UNCHANGED <<status, Ledger!ledger, accepted>> \/ Ledger!Unsubscribed(e)
      BY <2>1, <2>2, <2>3 DEF Ledger!Unsubscribed
    <2> QED BY <2>1, <2>5, <2>6 DEF Ledger!Next
  <1>9. ASSUME NEW w \in Workers, InvalidTarget(w) \/ Crash(w)
        PROVE  WorksOnStored' /\ UNCHANGED <<status, Ledger!ledger, accepted>>
    <2>1. worker' = [worker EXCEPT ![w] = Idle] /\ UNCHANGED <<tables, accepted>>
      BY <1>9 DEF InvalidTarget, Crash
    <2>2. WorksOnStored'
      BY <1>t, <1>u, <2>1, StoredFrame DEF tables
    <2> QED BY <2>1, <2>2 DEF tables
  <1>10. ASSUME NEW w \in Workers, NEW taken \in BOOLEAN, NEW success \in BOOLEAN,
                Answer(w, taken, success)
         PROVE  WorksOnStored' /\ [Ledger!Next]_<<status, Ledger!ledger, accepted>>
    <2> DEFINE e == worker[w].event
               s == worker[w].target
               r == [worker[w] EXCEPT !.pc = "answered", !.success = success]
    <2>1. /\ e \in Events /\ s \in Subscriptions
          /\ status[e] # "absent" /\ Channel[s] = Channel[e]
      BY <1>10, <1>t DEF Answer, HoldsEvent, HoldsTarget, WorksOnStored,
                         WorkerInv, ServesItsChannel
    <2>2. /\ worker' = [worker EXCEPT ![w] = r]
          /\ r.event = worker[w].event /\ r.batch = worker[w].batch
      BY <1>10, <1>t DEF Answer, TypeOK, WorkerState
    <2>3. UNCHANGED tables
          /\ (accepted' = accepted \/ accepted' = accepted \cup {<<e, s>>})
      BY <1>10 DEF Answer
    <2>4. WorksOnStored'
      <3> HIDE DEF r
      <3>1. \A x \in Events : status[x] = "absent" => r.event # x /\ x \notin r.batch
        BY <1>t, <2>2 DEF WorksOnStored
      <3> QED BY <1>t, <2>2, <2>3, <3>1, StoredFrame DEF tables
    <2>5. UNCHANGED <<status, Ledger!ledger, accepted>> \/ Ledger!Accept(e, s)
      BY <2>1, <2>3 DEF tables, Ledger!Accept
    <2> QED BY <2>1, <2>4, <2>5 DEF Ledger!Next
  <1>11. ASSUME NEW w \in Workers, Settle(w)
         PROVE  WorksOnStored' /\ Ledger!Next
    <2> DEFINE e == worker[w].event
               s == worker[w].target
    <2>1. /\ e \in Events /\ s \in Subscriptions
          /\ status[e] # "absent" /\ Channel[s] = Channel[e]
          /\ worker[w].success => <<e, s>> \in accepted
      BY <1>11, <1>t DEF Settle, HoldsEvent, HoldsTarget, WorksOnStored,
                         WorkerInv, ServesItsChannel, SuccessWasAccepted
    <2>2. /\ status' = [status EXCEPT ![e] = Flushed(worker[w].seenStatus,
                                                    Outcome(worker[w].success), @)]
          /\ rows' = [rows EXCEPT ![e] = @ + 1]
          /\ okRows' = IF worker[w].success
                        THEN [okRows EXCEPT ![e] = @ \cup {s}] ELSE okRows
          /\ badRows' = IF worker[w].success
                         THEN badRows ELSE [badRows EXCEPT ![e] = @ \cup {s}]
          /\ worker' = [worker EXCEPT ![w] = AfterDelivery(w)]
          /\ accepted' = accepted
      BY <1>11 DEF Settle, Recorded
    <2>3. \/ status' = status
          \/ status' = [status EXCEPT ![e] = Outcome(worker[w].success)]
      BY <1>t, <2>1, <2>2 DEF Flushed, TypeOK
    <2>4. \A x \in Events : status'[x] = "absent" => status[x] = "absent"
      BY <1>t, <2>1, <2>3 DEF TypeOK, Outcome
    <2>5. WorksOnStored'
      BY <1>t, <2>2, <2>4, StoredContinue, StoredFrame
    <2>6. CASE worker[w].success
      <3>1. Ledger!RecordSuccess(e, s)
        BY <2>1, <2>2, <2>3, <2>6 DEF Outcome, Ledger!RecordSuccess
      <3> QED BY <2>1, <2>5, <3>1 DEF Ledger!Next
    <2>7. CASE ~ worker[w].success
      <3>1. Ledger!RecordFailure(e, s)
        BY <2>1, <2>2, <2>3, <2>7 DEF Outcome, Ledger!RecordFailure
      <3> QED BY <2>1, <2>5, <3>1 DEF Ledger!Next
    <2> QED BY <2>6, <2>7
  <1>12. CASE UNCHANGED vars
    BY <1>12, <1>t DEF vars, WorksOnStored
  <1> QED
    BY <1>1, <1>2, <1>3, <1>4, <1>5, <1>6, <1>7, <1>8, <1>9, <1>10, <1>11, <1>12,
       <1>13
    DEF Next, Proceed, Ledger!Next

\* Whatever the sessions do, the tables are a ledger: every delivery that is
\* recorded was made to a subscription of the event's channel, every recorded
\* success was accepted, and no verdict is one the ledger does not bear out.
THEOREM ImplementsLedgerTheorem == Spec => ImplementsLedger
  <1>1. Init => Ledger!Init
    BY DEF Init, Ledger!Init
  <1> QED BY <1>1, StoredInit, LedgerStep, PTL DEF Spec, ImplementsLedger, Ledger!Spec
=============================================================================
