-------------------------- MODULE WebhookDelivery --------------------------
(***************************************************************************)
(* Outbound half of the webhook engine (src/services/webhook_dispatcher.py)*)
(* with the handlers and Celery tasks that drive it.                       *)
(*                                                                         *)
(* A worker is an API request or a Celery task with a database session of  *)
(* its own.  Workers interleave at every await: a SELECT, the HTTP POST to *)
(* the subscriber and the COMMIT are separate steps, so what a worker has  *)
(* read may be stale when it commits.  A session flushes only the columns  *)
(* whose value differs from the one it loaded ("seen" below).              *)
(***************************************************************************)
EXTENDS Naturals, FiniteSets

CONSTANTS
    Events,         \* webhook_events rows that may come to exist
    Subscriptions,  \* webhook_subscriptions rows that may come to exist
    Workers,        \* concurrent sessions
    Channel,        \* the <<workspace_id, provider>> of each event and subscription
    Unroutable,     \* subscriptions whose target validate_target_url always refuses
    RetryMax,       \* settings.webhook_retry_max
    RetryLimit,     \* limit of retry_failed
    DeadLimit,      \* limit of dead_letter_overflow
    MaxReplays,     \* bound: manual dispatches
    MaxFaults,      \* bound: crashes and failed name lookups
    None            \* no event, no subscription

ASSUME RetryMaxAssumption == RetryMax \in Nat \ {0}
ASSUME LimitAssumption == RetryLimit \in Nat \ {0} /\ DeadLimit \in Nat \ {0}
ASSUME BoundAssumption == MaxReplays \in Nat /\ MaxFaults \in Nat
ASSUME NoneAssumption == None \notin Events /\ None \notin Subscriptions

VARIABLES
    status,         \* delivery_status of each event; "absent": no row yet
    attempts,       \* attempts column of each event
    rows,           \* number of webhook_deliveries rows of each event
    okRows,         \* subscriptions with a row of success TRUE
    badRows,        \* subscriptions with a row of success FALSE
    subscription,   \* is_active, or not registered yet
    accepted,       \* <<event, subscription>> the target answered below 400
    worker,         \* local state of each session
    replays,        \* manual dispatches so far (bounded by MaxReplays)
    faults,         \* faults so far (bounded by MaxFaults)
    shared          \* history: events two sessions were delivering at once

tables == <<status, attempts, rows, okRows, badRows>>
vars == <<status, attempts, rows, okRows, badRows, subscription, accepted,
          worker, replays, faults, shared>>

Statuses == {"absent", "pending", "delivered", "failed", "no_subscribers",
             "dead_lettered"}

WorkerState ==
    [pc : {"idle", "stored", "next", "match", "unmatched", "deliver",
           "posting", "answered", "bury"},
     event : Events \cup {None},            \* event being dispatched
     batch : SUBSET Events,                 \* events still to be treated
     todo : SUBSET Subscriptions,           \* subscriptions still to be served
     target : Subscriptions \cup {None},    \* subscription being served
     seenStatus : Statuses,                 \* delivery_status as loaded
     seenAttempts : Nat,                    \* attempts as loaded
     success : BOOLEAN]                     \* delivery.success

Idle == [pc |-> "idle", event |-> None, batch |-> {}, todo |-> {},
         target |-> None, seenStatus |-> "absent", seenAttempts |-> 0,
         success |-> FALSE]

TypeOK ==
    /\ status \in [Events -> Statuses]
    /\ attempts \in [Events -> Nat]
    /\ rows \in [Events -> Nat]
    /\ okRows \in [Events -> SUBSET Subscriptions]
    /\ badRows \in [Events -> SUBSET Subscriptions]
    /\ subscription \in [Subscriptions -> {"unregistered", "active", "inactive"}]
    /\ accepted \subseteq Events \X Subscriptions
    /\ worker \in [Workers -> WorkerState]
    /\ replays \in Nat
    /\ faults \in Nat
    /\ shared \subseteq Events

Init ==
    /\ status = [e \in Events |-> "absent"]
    /\ attempts = [e \in Events |-> 0]
    /\ rows = [e \in Events |-> 0]
    /\ okRows = [e \in Events |-> {}]
    /\ badRows = [e \in Events |-> {}]
    /\ subscription = [s \in Subscriptions |-> "unregistered"]
    /\ accepted = {}
    /\ worker = [w \in Workers |-> Idle]
    /\ replays = 0
    /\ faults = 0
    /\ shared = {}

-----------------------------------------------------------------------------
(* Subscription endpoints.                                                 *)

\* An earlier route answers POST /webhooks/register; rows come into being this
\* way wherever the handler is reached or the row is inserted.
register_webhook(s) ==
    /\ subscription[s] = "unregistered"
    /\ subscription' = [subscription EXCEPT ![s] = "active"]
    /\ UNCHANGED <<tables, accepted, worker, replays, faults, shared>>

delete_webhook(s) ==
    /\ subscription[s] = "active"
    /\ subscription' = [subscription EXCEPT ![s] = "inactive"]
    /\ UNCHANGED <<tables, accepted, worker, replays, faults, shared>>

-----------------------------------------------------------------------------
(* Entry points: each occupies an idle worker.                             *)

\* A worker that begins dispatch_event on e with the row it has loaded.
Dispatching(e, batch, loaded) ==
    [Idle EXCEPT !.pc = "match", !.event = e, !.batch = batch,
                 !.seenStatus = loaded]

\* receive_webhook: verify_and_store commits the row (WebhookIngest details
\* that part) and every other session can see it.
receive_webhook(w, e) ==
    /\ worker[w].pc = "idle"
    /\ status[e] = "absent"
    /\ status' = [status EXCEPT ![e] = "pending"]
    /\ worker' = [worker EXCEPT ![w] = [Idle EXCEPT !.pc = "stored", !.event = e]]
    /\ UNCHANGED <<attempts, rows, okRows, badRows, subscription, accepted,
                   replays, faults, shared>>

\* verify_and_store refreshes the row it has committed; the request goes on to
\* dispatch_event with what it reads.
RefreshStored(w) ==
    LET e == worker[w].event IN
    /\ worker[w].pc = "stored"
    /\ worker' = [worker EXCEPT ![w] = Dispatching(e, {}, status[e])]
    /\ UNCHANGED <<tables, subscription, accepted, replays, faults, shared>>

\* POST /webhooks/dispatch/{event_id} and dispatch_webhook_task: a stored event
\* is dispatched again whatever its status.
redispatch_event(w, e) ==
    /\ worker[w].pc = "idle"
    /\ status[e] # "absent"
    /\ replays < MaxReplays
    /\ replays' = replays + 1
    /\ worker' = [worker EXCEPT ![w] = Dispatching(e, {}, status[e])]
    /\ UNCHANGED <<tables, subscription, accepted, faults, shared>>

\* A SELECT ... LIMIT n without ORDER BY may return any n of the matching rows.
Selections(matching, n) ==
    {b \in SUBSET matching : /\ Cardinality(b) <= n
                             /\ b # matching => Cardinality(b) = n}

Due == {e \in Events : status[e] = "failed" /\ attempts[e] < RetryMax}

retry_failed(w) ==
    /\ worker[w].pc = "idle"
    /\ Due # {}
    /\ \E b \in Selections(Due, RetryLimit) :
          worker' = [worker EXCEPT ![w] = [Idle EXCEPT !.pc = "next", !.batch = b]]
    /\ UNCHANGED <<tables, subscription, accepted, replays, faults, shared>>

RetryNext(w) ==
    /\ worker[w].pc = "next"
    /\ \E e \in worker[w].batch :
          worker' = [worker EXCEPT
                        ![w] = Dispatching(e, worker[w].batch \ {e}, "failed")]
    /\ UNCHANGED <<tables, subscription, accepted, replays, faults, shared>>

ExhaustedOneEarly == {e \in Events : status[e] = "failed" /\ attempts[e] + 1 >= RetryMax}
Exhausted == {e \in Events : status[e] = "failed" /\ attempts[e] >= RetryMax}

\* dead_letter_overflow: SELECT, then the COMMIT of the new status in Bury.
dead_letter_overflow(w) ==
    /\ worker[w].pc = "idle"
    /\ Exhausted # {}
    /\ \E b \in Selections(Exhausted, DeadLimit) :
          worker' = [worker EXCEPT ![w] = [Idle EXCEPT !.pc = "bury", !.batch = b]]
    /\ UNCHANGED <<tables, subscription, accepted, replays, faults, shared>>

Bury(w) ==
    /\ worker[w].pc = "bury"
    /\ status' = [e \in Events |-> IF e \in worker[w].batch THEN "dead_lettered"
                                   ELSE status[e]]
    /\ worker' = [worker EXCEPT ![w] = Idle]
    /\ UNCHANGED <<attempts, rows, okRows, badRows, subscription, accepted,
                   replays, faults, shared>>

-----------------------------------------------------------------------------
(* dispatch_event and deliver_to_subscription.                             *)

MatchingAny(e) == {s \in Subscriptions : subscription[s] = "active"}
Matching(e) == {s \in Subscriptions : /\ subscription[s] = "active"
                                      /\ Channel[s] = Channel[e]}

\* After an event is done: the next one of the batch, or the end of the call.
Continue(w) == IF worker[w].batch = {} THEN Idle
               ELSE [Idle EXCEPT !.pc = "next", !.batch = worker[w].batch]

\* SELECT of the subscriptions of the event's workspace and provider.
dispatch_event(w) ==
    /\ worker[w].pc = "match"
    /\ LET found == Matching(worker[w].event) IN
       worker' = [worker EXCEPT ![w].todo = found,
                                ![w].pc = IF found = {} THEN "unmatched" ELSE "deliver"]
    /\ UNCHANGED <<tables, subscription, accepted, replays, faults, shared>>

\* A column is in the UPDATE only when it differs from what the session loaded.
Flushed(loaded, new, stored) == IF new = loaded THEN stored ELSE new

NoSubscribers(w) ==
    LET e == worker[w].event IN
    /\ worker[w].pc = "unmatched"
    /\ status' = [status EXCEPT
                     ![e] = Flushed(worker[w].seenStatus, "no_subscribers", @)]
    /\ worker' = [worker EXCEPT ![w] = Continue(w)]
    /\ UNCHANGED <<attempts, rows, okRows, badRows, subscription, accepted,
                   replays, faults, shared>>

\* Worker x has read e's row and has yet to commit what it makes of it.
InFlight(x, e) == worker[x].pc \in {"posting", "answered"} /\ worker[x].event = e

\* session.refresh(event), the target's validation and the start of the POST.
deliver_to_subscription(w) ==
    LET e == worker[w].event IN
    /\ worker[w].pc = "deliver"
    /\ \E s \in worker[w].todo \ Unroutable :
          worker' = [worker EXCEPT ![w].pc = "posting",
                                   ![w].todo = @ \ {s},
                                   ![w].target = s,
                                   ![w].seenStatus = status[e],
                                   ![w].seenAttempts = attempts[e]]
    /\ shared' = IF \E x \in Workers \ {w} : InFlight(x, e)
                 THEN shared \cup {e} ELSE shared
    /\ UNCHANGED <<tables, subscription, accepted, replays, faults>>

\* validate_target_url raises ValueError, which nothing catches: the request or
\* task ends, with the rest of its subscriptions and of its batch.
InvalidTarget(w) ==
    /\ worker[w].pc = "deliver"
    /\ \/ worker[w].todo \cap Unroutable # {} /\ UNCHANGED faults
       \/ faults < MaxFaults /\ faults' = faults + 1    \* a failed name lookup
    /\ worker' = [worker EXCEPT ![w] = Idle]
    /\ UNCHANGED <<tables, subscription, accepted, replays, shared>>

\* The POST ends: an answer below 400, one above, or an httpx.HTTPError, which
\* may hide that the target did accept the delivery.
Answer(w, taken, success) ==
    /\ worker[w].pc = "posting"
    /\ success => taken
    /\ accepted' = IF taken THEN accepted \cup {<<worker[w].event, worker[w].target>>}
                   ELSE accepted
    /\ worker' = [worker EXCEPT ![w].pc = "answered", ![w].success = success]
    /\ UNCHANGED <<tables, subscription, replays, faults, shared>>

OutcomeMisspelt(success) == IF success THEN "delivered" ELSE "failure"
OutcomeAlwaysDelivered(success) == "delivered"
Outcome(success) == IF success THEN "delivered" ELSE "failed"

\* Subscriptions left to serve, once a delivery has been committed.
AfterDelivery(w) == IF worker[w].todo = {} THEN Continue(w)
                    ELSE [worker[w] EXCEPT !.pc = "deliver", !.target = None]

RowsLost(e) == rows
Recorded(e) == [rows EXCEPT ![e] = @ + 1]

\* The attempt number of the delivery, from the row as it was before the POST.
CountedOnFailure(w) == IF worker[w].success THEN worker[w].seenAttempts
                       ELSE worker[w].seenAttempts + 1
Counted(w) == worker[w].seenAttempts + 1

\* The COMMIT of one delivery: the event's columns and the new delivery row.
Settle(w) ==
    LET e == worker[w].event
        s == worker[w].target IN
    /\ worker[w].pc = "answered"
    /\ attempts' = [attempts EXCEPT ![e] = Counted(w)]
    /\ status' = [status EXCEPT ![e] = Flushed(worker[w].seenStatus,
                                               Outcome(worker[w].success), @)]
    /\ rows' = Recorded(e)
    /\ okRows' = IF worker[w].success
                 THEN [okRows EXCEPT ![e] = @ \cup {s}] ELSE okRows
    /\ badRows' = IF worker[w].success
                  THEN badRows ELSE [badRows EXCEPT ![e] = @ \cup {s}]
    /\ worker' = [worker EXCEPT ![w] = AfterDelivery(w)]
    /\ UNCHANGED <<subscription, accepted, replays, faults, shared>>

\* The process dies or the database connection breaks: the session's work since
\* its last COMMIT is lost.  (A task redelivered by acks_late starts afresh.)
Crash(w) ==
    /\ worker[w].pc # "idle"
    /\ faults < MaxFaults
    /\ faults' = faults + 1
    /\ worker' = [worker EXCEPT ![w] = Idle]
    /\ UNCHANGED <<tables, subscription, accepted, replays, shared>>

-----------------------------------------------------------------------------
(* Specification.                                                          *)

\* Steps a running worker takes by itself.
Proceed(w) ==
    \/ RefreshStored(w)
    \/ RetryNext(w)
    \/ Bury(w)
    \/ dispatch_event(w)
    \/ NoSubscribers(w)
    \/ deliver_to_subscription(w)
    \/ InvalidTarget(w)
    \/ \E taken, success \in BOOLEAN : Answer(w, taken, success)
    \/ Settle(w)

Next ==
    \/ \E s \in Subscriptions : register_webhook(s) \/ delete_webhook(s)
    \/ \E w \in Workers :
          \/ \E e \in Events : receive_webhook(w, e) \/ redispatch_event(w, e)
          \/ retry_failed(w)
          \/ dead_letter_overflow(w)
          \/ Proceed(w)
          \/ Crash(w)

Spec == Init /\ [][Next]_vars

-----------------------------------------------------------------------------
(* Properties.                                                             *)

\* An event reported "delivered" has a successful delivery row, and every
\* successful row is of a target that did answer below 400: no interleaving of
\* stale sessions and no partial UPDATE invents a success.
DeliveredWasAccepted ==
    \A e \in Events :
        /\ status[e] = "delivered" => okRows[e] # {}
        /\ \A s \in okRows[e] : <<e, s>> \in accepted

\* An event is in the retry loop only because a delivery of it failed: the
\* status "failed" has a delivery row of success FALSE behind it.
FailedHasFailure ==
    \A e \in Events : status[e] = "failed" => badRows[e] # {}

\* The attempts counter, which sessions overwrite from stale reads, never runs
\* ahead of the deliveries made: no event loses retries it was entitled to.
AttemptsAreDeliveries == \A e \in Events : attempts[e] <= rows[e]

\* An attempt is lost only when two sessions deliver an event at once: the
\* counter of every other event is the number of its deliveries, and its retries
\* end after WEBHOOK_RETRY_MAX.
AloneIsCounted == \A e \in Events \ shared : attempts[e] = rows[e]

\* An event is dead-lettered only after WEBHOOK_RETRY_MAX deliveries, whatever
\* happened between the dead-letter task's SELECT and its COMMIT.
DeadLetteredIsExhausted ==
    \A e \in Events : status[e] = "dead_lettered" => rows[e] >= RetryMax

\* No target ever accepts an event of another workspace or provider.
DeliveriesStayInChannel ==
    \A p \in accepted : Channel[p[1]] = Channel[p[2]]

\* However sessions overlap, crash and overwrite one another's columns, what is
\* in the tables is a ledger of deliveries that only grows, and a status changes
\* only to what the deliveries of the event bear out.
Ledger == INSTANCE DeliveryLedger WITH verdict <- status, entries <- rows,
                                       succeeded <- okRows, failed <- badRows,
                                       Budget <- RetryMax
ImplementsLedger == Ledger!Spec

\* docs/webhooks.md:57, "failed deliveries are retried": with no work in flight
\* an event with an active subscription that only ever failed is still to be
\* retried, or was dead-lettered.
FailedDeliveryIsRetried ==
    (\A w \in Workers : worker[w].pc = "idle")
        => \A e \in Events : \A s \in badRows[e] \ okRows[e] :
              subscription[s] = "active" => status[e] \in {"failed", "dead_lettered"}
=============================================================================
