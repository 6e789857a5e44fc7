# AgentForge Integrations in TLA+

TLA+ modules, TLC configurations and TLAPS proofs for the integration service
of this repository (`src/`, main application in `src/src/`; paths below are
relative to the repository root). The service connects workspaces to third-party
providers: it keeps OAuth connections and credentials, calls provider APIs,
receives provider webhooks and delivers them to subscribers. It is an asyncio
FastAPI application with PostgreSQL and Redis, plus Celery workers and a beat
process that run the same service code in sessions of their own.

What makes it hard is one pattern that recurs in every part: **a handler reads a
row, awaits something (an HTTP request of up to 30 seconds, another statement,
another system) and commits later what it changed in the copy it had read**.
No row is locked and no version is checked, and SQLAlchemy's UPDATE contains
only the columns whose value differs from the one *loaded*. So overlapping
sessions mix columns. The modules make each of those awaits a step boundary.

## 1. Inventory

| Component | State | Operations | Interacts with |
| --- | --- | --- | --- |
| Inbound webhook engine (`api/webhooks.py`, `services/webhook_dispatcher.py:34-107`, `redis_service.py` WebhookDedup) | `webhook_events`, Redis keys `webhook:dedup` | `receive_webhook`, `verify_and_store`, `seen` | provider (sends again until 200), Redis, database, then dispatch |
| Outbound delivery (`webhook_dispatcher.py:109-239`, `tasks/webhook_tasks.py`) | `delivery_status` and `attempts` of each event, `webhook_deliveries`, `webhook_subscriptions` | `dispatch_event`, `deliver_to_subscription`, `retry_failed`, `dead_letter_overflow`, manual dispatch, register, delete | subscribers' targets, Celery tasks, API requests |
| OAuth lifecycle (`services/oauth_service.py`, `api/auth.py`) | `oauth_states`, `integration_connections`, `credentials` | authorization URL, callback, refresh, revoke, disconnect, clean-ups | provider's token and revocation endpoints, hourly refresh task |
| Provider requests (`providers/base.py:171-234`, `utils/circuit_breaker.py`, `utils/retry.py`) | one breaker per provider and process | `_request`, `allow_request`, `record_success`, `record_failure`, `with_retry` | provider APIs; called by every action |
| Celery application (`tasks/`) | queue, schedule | beat, manual sends, take, acknowledge, redeliver | all maintenance operations |
| HTTP routing (`api/__init__.py`, routers) | route order | first match | all handlers |
| Token refresh batch (`services/token_refresh.py`) | – | `refresh_ending_tokens`, clean-ups | OAuth lifecycle |
| Credential store and encryption (`services/credential_service.py`, `encryption_service.py`, `api/credentials.py`) | `credentials`, the keys each process has read | create, get, update, delete, rotate, clean-up, re-encrypt, key rotation | OAuth lifecycle, integration manager, maintenance tasks |
| Integration manager (`services/integration_manager.py`, `api/integrations.py`, `audit_service.py`) | one provider instance per request, audit rows | validate, execute, disconnect | connections, credential store, providers, audit |
| Provider adapters (23) and registry (`providers/`) | each instance's HTTP client or database engine | some 170 actions, signature checks | provider requests, client libraries, databases |
| Configuration, health, telemetry, middleware, authentication | counters | – | – |
| Older package (`src/agentforge-integrations/`) | table of loaded integrations, their clients, access tokens and locks | load, execute, health check, close, refresh | none of the main application |

What must be true of each, and is hard to see in a test:

* **Inbound**: a message is stored at most once however often and however
  concurrently it is sent; a provider is told 200 only for a stored message; a
  message refused as a duplicate really has been taken.
* **Outbound**: the status and the counter of an event, overwritten by stale
  sessions, never claim a success that did not happen nor a failure that did
  not, never run ahead of the deliveries made, fall behind them only where two
  sessions overlap; dead-lettering happens after the whole budget; workspaces
  stay apart.
* **OAuth**: a state stores tokens once; tokens and consumed mark go together;
  a closed connection is inactive and stays closed for a refresh in flight.
* **Provider requests**: the breaker counts consecutive failures, is left open
  only through half-open, is closed only by successes of the same recovery, and
  recovers when the provider does.
* **Celery**: no message is lost or counted twice when workers are; a scheduled
  task is run.
* **Credentials**: a row decrypts to what was stored last, under keys that change
  while processes with older ones go on writing.
* **Actions**: what a schema promises, the method takes; an answer "done" and the
  audit trail are true whatever is retried, lost, rolled back or closed meanwhile;
  nothing is written more often than retries allow; the instance's connections are
  released.
* **Older package**: closing while others load leaks nothing; one token refresh at
  a time, and nobody waits for ever.

`PROJECT.json` lists every hazard at its line with the properties about it.

## 2. Modules

| Module | Models | State and actions |
| --- | --- | --- |
| `EventLog` | abstract specification of the inbound engine | append-only log with one message per key; "confirmed" only what is logged |
| `WebhookIngest` | `receive_webhook`, `verify_and_store`, `WebhookDedup`, unique index | `redis`, `rows`, one `request` per call; `Claim` is SET NX, `Insert` the COMMIT, `Accept` the 200. Implements `EventLog` for messages with a key |
| `WebhookDelivery` | dispatch, delivery, retry, dead-letter, replay, subscriptions | the columns of the tables; a `worker` per session with what it has loaded (`seenStatus`, `seenAttempts`). SELECT, POST, answer and COMMIT are separate actions, and so is the reading back of a row just stored (`RefreshStored`); `Flushed` is the partial UPDATE. `shared` is history: the events that two sessions had in flight at once. Implements `DeliveryLedger` |
| `DeliveryLedger` | abstract specification of outbound delivery | per event a verdict and the deliveries recorded; entries are only added, a verdict changes only to one they bear out |
| `OAuthConnection` | one workspace and provider: authorization, callback, refresh, revocation, disconnection, clean-ups | `oauth_state`, `connection`, `credential`; a `worker` per session with the row as it loaded it; `cleaning`, the states that the clean-up has selected and will delete |
| `ProviderRequest` | `_request`, circuit breaker, retry helper | `breaker`, a `call` per caller; the code between two awaits is one action |
| `TokenRefresh` | `refresh_ending_tokens` over many connections, overlapping batches, refreshes of single connections | `due` (the rows a batch selects), `good` (which copies of a refresh token the provider takes: the row's, or those a session loaded); a `worker` per session |
| `TaskSchedule` | beat, queue, worker processes, late acknowledgement | counters per task; names as the code registers and schedules them. Its own names begin with `Task` where others would clash, so that `MaintenanceProofs` can extend it beside `TokenRefresh` |
| `CredentialStore` | credentials of one workspace and provider, clean-up and rotation tasks, encryption keys | `rows`; a `worker` per session with what it has loaded; `deployed` and, per process, `keyring`. SELECT and COMMIT are separate, `Updated` is the partial UPDATE; an OAuth callback's row has no hash; `NewKey`, `Restart`, `re_encrypt` and `Retire` are the operator's steps of docs/security.md |
| `ProviderCatalogue` | the 23 adapters | constants: per action the keys its capability requires and describes, the parameters its method takes, and the requests it makes (read, write, a probe whose errors it swallows, or an attempt of which it swallows `IntegrationError`s only) with the way they are made (`Vias`) |
| `ActionExecution` | `execute_action`, `validate_connection`, audit; over `ProviderCatalogue` | `connection`, `credentials`, a `call` per request with the step it is at, `clients` (open engines and HTTP clients), `audit`, `standing` (what is done at the provider) |
| `IntegrationRuntime` | the older package's manager and OAuth2Auth | `instances` (the dict, in order, so that the iterator of `close_all` can be invalidated), `open`, `token`, `lock` (holder and queue), a `call` per coroutine |

`MC*.tla` give constants values for TLC; `*Proofs.tla` hold the theorems.

Each is written from the source, not from the docs. What is abstracted:

* Payloads, headers, bodies, signatures: a message is a model value;
  `Genuine` is the set `verify_signature` accepts, `Key` what `_dedup_key`
  returns (nothing, or a key that two messages may share, as two workspaces'
  events can), `Unroutable` the targets `validate_target_url` always refuses.
* The workspace and the provider of a row: one value, `Channel`.
* Time: the Redis TTL, the state's TTL and the breaker's recovery timeout are
  actions that may happen at any moment (`Expire`, `Tick`).
* Encryption (`OAuthConnection`): a token is "the tokens of the authorization that began with this
  state, refreshed so many times".
* SELECT … LIMIT without ORDER BY: any `n` of the matching rows (`Selections`).
* The callback's upsert holds a row lock until its COMMIT, so the two are one
  action (`Stored`); everything that was rolled back is `NotStored`.
* A failed name lookup in `validate_target_url` counts as a fault, as crashes do.
* Refresh tokens in `TokenRefresh`: only whether the provider still takes a copy.
  A provider in `Rotates` replaces the token it took; a batch loads all rows at
  once and the session's identity map keeps what it loaded, so its copies age.
* Encryption (`CredentialStore`): a blob is its payload and the number of its key;
  a process decrypts it if that key is its current or a previous one.
* `re_encrypt` reads and writes a row in one step: no code calls it, and
  docs/security.md:15-17 makes it the operator's work, done while no session is
  between its own SELECT and COMMIT of that row. `Retire` asks for more than "once
  all data is migrated" (docs/security.md:17): no process may still write under the
  key either. Without it a process that has not been restarted writes rows that
  nobody with the deployed keys can read; that such a restart is needed is what the
  model found, and `NewestReadsAll` holds under that condition only.
* `open` in `IntegrationRuntime` is the state of a client: open until `aclose` is
  called. A coroutine that has passed `_ensure_client` goes on to send through the
  transport of a client closed meanwhile, which may connect once more; that
  connection is not in `open`, and `NoLeak` does not speak of it.
* A payload of an action is the set of its keys; `Payloads` has the least and the
  largest one that the capability describes, each with one required key left out,
  and one with a key the schema does not list. Values, and what the methods make
  of them, are left out.
* `PolicySet` of `ActionExecution`: the providers whose class sets a
  `retry_policy`. Today no class does, and every request made with retries fails
  before it is sent (section 6, `MCProviderRequest_retries`). The run gives it to
  three providers, so that both the code as it is and the intended path are explored.
* Delivery answers: an `httpx.HTTPError` may hide that the target accepted
  (`Answer` with `taken` and not `success`).

## 3. Runs

All configurations say `CHECK_DEADLOCK FALSE`: events, sends and faults are
bounded, so an instance may run out of things to do.

| Run | Configuration | Checks |
| --- | --- | --- |
| `delivery_pass` | 2 events and 2 subscriptions in two channels, 2 sessions, RetryMax 2, LIMIT 1, one replay, one fault | `DeliveredWasAccepted`, `AttemptsAreDeliveries`, `AloneIsCounted`, `DeadLetteredIsExhausted`, refinement `ImplementsLedger` (about 3.8 million states) |
| `ingest_pass` | 4 messages: one not genuine, two with one key, one without; 2 requests, 2 sends, 1 crash | `OneRowPerKey`, `AckedIsStored`, refinement `ImplementsLog` |
| `request_pass` | 3 callers, one per mode, thresholds 2 and 2, 2 attempts, 6 failures, `FairSpec` | `CountsConsecutiveFailures`, `RecoveryIsEarned`, `HealthyRecovers` |
| `oauth_pass` | 2 states, 2 sessions, provider with and without a revocation endpoint (`has_revoke_url`), 1 deletion, 1 refresh, 1 fault | `ReplayNeedsDeletion`, `StoredMeansConsumed`, `ClosedIsInactive`, `OnlyCallbackConnects` |
| `refresh_pass` | 4 connections (two with rotating tokens, one without a refresh token, two without `expires_in`), 3 sessions, LIMIT 2, 2 single refreshes, 1 fault | `UsableIsStored`, `LostOnlyByFault` (about 3.6 million states) |
| `tasks_pass` | one scheduled and two manual tasks, 2 worker processes, 2 losses, `TaskFairSpec` | `NothingLost`, `SentIsRun` |
| `credentials_pass` | 2 rows, 2 names, 2 payloads, 1 expiry, 2 sessions in a process each, keys 0 to 2, 5 operations | `LastWriteIsRead`, `NewestReadsAll` (about 2.3 million states) |
| `actions_pass` | all 23 providers (3 of them with a `retry_policy`), 2 requests, 2 attempts, 1 fault | `DescribedIsBound`, `OkIsDone`, `AuditIsTrue`, `ReleasedAtEnd`, `NoWriteTooOften` (about 1.4 million states) |
| `runtime_pass` | 2 integrations (one with OAuth2Auth, one with two-request writes), 3 coroutines of which one may close, 2 objects, `FairSpec` | `NoLeak`, `NoNeedlessRefresh`, `CallsEnd` |
| `delivery_missed`, `actions_uncommitted` | smallest instance that shows it | two disagreements of section 6 |
| `tasks_beat` | the five entries of the schedule, 1 send of each message, 2 losses, `TaskFairSpec` | the third disagreement of section 6 |

Every passing run but `tasks_pass` also checks its module's `TypeOK`.

Why the bounds are enough to be interesting: two sessions are what a lost or
stale update takes; RetryMax 2 with a second event in another channel lets an
event go through failure, retry, exhaustion and burial while the other holds the
batch's only place (LIMIT 1), and two sessions can pass the budget together; the
replay bound lets a finished event be dispatched again. In `ingest_pass` every
message can be sent again after the key expired. Three callers with six failures
allow a breaker to open, fail its recovery and recover with answers of the first
closed period still outstanding. In `refresh_pass` two batches and a single
refresh can hold copies of one rotating token at once, and a LIMIT below the
number of connections lets the batches differ. `SYMMETRY` is used only in
`delivery_pass`, for the two sessions and the two subscriptions that one channel
has (`TwoChannels`), which nothing in the module tells apart; the refinement it
checks has no liveness part. In `credentials_pass` two
processes with different keys can update one row, or rotate and clean it up at
once, and a key can be retired and its process restarted. In `actions_pass` every
action of every provider is bound once with each of its payloads; the second
request closes over the first one's connection and instance. In `runtime_pass`
three coroutines suffice for a holder of the lock, one that waits and one that
closes. Proofs remove the bounds where they exist.

### Fairness

Three modules have properties with fairness; what each assumes is what its code
gives.

* `ProviderRequest.FairSpec`: time passes, requests are answered (httpx timeout
  of 30 seconds, `base.py:102`), callers with credentials keep coming. Failures
  are bounded: "when the failures stop".
* `TaskSchedule.TaskFairSpec`: beat keeps sending, tasks end, and for each kind of
  message strong fairness of being taken: the queue is first in first out, so a
  message that waits is reached.
* `IntegrationRuntime.FairSpec`: requests are answered or time out (httpx, 30
  seconds), and an `asyncio.Lock` wakes its first waiter. Nothing else is awaited.
* No fairness on new requests, registrations, crashes or replays, and none on the
  periodic tasks of the main application: its schedule sends names that no worker
  knows (`tasks_beat`), so nothing guarantees that retries, dead-lettering, token
  refreshes, rotations and clean-ups run at all, let alone again and again. No
  property says that a failed event is retried in the end, that a token that has
  expired is refreshed, or that an expired credential is settled; those cannot be
  promised for this code. Nor is there fairness for statements of the SQL,
  MongoDB and S3 clients, to which the 30 seconds of `base.py:102` do not apply.
* The configurations `poison`, `stuck` and `starved` of section 6 do assume such
  fairness, each in its MC module and against the code: what they show happens
  *even if* the tasks are sent for ever.

## 4. Proofs

TLC explores the instances above; TLAPS proves the theorems below for every
value of the constants: any number of events, subscriptions, messages, requests,
callers, sessions, any thresholds, limits and bounds. The assumptions are the
named `ASSUME`s of the modules (limits and thresholds are positive numbers,
the worker processes of `TaskSchedule` are finitely many,
"none" is not an element of the data, `Genuine` is a set of messages); every
passing run evaluates them.

| Module | Theorems | Argument |
| --- | --- | --- |
| `WebhookDeliveryProofs` | `TypeCorrect`, `DeliveredTheorem`, `DeadLetterTheorem`, `FailedTheorem`, `RetryLoopTheorem`, `IsolationTheorem`, `AloneTheorem`, `ImplementsLedgerTheorem` | `IInv == Typed /\ WorkerInv /\ Safety`; `Undisturbed` for `AloneTheorem`; with `WorksOnStored` the refinement of `DeliveryLedger` |
| `WebhookIngestProofs` | `TypeCorrect`, `UniqueTheorem`, `AckedTheorem`, `GenuineTheorem`, `ImplementsTheorem` | `IInv`, then a step-by-step refinement of `EventLog` |
| `ProviderRequestProofs` | `TypeCorrect`, `CountTheorem`, `RecoveryTheorem`, `LateAnswerTheorem` | `IInv` with `CounterIsEarned` |
| `OAuthConnectionProofs` | `TypeCorrect`, `AtomicCallbackTheorem`, `ClosedTheorem`, `ReplayTheorem`, `OneTimeTheorem`, `OnlyCallbackTheorem` | `IInv` with `SeenHolds`, `TokenHasRow`, `CredentialGuards` |
| `MaintenanceProofs` | of `TaskSchedule`: `TaskTypeCorrect`, `NothingLostTheorem` | `NothingLost` with cardinalities of sets of processes |
| | of `TokenRefresh`: `TypeCorrect`, `UsableTheorem`, `NoTokenLostTheorem` | `IInv` with `AnswerIsGood`, `RowIsGood`, `GoodIsSomewhere` |
| `CredentialStoreProofs` | `TypeCorrect`, `LastWriteTheorem`, `ReadableTheorem` | `IInv` with the keys a process may still write under |
| `ActionExecutionProofs` | `TypeCorrect`, `DescribedTheorem`, `DoneTheorem`, `NotTooOftenTheorem`, `AuditTheorem`, `ReleasedTheorem` | the catalogue provider by provider, then `CallInv` of each call; `Frugal` for `NotTooOftenTheorem` |
| `IntegrationRuntimeProofs` | `TypeCorrect`, `OneRefreshTheorem` | `RInv` with `HolderRefreshes` |
| | `NoLeakTheorem` | `IInv` with `Passed`, for one closing coroutine |

* **Delivery.** The properties of the tables are not inductive: a COMMIT writes
  what a session read long before. `WorkerInv` says what a session's stale copy
  still guarantees when it is used. `SeenIsPast`: the attempts it loaded are at
  most the delivery rows there are *now*, since rows are never removed; so the
  overwritten counter does not run ahead. `BuriesExhausted`: an event in the
  dead-letter batch had used its budget, and still has. `SuccessWasAccepted` and
  `ServesItsChannel` carry the answer and the subscription's match through the
  POST. A partial UPDATE leaves the stored status or writes one whose row is
  added by the same COMMIT, so `Safety` is preserved with them.
* **Delivery, alone.** That the counter is exact while nobody overlaps needs to know
  that the one session in flight has read the counter as it still is.
  `Undisturbed` says so for each event outside `shared`: counter and delivery rows
  agree, at most one session has the event between its read and its COMMIT, and
  what it read is what is stored. A second session that begins to deliver puts the
  event into `shared`, from which nothing is removed.
* **Delivery ledger.** `DeliveryLedger` knows nothing of sessions. The mapping takes
  the tables as they are: storing an event, an accepted POST, the COMMIT of a
  delivery, of "no_subscribers" and of a burial are the steps of the ledger, all
  others (SELECTs, refused and lost calls, crashes, a COMMIT whose UPDATE leaves out
  the status) leave it alone. What the ledger demands of a step is what `WorkerInv`
  carries across the awaits: a recorded success was accepted, a target is of the
  event's channel, a buried event has used its budget. `WorksOnStored` adds that a
  session only ever works on events that have a row. The ledger does not have
  `attempts`: `RetryLoopTheorem` is about that column.
* **Ingest.** The unique index alone keeps one row per key: the Redis key, which
  may expire or be set for nothing, plays no part in `IInv`. For the refinement,
  the COMMIT is `EventLog`'s `Store`, the 200 is its `Confirm`, and every other
  step stutters; messages without a key are outside the mapping.
* **Provider request.** `CounterIsEarned` ties the breaker's own count of
  half-open successes to the history of successes since it last opened: none
  while it is open, as many as the counter says, and fewer than the threshold,
  while it is half-open. The reset in the `state` property preserves it.
* **OAuth.** `SeenHolds` says what a session may rely on at its COMMIT: one that
  is about to close the connection and loaded it inactive finds it inactive
  still, since no other session makes a row active again. So the column that its
  UPDATE leaves out already has the right value. `CredentialGuards`: while there
  is no credentials row, every storing of a state's tokens has been paid for by
  a deletion. It gives `ReplayNeedsDeletion` and, with no deletions, the one-time
  state the documentation promises (`OneTimeTheorem`).

* **Tasks.** `NothingLost` counts messages: those sent are those queued, running,
  ended and discarded. The running ones are the cardinality of a set of workers,
  which each step changes by one element at most; hence finitely many workers.
* **Token refresh.** Which tokens are lost depends on who holds the only good
  copy. `AnswerIsGood`: a session with an answer in hand holds a good token, and
  the only one if the provider rotates. `RowIsGood`: without rotation the row's
  token stays good as long as any is. `GoodIsSomewhere`: a good copy is in the
  row or came with an answer, never only in a session that is about to send it.
  So a session that drops its stale copy, or is refused because of it, drops
  nothing that is not kept elsewhere.

* **Credentials.** A secret is always written by a session that has just encrypted
  it: Fernet's random IV makes the new blob differ from the loaded one, so the
  partial UPDATE never leaves it out, and the last COMMIT decides the payload.
  That every row stays readable is not inductive: a process started under an old
  key writes under it for as long as it lives. `RowsReadable` says that the
  deployed keys read every row, and `KeysKept` that they include the key under
  which each process still writes. `Retire` drops a key only when neither a row
  nor a process needs it, the operator's step of docs/security.md.
* **Actions.** `DescribedIsBound` speaks of 23 providers and some 170 actions, so it
  is proved in two parts. `Follows` is a statement about one provider's tables: each
  capability is a method that clients can call, which needs nothing the schema does
  not require and takes everything it describes. It is proved provider by provider
  from the definitions of `ProviderCatalogue` (`CatalogueFits`); nothing about the
  catalogue is assumed. `Fitting` then carries it from the request to its end.
  `OkIsDone` counts: `AsWritten` says that what stands at the provider is the number
  of writes among the steps done so far, or at least that where `with_retry` sends
  again, and each of send, answer, lost answer, COMMIT and crash has to keep the
  account. Statements sent in a session that never commits are outside it
  (section 6). `NoWriteTooOften` is the other direction, and for calls that fail or
  die as well: `Frugal` adds up what may have been done at the steps before the
  present one and by the earlier attempts of that one, for which the number of
  attempts has to stay within what `with_retry` sends. `Linked` follows who found the connection active, so that a
  connection closed under a running request does not make its record untrue.
  `Opened` says that an open client belongs to a call before its `disconnect`.
* **Older package, refresh.** A lock is held by the head of its queue. `HolderRefreshes`
  says that who is asking for a token is that head; two coroutines at one instance
  would have to be the same one. A cancelled coroutine leaves the queue wherever it
  stands in it (`Without`), which moves nobody else in front of the head.
* **Older package, closing.** `NoLeak` alone is not inductive: `close_all` clears the table
  at its end, and what makes that right is that its iterator has passed every
  entry. `Passed` says that the entries before the iterator are closed, that the
  table has only grown since the loop began, and that the closing coroutine is the
  only one. A load appends an object that is in no entry, so it reopens none of
  them; if it came in between, the sizes differ and nothing is cleared. The
  theorem needs one closing coroutine (`OneCloser`): with two it is false
  (section 6, `MCIntegrationRuntime_closers`).

`FailedHasFailure`, `DeliveriesStayInChannel`, `StoredIsGenuine`,
`LateAnswersKeepItOpen`, `TaskTypeOK` and, where no credentials row is deleted,
`OneTimeState` are proved for all constants and not among the runs.

Every invariant and every action property of a passing run has its theorem, and so
have both refinements. Only model-checked are the properties with fairness
(`HealthyRecovers`, `SentIsRun`, `CallsEnd`), which are beyond the prover, and the
violations of section 6. `NoLeak` is proved for one closing coroutine, which is what its run has.

## 5. How to run

    tlc -config MCWebhookDelivery_pass.cfg MCWebhookDelivery.tla
    tlapm WebhookDeliveryProofs.tla

## 6. Where the code disagrees with its documentation

Three are runs of the project and findings of `PROJECT.json`:

| Run | What the documentation says | What the run shows |
| --- | --- | --- |
| `delivery_missed` | docs/webhooks.md:57 "failed deliveries are retried" | a later subscription's success overwrites "failed"; the failed delivery is never retried |
| `actions_uncommitted` | providers/postgres/__init__.py:53 "Insert a row into a table and return it." | `_execute` never commits: the row that was returned is rolled back when the session is closed. Postgres' `update_row` and `delete_row` and both SQL providers' `execute_query` do the same |
| `tasks_beat` | docs/operations.md:34-40, the five periodic tasks | `beat_schedule` names the functions by their module path, the decorators register `agentforge.*`; workers discard every scheduled message |

The other configurations beside the modules are not part of the runs. Each
checks one more statement, and TLC finds it violated:

| Configuration | Statement | Behaviour |
| --- | --- | --- |
| `MCWebhookDelivery_stuck` | README.md:208 "persisted, then delivered" | a crash before the dispatch leaves the event "pending" |
| `MCWebhookDelivery_poison` | README.md:208 "retried … until dead-lettered" | a refused target ends every retry before its COMMIT, even if the tasks run again and again |
| `MCWebhookIngest_lost` | redis_service.py:72 "True if the key was already processed" | the key is set before the row exists: after a crash in between every retry is refused |
| `MCWebhookIngest_tenants` | docs/webhooks.md:82 "detects duplicate events" | the key has no workspace: another workspace's event is refused |
| `MCOAuthConnection_reconnect` | docs/oauth.md:34 "upserts" | `_persist_credential` always inserts; a second authorization fails on the unique name |
| `MCOAuthConnection_unusable` | docs/oauth.md:34-37 | reconnecting leaves `is_active` FALSE: "connected" and not found |
| `MCOAuthConnection_resurrect` | docs/oauth.md:68 "always destroyed" | a refresh that overlaps the revocation writes tokens after it |
| `MCTokenRefresh_starved` | docs/oauth.md:58 "refreshes active connections whose expiry … passed (batched, limit 200)" | with more due rows than LIMIT places, rows that stay due (no refresh token, or answers without `expires_in`) fill every batch, even if it is sent again and again |
| `MCProviderRequest_probe` | circuit_breaker.py:19 "half-open probe" | a success while open zeroes the count; the failed probe does not reopen |
| `MCProviderRequest_retries` | docs/providers.md:23 "provide retries" | `retry_policy` is a `dataclasses.Field`; the call fails without a request |
| `MCCredentialStore_hash` | models/__init__.py:98, the hash is for lookup "without decrypting" | overlapping updates leave the hash of one payload beside the blob of another: an UPDATE leaves out the hash when it equals the loaded one |
| `MCCredentialStore_refreshed` | docs/operations.md:48 "Remove expired credential records" | a row whose expiry is renewed after the clean-up's SELECT is removed all the same |
| `MCCredentialStore_rollout` | docs/security.md:15 "so existing rows stay readable" | processes not yet restarted cannot read what restarted ones write |
| `MCActionExecution_unaudited` | audit_service.py:14 "integration audit trail" | a crash, or an error in a later statement, after the provider did what was asked leaves no record |
| `MCIntegrationRuntime_closers` | `close_all` of the older package's manager | with two overlapping calls one clears the table under the other, and an instance loaded meanwhile is dropped open |
| `MCIntegrationRuntime_stays` | `load_integration` answers with what is loaded | an integration closed by an interrupted `close_all` stays in the table with a closed client |

Seen in the code while modelling, with no configuration because a look at the
lines settles it:

* `POST /webhooks/register` (README.md:161) is answered by `receive_webhook`, and
  `GET /integrations/connections` (README.md:152) by `GET /integrations/{provider}`:
  the earlier route matches first.
* The event set of a subscription (docs/webhooks.md:7) is never looked at.
* Several subscriptions, replays and overlapping sessions exceed "maximum delivery
  attempts" (docs/webhooks.md:76), and two sessions can lose an increment.
* The caller's own errors (404, 422) count as failures of the provider and open its
  breaker for all callers (circuit_breaker.py:1 speaks of "degraded APIs").
* A message without an id has no key, so each retry of the provider is stored.
* A refresh updates one of the two rows that hold the tokens (docs/oauth.md:51); a
  revocation without an endpoint at the provider keeps them (docs/oauth.md:68).
* Two overlapping callbacks with a deletion of the credentials row in between store
  the tokens of one state twice (docs/oauth.md:44); without a deletion they cannot
  (`OneTimeTheorem`).
* Two credentials of one workspace and provider under different names make `get`,
  `update` and `delete` raise.
* `validate_payload` accepts keys the schema does not list; the method refuses them
  with a `TypeError` (docs/architecture.md:58).
* docs/security.md:6 speaks of API keys in `integration_connections`: only the OAuth
  callback creates such a row, so a provider without OAuth has no connection.
* The refresh "on expiry" of an execution (docs/oauth.md:60) waits for a
  `TokenExpired` that no provider raises.
* `requires_rotation` compares a part of the token with the key. The two are never
  equal, so every token that decodes is said to be encrypted under an older key.
* The older package's `@retry` lists exceptions its clients do not raise.

## 7. Not modelled, and why

* Adapters: how requests are built and answers parsed, pagination and uploads.
  `ProviderCatalogue` has each action's parameters and requests. Signature checks
  are the constant `Genuine`.
* HTTP routing: a fixed list in which the first match answers.
* Configuration, logging, telemetry, health, middleware, authentication: filled
  once or stateless. The registry likewise; its content is `ProviderCatalogue`.
* Audit rows are append-only. Recording an action is in `ActionExecution`; that the
  record's COMMIT also stores the session's pending changes is in `ExchangeRefused`
  and `ExpiredState`.
* Redis lock, JSON cache and queue helpers: nothing calls them.
* `CircuitBreaker.reset`, `reset_all`: only tests call them. The lengths of
  waits (backoff, jitter) and `Retry-After`.
* The branch of `execute_action` after a `TokenExpired`, which nothing raises.
* Older package: the rate limiter (no caller), `@retry` (no effect), the registry
  (filled at import) and the webhook handlers (they log).
* `within_minutes` of `refresh_ending_tokens`: no statement uses it, so tokens are
  refreshed after their expiry only, not when it is "approaching"
  (docs/oauth.md:58). `Due` models the code.

## 8. Plan

Done: `WebhookDelivery` with `DeliveryLedger`, `WebhookIngest` with `EventLog`,
`OAuthConnection`, `ProviderRequest`, `TokenRefresh`, `TaskSchedule`,
`CredentialStore`, `ProviderCatalogue` with `ActionExecution` and
`IntegrationRuntime`, each with proofs. What is left, in this order:

1. Abstract specifications of the audit trail and of the credential store, which
   `ActionExecution` and `CredentialStore` refine.
2. Control of single adapters: pagination, uploads in parts, webhook signatures
   with time windows.
