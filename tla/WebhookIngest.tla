--------------------------- MODULE WebhookIngest ---------------------------
(***************************************************************************)
(* Inbound half of the webhook engine: receive_webhook, verify_and_store   *)
(* and the Redis guard WebhookDedup.  The provider sends a message again   *)
(* until it is answered 200, so requests for one message overlap.  The     *)
(* Redis key is set before the row is inserted, in two different systems:  *)
(* a fault may fall between the two, and the key expires after a while.    *)
(***************************************************************************)
EXTENDS Naturals, FiniteSets

CONSTANTS
    Messages,   \* what providers send: one member per event of a workspace
    Genuine,    \* messages that verify_signature of their provider accepts
    Key,        \* the dedup key of each message, or NoKey
    NoKey,      \* _dedup_key returned None
    Requests,   \* concurrent calls of receive_webhook
    None,       \* no message
    MaxSends,   \* bound: times a provider sends one message
    MaxFaults   \* bound: crashes and lost database connections

ASSUME GenuineAssumption == Genuine \subseteq Messages
ASSUME NoneIsNoMessage == None \notin Messages
ASSUME BoundsAssumption == MaxSends \in Nat /\ MaxFaults \in Nat

VARIABLES
    redis,      \* keys of the webhook:dedup namespace that are set
    rows,       \* number of webhook_events rows of each message
    request,    \* local state of each call
    acked,      \* messages answered 200
    refused,    \* messages answered "duplicate webhook event"
    sends,      \* times each message was sent (bounded by MaxSends)
    faults      \* faults so far (bounded by MaxFaults)

vars == <<redis, rows, request, acked, refused, sends, faults>>

Keys == {Key[m] : m \in Messages} \ {NoKey}
Keyed == {m \in Messages : Key[m] # NoKey}

RequestState == [pc : {"idle", "insert", "dispatch"}, message : Messages \cup {None}]
Free == [pc |-> "idle", message |-> None]

TypeOK ==
    /\ redis \subseteq Keys
    /\ rows \in [Messages -> Nat]
    /\ request \in [Requests -> RequestState]
    /\ acked \subseteq Messages
    /\ refused \subseteq Messages
    /\ sends \in [Messages -> Nat]
    /\ faults \in Nat

Init ==
    /\ redis = {}
    /\ rows = [m \in Messages |-> 0]
    /\ request = [r \in Requests |-> Free]
    /\ acked = {}
    /\ refused = {}
    /\ sends = [m \in Messages |-> 0]
    /\ faults = 0

-----------------------------------------------------------------------------

\* A request arrives; a provider may send a message again even after a 200.
Arrives(r, m) ==
    /\ request[r].pc = "idle"
    /\ sends[m] < MaxSends
    /\ sends' = [sends EXCEPT ![m] = @ + 1]

Verified(m) == m \in Genuine

\* Unknown signature, or a provider without supports_webhooks: an error before
\* anything is touched.
VerificationFails(r, m) ==
    /\ Arrives(r, m)
    /\ ~Verified(m)
    /\ UNCHANGED <<redis, rows, request, acked, refused, faults>>

Seen(m) == Key[m] \in redis

\* WebhookDedup.seen (SET NX EX, atomic in Redis) answers True: refused.
Duplicate(r, m) ==
    /\ Arrives(r, m)
    /\ Verified(m)
    /\ Seen(m)
    /\ refused' = refused \cup {m}
    /\ UNCHANGED <<redis, rows, request, acked, faults>>

\* Redis after it answered False: the key is set; without one Redis is not asked.
MarkedWithoutKey(m) == redis \cup {Key[m]}
Marked(m) == IF Key[m] = NoKey THEN redis ELSE redis \cup {Key[m]}

Claim(r, m) ==
    /\ Arrives(r, m)
    /\ Verified(m)
    /\ ~Seen(m)
    /\ redis' = Marked(m)
    /\ request' = [request EXCEPT ![r] = [pc |-> "insert", message |-> m]]
    /\ UNCHANGED <<rows, acked, refused, faults>>

\* The unique index on webhook_events.dedup_key (NULLs do not collide).
IndexPerMessage(m) == rows[m] = 0
NoIndex(m) == TRUE
Insertable(m) == Key[m] = NoKey \/ \A x \in Messages : Key[x] = Key[m] => rows[x] = 0

\* INSERT and COMMIT; the call goes on to dispatch_event.
Insert(r) ==
    LET m == request[r].message IN
    /\ request[r].pc = "insert"
    /\ Insertable(m)
    /\ rows' = [rows EXCEPT ![m] = @ + 1]
    /\ request' = [request EXCEPT ![r].pc = "dispatch"]
    /\ UNCHANGED <<redis, acked, refused, sends, faults>>

\* IntegrityError: the session is rolled back and the caller gets a 500.
InsertFails(r) ==
    /\ request[r].pc = "insert"
    /\ ~Insertable(request[r].message)
    /\ request' = [request EXCEPT ![r] = Free]
    /\ UNCHANGED <<redis, rows, acked, refused, sends, faults>>

AnsweredPc == {"dispatch"}
AnsweredBeforeCommit == {"insert", "dispatch"}

\* Where a call may end with 200: after dispatch_event, which follows the COMMIT.
Answerable == AnsweredPc

Accept(r) ==
    /\ request[r].pc \in Answerable
    /\ acked' = acked \cup {request[r].message}
    /\ request' = [request EXCEPT ![r] = Free]
    /\ UNCHANGED <<redis, rows, refused, sends, faults>>

\* dispatch_event raised (an invalid target URL): 500, with the event stored.
DispatchRaises(r) ==
    /\ request[r].pc = "dispatch"
    /\ request' = [request EXCEPT ![r] = Free]
    /\ UNCHANGED <<redis, rows, acked, refused, sends, faults>>

\* The process dies, Redis' answer is lost, or the database fails the COMMIT.
Crash(r) ==
    /\ request[r].pc # "idle"
    /\ faults < MaxFaults
    /\ faults' = faults + 1
    /\ request' = [request EXCEPT ![r] = Free]
    /\ UNCHANGED <<redis, rows, acked, refused, sends>>

\* REDIS_WEBHOOK_TTL has passed, or Redis lost the key.
Expire(k) ==
    /\ k \in redis
    /\ redis' = redis \ {k}
    /\ UNCHANGED <<rows, request, acked, refused, sends, faults>>

Next ==
    \/ \E r \in Requests :
          \/ \E m \in Messages :
                VerificationFails(r, m) \/ Duplicate(r, m) \/ Claim(r, m)
          \/ Insert(r)
          \/ InsertFails(r)
          \/ Accept(r)
          \/ DispatchRaises(r)
          \/ Crash(r)
    \/ \E k \in Keys : Expire(k)

Spec == Init /\ [][Next]_vars

-----------------------------------------------------------------------------
(* Properties.                                                             *)

\* Overlapping requests, expiry of the Redis key and crashes never leave two
\* rows with one dedup key: neither a message twice nor two of one key.
OneRowPerKey ==
    \A m, x \in Keyed :
        Key[m] = Key[x] /\ rows[m] > 0 /\ rows[x] > 0 => m = x /\ rows[m] = 1

\* The provider stops sending only what is stored, so an accepted event can
\* always be dispatched again from its row.
AckedIsStored == \A m \in acked : rows[m] > 0

\* Nothing is stored unless its signature was verified.
StoredIsGenuine == \A m \in Messages : rows[m] > 0 => m \in Genuine

\* For keyed messages the engine is the append-only log of EventLog.
Log == INSTANCE EventLog WITH Messages <- Keyed,
                              log <- {m \in Keyed : rows[m] > 0},
                              confirmed <- acked \cap Keyed
ImplementsLog == Log!Spec

Processed(m) == rows[m] > 0 \/ \E r \in Requests : request[r].message = m

\* src/services/redis_service.py:72, "Return True if the key was already
\* processed": an event refused as a duplicate is stored, or being stored.
RefusedWasProcessed ==
    \A m \in refused : \E x \in Messages : Key[x] = Key[m] /\ Processed(x)

\* docs/webhooks.md:82, the guard "detects duplicate events": what it refuses is
\* the same event again, not one of another workspace.
RefusedIsRepeat == \A m \in refused : Processed(m)
=============================================================================
