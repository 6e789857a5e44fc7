-------------------------- MODULE ActionExecution ---------------------------
(***************************************************************************)
(* POST /integrations/{provider}/execute and /validate                     *)
(* (src/api/integrations.py): IntegrationManager.execute_action and        *)
(* validate_connection (src/services/integration_manager.py) over any      *)
(* provider of the catalogue, up to the answer and its audit record        *)
(* (src/services/audit_service.py).                                        *)
(*                                                                         *)
(* Calls are requests to one process.  Between two awaits of a call the    *)
(* connection may be closed, another call may run, the process may die.    *)
(***************************************************************************)
EXTENDS ProviderCatalogue, Naturals, FiniteSets

CONSTANTS
    Calls,          \* requests
    Providers,      \* providers to look at
    PolicySet,      \* providers whose class sets retry_policy (none does today)
    MaxAttempts,    \* RetryPolicy.max_attempts
    MaxFaults       \* bound: deaths of the process

ASSUME ProviderAssumption == Providers \subseteq DOMAIN Capabilities
ASSUME AttemptAssumption == MaxAttempts \in Nat \ {0} /\ MaxFaults \in Nat

VARIABLES
    provider,       \* the provider called; never changes
    connection,     \* its integration_connections row
    credentials,    \* its rows in credentials: none, one, or several (2)
    call,           \* local state of each request
    clients,        \* calls whose provider instance has a client or engine open
    audit,          \* calls with a committed audit record
    faults,         \* bounded by MaxFaults
    standing,       \* history: writes of each call that stand at the provider
    connected       \* history: calls during which the connection was active

vars == <<provider, connection, credentials, call, clients, audit, faults, standing, connected>>
store == <<connection, credentials>>

Blobs == {"null", "empty", "usable"}    \* of encrypted_credentials
Connection == [state : {"none", "active", "inactive"}, blob : Blobs]

Request == [via : Vias \cup {"unbound"}, steps : Seq(Steps)]
Unbound == [via |-> "unbound", steps |-> <<>>]

Points == {"idle", "accepted", "fallback", "running", "sent", "executed",
           "closing", "auditing", "answered", "dead"}
Outcomes == {"none", "ok", "invalid", "refused", "unbound", "failed"}
Call == [pc : Points,
         op : {"none", "execute", "validate"},
         fits : BOOLEAN,            \* until bound: the payload is as the schema says
         request : Request,
         at : Nat,                  \* the step of request that is next
         attempts : Nat,            \* of that step
         outcome : Outcomes]

Idle == [pc |-> "idle", op |-> "none", fits |-> FALSE, request |-> Unbound, at |-> 1,
         attempts |-> 0, outcome |-> "none"]

TypeOK ==
    /\ provider \in Providers
    /\ connection \in Connection /\ credentials \in 0..2
    /\ call \in [Calls -> Call]
    /\ clients \subseteq Calls /\ audit \subseteq Calls /\ connected \subseteq Calls
    /\ faults \in Nat
    /\ standing \in [Calls -> Nat]

Init ==
    /\ provider \in Providers
    /\ connection = [state |-> "none", blob |-> "null"]
    /\ credentials = 0
    /\ call = [c \in Calls |-> Idle]
    /\ clients = {} /\ audit = {} /\ faults = 0
    /\ standing = [c \in Calls |-> 0]
    /\ connected = {}

-----------------------------------------------------------------------------
(* Payloads.                                                               *)

Listed == DOMAIN Capabilities[provider]
Dispatch == DOMAIN Methods[provider] \ {"validate_connection"}

\* validate_payload raises ValidationError: a required key is missing.
Missing(a, fields) ==
    /\ a \in Listed
    /\ ~ (Capabilities[provider][a].required \subseteq fields)

\* What the capability tells a client to send.
Described(a, fields) ==
    /\ a \in Listed
    /\ ~ Missing(a, fields)
    /\ fields \subseteq Capabilities[provider][a].properties

\* handler(**payload) takes the fields.
TakesNoOptional(a, fields) == Methods[provider][a].needs = fields
Takes(a, fields) ==
    LET m == Methods[provider][a] IN
    /\ m.needs \subseteq fields
    /\ m.open \/ fields \subseteq m.takes

\* What execute_action will run: nothing if the action is unknown or does not
\* take the payload.
Bound(a, fields) ==
    IF a \in Dispatch /\ Takes(a, fields)
    THEN [via |-> Methods[provider][a].via, steps |-> Methods[provider][a].steps]
    ELSE Unbound

\* The least and the largest payload a capability describes, and the nearest
\* ones it does not: a required key left out, a key added.
Payloads(a) ==
    IF a \notin Listed THEN {{}}
    ELSE LET c == Capabilities[provider][a] IN
         {c.required, c.properties, c.properties \cup {"undeclared"}}
            \cup {c.required \ {k} : k \in c.required}

-----------------------------------------------------------------------------
(* A request up to its provider instance.                                  *)

To(c, pc) == call' = [call EXCEPT ![c].pc = pc]
Answer(c, outcome) ==
    call' = [call EXCEPT ![c].pc = "answered", ![c].outcome = outcome]
Active == connection.state = "active"

validate_payload(c) ==
    /\ call[c].pc = "idle"
    /\ \E a \in Listed \cup {"unlisted"} : \E fields \in Payloads(a) :
          IF Missing(a, fields)
          THEN Answer(c, "invalid")
          ELSE call' = [call EXCEPT ![c] = [Idle EXCEPT
                  !.pc = "accepted", !.op = "execute",
                  !.fits = Described(a, fields), !.request = Bound(a, fields)]]
    /\ connected' = IF Active THEN connected \cup {c} ELSE connected
    /\ UNCHANGED <<provider, store, clients, audit, faults, standing>>

validate(c) ==
    /\ call[c].pc = "idle"
    /\ LET m == Methods[provider]["validate_connection"] IN
       call' = [call EXCEPT ![c] = [Idle EXCEPT
           !.pc = "accepted", !.op = "validate",
           !.request = [via |-> m.via, steps |-> m.steps]]]
    /\ connected' = IF Active THEN connected \cup {c} ELSE connected
    /\ UNCHANGED <<provider, store, clients, audit, faults, standing>>

\* The instance is built and the handler called: ActionNotFound, or TypeError
\* of the call, or it runs.
Bind(c) ==
    call' = [call EXCEPT ![c] =
        IF @.request = Unbound THEN [@ EXCEPT !.pc = "closing", !.outcome = "unbound"]
        ELSE [@ EXCEPT !.pc = "running", !.fits = FALSE]]

\* get_connection selects the row only while it is active; _build_provider
\* takes the blob as loaded.  NULL is an error; an empty one has the
\* credential store asked.
SelectedAny == connection.state # "none"
Selected == Active

get_connection(c) ==
    /\ call[c].pc = "accepted"
    /\ CASE ~ Selected \/ connection.blob = "null" -> Answer(c, "refused")
         [] Selected /\ connection.blob = "usable" -> Bind(c)
         [] Selected /\ connection.blob = "empty" -> To(c, "fallback")
    /\ UNCHANGED <<provider, store, clients, audit, faults, standing, connected>>

\* decrypt_for: no row and several rows are errors.
_build_provider(c) ==
    /\ call[c].pc = "fallback"
    /\ IF credentials = 1 THEN Bind(c) ELSE Answer(c, "refused")
    /\ UNCHANGED <<provider, store, clients, audit, faults, standing, connected>>

-----------------------------------------------------------------------------
(* The action.                                                             *)

Closing(c, outcome) ==
    call' = [call EXCEPT ![c].pc = "closing", ![c].outcome = outcome]
Advance(c) ==
    call' = [call EXCEPT ![c].pc = "running", ![c].at = @ + 1, ![c].attempts = 0]
Step(c) == call[c].request.steps[call[c].at]
AtEnd(c) == call[c].at > Len(call[c].request.steps)

\* A step raises: a "probe" swallows every error, an "attempt" some of them.
Raises(c) ==
    \/ Step(c) \in {"probe", "attempt"} /\ Advance(c)
    \/ Step(c) # "probe" /\ Closing(c, "failed")

\* Before a request is sent: a field of the credentials is missing, an argument
\* is refused, the breaker is open; always so where retry_policy is no policy.
RaisesBefore(c) ==
    /\ call[c].pc = "running" /\ ~ AtEnd(c)
    /\ Raises(c)
    /\ UNCHANGED <<provider, store, clients, audit, faults, standing, connected>>

\* The first request opens the instance's client or engine.
Sends(c) ==
    /\ call[c].pc = "running" /\ ~ AtEnd(c)
    /\ call[c].request.via = "http" => provider \in PolicySet
    /\ call' = [call EXCEPT ![c].pc = "sent", ![c].attempts = 1]
    /\ clients' = clients \cup {c}
    /\ UNCHANGED <<provider, store, audit, faults, standing, connected>>

InTransaction(c) == call[c].request.via \in {"commit", "session"}
Written(request, k) == Cardinality({i \in 1..k : request.steps[i] = "write"})
Writes(request) == Written(request, Len(request.steps))
Lands(c) == standing' = [standing EXCEPT ![c] = @ + 1]

Succeeds(c) ==
    /\ call[c].pc = "sent"
    /\ IF Step(c) = "write" /\ InTransaction(c)
       THEN To(c, "executed") /\ UNCHANGED standing
       ELSE /\ Advance(c)
            /\ IF Step(c) = "write" THEN Lands(c) ELSE UNCHANGED standing
    /\ UNCHANGED <<provider, store, clients, audit, faults, connected>>

\* The session of a Postgres action, and of MySQL's execute_query, ends
\* without a COMMIT: what was executed is rolled back.
ClosesSession(c) ==
    /\ call[c].pc = "executed" /\ call[c].request.via = "session"
    /\ Advance(c)
    /\ UNCHANGED <<provider, store, clients, audit, faults, standing, connected>>

commitForgotten(c) ==
    /\ call[c].pc = "executed" /\ call[c].request.via = "commit"
    /\ Advance(c)
    /\ UNCHANGED <<provider, store, clients, audit, faults, standing, connected>>

commit(c) ==
    /\ call[c].pc = "executed" /\ call[c].request.via = "commit"
    /\ Advance(c) /\ Lands(c)
    /\ UNCHANGED <<provider, store, clients, audit, faults, connected>>

\* What an error answer, or a timeout, hides: a write may have been done.
MayHaveLanded(c) ==
    \/ UNCHANGED standing
    \/ /\ Step(c) = "write"
       /\ call[c].request.via \notin {"commit", "session"} \/ call[c].pc = "executed"
       /\ Lands(c)

\* with_retry resends after 429 and 5xx while attempts are left.
Resends(c, most) ==
    /\ call[c].pc = "sent" /\ call[c].request.via = "http"
    /\ call[c].attempts < most
    /\ MayHaveLanded(c)
    /\ call' = [call EXCEPT ![c].attempts = @ + 1]
    /\ UNCHANGED <<provider, store, clients, audit, faults, connected>>

RetriesBeyond(c) == Resends(c, MaxAttempts + 1)
Retries(c) == Resends(c, MaxAttempts)

Fails(c) ==
    /\ call[c].pc = "sent" \/ (call[c].pc = "executed" /\ call[c].request.via = "commit")
    /\ Raises(c)
    /\ MayHaveLanded(c)
    /\ UNCHANGED <<provider, store, clients, audit, faults, connected>>

Returns(c) ==
    /\ call[c].pc = "running" /\ AtEnd(c)
    /\ Closing(c, "ok")
    /\ UNCHANGED <<provider, store, clients, audit, faults, standing, connected>>

\* disconnect of the provider instance, in the finally block of the manager.
ReleasedIfOk(c) == IF call[c].outcome = "ok" THEN {c} ELSE {}
Released(c) == {c}

disconnect(c) ==
    /\ call[c].pc = "closing"
    /\ clients' = clients \ Released(c)
    /\ To(c, IF call[c].outcome = "ok" /\ call[c].op = "execute" THEN "auditing" ELSE "answered")
    /\ UNCHANGED <<provider, store, audit, faults, standing, connected>>

\* AuditService.record commits before the answer; if it fails the request does.
RecordedOperation(c) == {call[c].op}
Recorded(c) == {c}

record(c) ==
    /\ call[c].pc = "auditing"
    /\ audit' = audit \cup Recorded(c)
    /\ To(c, "answered")
    /\ UNCHANGED <<provider, store, clients, faults, standing, connected>>

RecordFails(c) ==
    /\ call[c].pc = "auditing"
    /\ Answer(c, "failed")
    /\ UNCHANGED <<provider, store, clients, audit, faults, standing, connected>>

-----------------------------------------------------------------------------
(* Other requests, and the process.                                        *)

InFlight == {c \in Calls : call[c].pc \notin {"idle", "answered", "dead"}}

\* An OAuth callback; for the other providers nothing in the code creates the
\* row, somebody with access to the database has to.
Connect ==
    /\ connection.state = "none"
    /\ \E blob \in IF provider \in OAuthProviders THEN {"usable"} ELSE {"usable", "empty"} :
          connection' = [state |-> "active", blob |-> blob]
    /\ connected' = connected \cup InFlight
    /\ UNCHANGED <<provider, credentials, call, clients, audit, faults, standing>>

\* disconnect, or a revocation, which clears the blob too.
Disconnect ==
    /\ Active
    /\ \E blob \in {connection.blob, "null"} :
          connection' = [state |-> "inactive", blob |-> blob]
    /\ UNCHANGED <<provider, credentials, call, clients, audit, faults, standing, connected>>

\* POST /credentials under one name and another, DELETE /credentials.  (An OAuth
\* provider's connection is never empty, so nobody looks at its rows.)
StoreCredential ==
    /\ provider \notin OAuthProviders
    /\ credentials < 2
    /\ credentials' = credentials + 1
    /\ UNCHANGED <<provider, connection, call, clients, audit, faults, standing, connected>>

DeleteCredential ==
    /\ credentials = 1
    /\ credentials' = 0
    /\ UNCHANGED <<provider, connection, call, clients, audit, faults, standing, connected>>

\* The process dies with the calls in flight; what had been sent may arrive.
Unanswered == {c \in Calls : \/ call[c].pc = "sent" /\ ~ InTransaction(c) /\ Step(c) = "write"
                             \/ call[c].pc = "executed" /\ call[c].request.via = "commit"}
Crash ==
    /\ faults < MaxFaults /\ InFlight # {}
    /\ faults' = faults + 1
    /\ call' = [c \in Calls |-> IF c \in InFlight THEN [call[c] EXCEPT !.pc = "dead"]
                                ELSE call[c]]
    /\ clients' = {}
    /\ \E landed \in SUBSET Unanswered :
          standing' = [c \in Calls |-> IF c \in landed THEN standing[c] + 1 ELSE standing[c]]
    /\ UNCHANGED <<provider, store, audit, connected>>

-----------------------------------------------------------------------------
Proceed(c) ==
    \/ get_connection(c) \/ _build_provider(c)
    \/ RaisesBefore(c) \/ Sends(c) \/ Succeeds(c) \/ Retries(c) \/ Fails(c)
    \/ commit(c) \/ ClosesSession(c)
    \/ Returns(c) \/ disconnect(c) \/ record(c) \/ RecordFails(c)

Next ==
    \/ \E c \in Calls : validate_payload(c) \/ validate(c) \/ Proceed(c)
    \/ Connect \/ Disconnect \/ StoreCredential \/ DeleteCredential
    \/ Crash

Spec == Init /\ [][Next]_vars

-----------------------------------------------------------------------------
(* Properties.                                                             *)

\* A payload that follows the action's published schema is one its method
\* takes, for every action of every provider: no client that reads
\* GET /integrations/{provider}/capabilities runs into a TypeError.
DescribedIsBound == \A c \in Calls : call[c].fits => call[c].outcome # "unbound"

\* A call that ended well has done each of its writes, and without a retry
\* policy exactly once (SQL sessions without a COMMIT apart).
OkIsDone ==
    \A c \in Calls :
        call[c].outcome = "ok" /\ call[c].request.via # "session" =>
            LET n == Writes(call[c].request) IN
            IF call[c].request.via = "http" THEN standing[c] >= n ELSE standing[c] = n

\* The audit trail is true: an execution that was answered as successful is
\* recorded, and whatever is recorded was done by a request during which the
\* connection was active at some time.
AuditIsTrue ==
    \A c \in Calls :
        /\ call[c].pc = "answered" /\ call[c].op = "execute" /\ call[c].outcome = "ok"
              => c \in audit
        /\ c \in audit => call[c].outcome = "ok" /\ c \in connected

\* Whichever way a request ends, the client or engine of its provider instance
\* is closed.
ReleasedAtEnd == \A c \in clients : c \in InFlight

\* However a call ends, by an error, a lost answer or the death of the process,
\* no write of it was done more often than the code may send it: once, and under
\* a retry policy max_attempts times.  (A client that asks again after an error
\* relies on this.)
Sendings(request) == IF request.via = "http" THEN MaxAttempts ELSE 1
NoWriteTooOften == \A c \in Calls : standing[c] <= Sendings(call[c].request) * Writes(call[c].request)

\* src/providers/postgres/__init__.py:53, "Insert a row into a table and return
\* it": a write that was answered as done is done.
AnsweredIsDone ==
    \A c \in Calls : call[c].pc = "answered" /\ call[c].outcome = "ok" =>
        standing[c] >= Writes(call[c].request)

\* src/services/audit_service.py:14, the "integration audit trail": what was
\* done at a provider is recorded in the end.
DoneIsAudited ==
    \A c \in Calls : standing[c] > 0 /\ call[c].pc \in {"answered", "dead"} => c \in audit
=============================================================================
