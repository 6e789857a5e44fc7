-------------------------- MODULE OAuthConnection --------------------------
(***************************************************************************)
(* One workspace's OAuth connection to one provider (oauth_service.py,     *)
(* integration_manager.py and token_refresh.py of src/services, with their *)
(* routes): authorization, callback, refresh, revocation and               *)
(* disconnection, each a session that reads a row, talks to the provider,  *)
(* and commits later what it changed in the row it had read.               *)
(*                                                                         *)
(* A callback with a state that is unknown, deleted or consumed, and a     *)
(* refresh or revocation without stored tokens, end without an effect.     *)
(***************************************************************************)
EXTENDS Naturals

CONSTANTS
    States,             \* oauth_states rows that may come to exist
    Workers,            \* concurrent sessions
    RevokeUrl,          \* values provider_cls.oauth_revoke_url may have: set or not
    MaxDeletions,       \* bound: deletions of the credentials row
    MaxRefreshes,       \* bound: refreshes of one grant
    MaxFaults,          \* bound: crashes and requests without an answer
    None                \* no token, no state

ASSUME FlagAssumption == RevokeUrl \subseteq BOOLEAN
ASSUME NoneAssumption == None \notin [grant : States, gen : Nat]
ASSUME BoundAssumption == MaxDeletions \in Nat /\ MaxRefreshes \in Nat /\ MaxFaults \in Nat

VARIABLES
    has_revoke_url, \* oauth_revoke_url of the provider's class; never changes
    oauth_state,    \* each oauth_states row
    expired,        \* states whose expires_at has passed
    connection,     \* the integration_connections row
    credential,     \* token in the credentials row "oauth_default", or None
    cleaning,       \* oauth_states rows the clean-up has selected
    worker,         \* local state of each session
    uses,           \* history: callbacks that stored tokens, for each state
    dropped,        \* history: states whose tokens a conflict threw away
    deletions,      \* deletions of the credentials row (bounded by MaxDeletions)
    faults          \* faults so far (bounded by MaxFaults)

vars == <<has_revoke_url, oauth_state, expired, connection, credential, cleaning, worker,
          uses, dropped, deletions, faults>>

\* What is decrypted from encrypted_credentials: tokens of the authorization
\* that began with state "grant", refreshed "gen" times.
Tokens == [grant : States, gen : Nat]

Connections == [status : {"absent", "connected", "revoked", "disconnected"},
                active : BOOLEAN,
                token : Tokens \cup {None}]

WorkerState == [pc : {"idle", "exchange", "store", "refresh", "revoke_local",
                      "revoke", "disconnect"},
                state : States \cup {None},     \* of a callback
                seen : Connections]             \* the row as loaded

NoConnection == [status |-> "absent", active |-> FALSE, token |-> None]
Idle == [pc |-> "idle", state |-> None, seen |-> NoConnection]

TypeOK ==
    /\ has_revoke_url \in RevokeUrl
    /\ oauth_state \in [States -> {"absent", "pending", "consumed", "deleted"}]
    /\ expired \subseteq States
    /\ connection \in Connections
    /\ credential \in Tokens \cup {None}
    /\ cleaning \subseteq States
    /\ worker \in [Workers -> WorkerState]
    /\ uses \in [States -> Nat]
    /\ dropped \subseteq States
    /\ deletions \in Nat
    /\ faults \in Nat

Init ==
    /\ has_revoke_url \in RevokeUrl
    /\ oauth_state = [s \in States |-> "absent"]
    /\ expired = {}
    /\ connection = NoConnection
    /\ credential = None
    /\ cleaning = {}
    /\ worker = [w \in Workers |-> Idle]
    /\ uses = [s \in States |-> 0]
    /\ dropped = {}
    /\ deletions = 0
    /\ faults = 0

-----------------------------------------------------------------------------
(* Authorization and callback.                                             *)

create_authorization_url(s) ==
    /\ oauth_state[s] = "absent"
    /\ oauth_state' = [oauth_state EXCEPT ![s] = "pending"]
    /\ UNCHANGED <<expired, connection, credential, worker, uses, dropped, deletions, faults>>

\* OAUTH_STATE_TTL_SECONDS have passed.
Expire(s) ==
    /\ oauth_state[s] # "absent"
    /\ s \notin expired
    /\ expired' = expired \cup {s}
    /\ UNCHANGED <<oauth_state, connection, credential, worker, uses, dropped, deletions, faults>>

\* _consume_state: the row is marked in the session, not yet in the database.
handle_callback(w, s) ==
    /\ worker[w].pc = "idle"
    /\ oauth_state[s] = "pending"
    /\ s \notin expired
    /\ worker' = [worker EXCEPT ![w] = [Idle EXCEPT !.pc = "exchange", !.state = s]]
    /\ UNCHANGED <<oauth_state, expired, connection, credential, uses, dropped, deletions, faults>>

\* _consume_state of an expired state: marked and committed at once.
ExpiredState(s) ==
    /\ oauth_state[s] = "pending"
    /\ s \in expired
    /\ oauth_state' = [oauth_state EXCEPT ![s] = "consumed"]
    /\ UNCHANGED <<expired, connection, credential, worker, uses, dropped, deletions, faults>>

\* _exchange_code returns an access token.
Exchanged(w) ==
    /\ worker[w].pc = "exchange"
    /\ worker' = [worker EXCEPT ![w].pc = "store"]
    /\ UNCHANGED <<oauth_state, expired, connection, credential, uses, dropped, deletions, faults>>

\* OAuthFailed: the audit record's COMMIT also stores the consumed mark.  When
\* the row is gone the COMMIT fails as a whole.
ExchangeRefused(w) ==
    LET s == worker[w].state IN
    /\ worker[w].pc = "exchange"
    /\ oauth_state' = [oauth_state EXCEPT ![s] = IF @ = "deleted" THEN @ ELSE "consumed"]
    /\ worker' = [worker EXCEPT ![w] = Idle]
    /\ UNCHANGED <<expired, connection, credential, uses, dropped, deletions, faults>>

UpsertedMisspelt(token) ==
    [status |-> "connect", token |-> token,
     active |-> IF connection.status = "absent" THEN TRUE ELSE connection.active]

\* The row uq_workspace_provider allows once: inserted active, or updated with
\* is_active as it was.
Upserted(token) ==
    [status |-> "connected", token |-> token,
     active |-> IF connection.status = "absent" THEN TRUE ELSE connection.active]

\* The states table after the COMMIT of a callback.
NotMarked(s) == oauth_state
Marked(s) == [oauth_state EXCEPT ![s] = "consumed"]

\* uq_ws_provider_name: _persist_credential always inserts.
AnyCredential == TRUE
Insertable == credential = None

\* _upsert_connection, _persist_credential and the COMMIT.  The upsert locks the
\* connection's row, so to others all of it happens at the COMMIT.
Stored(w) ==
    LET s == worker[w].state
        token == [grant |-> s, gen |-> 0] IN
    /\ worker[w].pc = "store"
    /\ Insertable
    /\ oauth_state[s] # "deleted"
    /\ connection' = Upserted(token)
    /\ credential' = token
    /\ oauth_state' = Marked(s)
    /\ uses' = [uses EXCEPT ![s] = @ + 1]
    /\ worker' = [worker EXCEPT ![w] = Idle]
    /\ UNCHANGED <<expired, dropped, deletions, faults>>

\* IntegrityError, or StaleDataError when the state's row was deleted: all of it
\* is rolled back, the state stays as it was and the provider's tokens are lost.
NotStored(w) ==
    /\ worker[w].pc = "store"
    /\ ~Insertable \/ oauth_state[worker[w].state] = "deleted"
    /\ dropped' = IF Insertable THEN dropped ELSE dropped \cup {worker[w].state}
    /\ worker' = [worker EXCEPT ![w] = Idle]
    /\ UNCHANGED <<oauth_state, expired, connection, credential, uses, deletions, faults>>

Spent == {s \in States : \/ oauth_state[s] = "consumed"
                         \/ oauth_state[s] = "pending" /\ s \in expired}

\* Consumed and expired rows are selected (anew, if the last run died) ...
cleanup_expired_states ==
    /\ Spent \notin {{}, cleaning}
    /\ cleaning' = Spent
    /\ UNCHANGED <<oauth_state, expired, connection, credential, worker, uses, dropped, deletions,
                   faults>>

\* ... and deleted in one COMMIT.
CommitCleanup ==
    /\ cleaning # {}
    /\ oauth_state' = [s \in States |-> IF s \in cleaning THEN "deleted" ELSE oauth_state[s]]
    /\ cleaning' = {}
    /\ UNCHANGED <<expired, connection, credential, worker, uses, dropped, deletions, faults>>

\* CredentialService.delete, and cleanup_expired_credentials on an expired row.
delete_credential ==
    /\ credential # None
    /\ deletions < MaxDeletions
    /\ deletions' = deletions + 1
    /\ credential' = None
    /\ UNCHANGED <<oauth_state, expired, connection, worker, uses, dropped, faults>>

-----------------------------------------------------------------------------
(* Refresh, revocation, disconnection: SELECT, request, COMMIT.            *)

Load(w, pc) ==
    /\ worker[w].pc = "idle"
    /\ worker' = [worker EXCEPT ![w] = [Idle EXCEPT !.pc = pc, !.seen = connection]]
    /\ UNCHANGED <<oauth_state, expired, connection, credential, uses, dropped, deletions, faults>>

\* refresh_access_token, for the hourly task or refresh_single_token: neither
\* the status nor is_active is looked at.
refresh_access_token(w) ==
    /\ connection.token # None
    /\ connection.token.gen < MaxRefreshes
    /\ Load(w, "refresh")

\* A session's UPDATE has a column only if its value differs from the loaded one.
Flushed(loaded, new, stored) == IF new = loaded THEN stored ELSE new

RefreshedReconnects(seen) ==
    [connection EXCEPT !.token = [seen.token EXCEPT !.gen = @ + 1], !.status = "connected"]
Refreshed(seen) == [connection EXCEPT !.token = [seen.token EXCEPT !.gen = @ + 1]]

CommitRefresh(w) ==
    /\ worker[w].pc = "refresh"
    /\ connection' = Refreshed(worker[w].seen)
    /\ worker' = [worker EXCEPT ![w] = Idle]
    /\ UNCHANGED <<oauth_state, expired, credential, uses, dropped, deletions, faults>>

\* TokenExpired: the request failed or was refused, nothing is committed.
RefreshFails(w) ==
    /\ worker[w].pc = "refresh"
    /\ worker' = [worker EXCEPT ![w] = Idle]
    /\ UNCHANGED <<oauth_state, expired, connection, credential, uses, dropped, deletions, faults>>

revoke_token(w) ==
    /\ connection.status # "absent"
    /\ has_revoke_url => connection.token # None
    /\ Load(w, IF has_revoke_url THEN "revoke" ELSE "revoke_local")

\* IntegrationManager.disconnect finds only an active connection.
disconnect(w) ==
    /\ connection.status # "absent"
    /\ connection.active
    /\ Load(w, "disconnect")

ClosedStatusOnly(seen, status, token) ==
    [connection EXCEPT !.status = Flushed(seen.status, status, @), !.token = token]

\* The row after the COMMIT of a session that loaded it as "seen".
Closed(seen, status, token) ==
    [status |-> Flushed(seen.status, status, connection.status),
     active |-> Flushed(seen.active, FALSE, connection.active),
     token |-> token]

\* Whatever the provider answered to the revocation.
CommitRevoke(w) ==
    /\ worker[w].pc = "revoke"
    /\ connection' = Closed(worker[w].seen, "revoked", None)
    /\ worker' = [worker EXCEPT ![w] = Idle]
    /\ UNCHANGED <<oauth_state, expired, credential, uses, dropped, deletions, faults>>

\* Without a revocation endpoint the tokens stay in the row.
CommitRevokeLocal(w) ==
    /\ worker[w].pc = "revoke_local"
    /\ connection' = Closed(worker[w].seen, "revoked", connection.token)
    /\ worker' = [worker EXCEPT ![w] = Idle]
    /\ UNCHANGED <<oauth_state, expired, credential, uses, dropped, deletions, faults>>

CommitDisconnect(w) ==
    /\ worker[w].pc = "disconnect"
    /\ connection' = Closed(worker[w].seen, "disconnected", connection.token)
    /\ worker' = [worker EXCEPT ![w] = Idle]
    /\ UNCHANGED <<oauth_state, expired, credential, uses, dropped, deletions, faults>>

\* The process dies, or the exchange ends in an httpx.HTTPError: rolled back.
Crash(w) ==
    /\ worker[w].pc # "idle"
    /\ faults < MaxFaults
    /\ faults' = faults + 1
    /\ worker' = [worker EXCEPT ![w] = Idle]
    /\ UNCHANGED <<oauth_state, expired, connection, credential, uses, dropped, deletions>>

-----------------------------------------------------------------------------

Callback(w) ==
    \/ \E s \in States : handle_callback(w, s)
    \/ Exchanged(w)
    \/ ExchangeRefused(w)
    \/ Stored(w)
    \/ NotStored(w)

Maintenance(w) ==
    \/ refresh_access_token(w)
    \/ CommitRefresh(w)
    \/ RefreshFails(w)
    \/ revoke_token(w)
    \/ CommitRevoke(w)
    \/ CommitRevokeLocal(w)
    \/ disconnect(w)
    \/ CommitDisconnect(w)

\* Whatever is not the clean-up.
Elsewhere ==
    /\ UNCHANGED cleaning
    /\ \/ \E s \in States : create_authorization_url(s) \/ Expire(s) \/ ExpiredState(s)
       \/ delete_credential
       \/ \E w \in Workers : Callback(w) \/ Maintenance(w) \/ Crash(w)

Next ==
    /\ UNCHANGED has_revoke_url
    /\ Elsewhere \/ cleanup_expired_states \/ CommitCleanup

Spec == Init /\ [][Next]_vars

-----------------------------------------------------------------------------
(* Properties.                                                             *)

\* However many callbacks overlap, tokens are stored at most once for a state,
\* and once more for each deletion of the credentials row: it is that row's
\* unique name, not the consumed mark, that turns the second callback away.
ReplayNeedsDeletion == \A s \in States : uses[s] <= deletions + 1

\* docs/oauth.md:44, "a one-time token": tokens are stored once for a state.
OneTimeState == \A s \in States : uses[s] <= 1

\* Tokens and the consumed mark of their state are stored together or not at
\* all, whatever fails between the exchange and the COMMIT.
StoredMeansConsumed ==
    \A s \in States : uses[s] > 0 => oauth_state[s] \in {"consumed", "deleted"}

\* A revoked or disconnected connection is inactive, although each session
\* writes only the columns that changed since it read the row.
ClosedIsInactive ==
    connection.status \in {"revoked", "disconnected"} => ~connection.active

\* Only a callback turns a connection on: a refresh that overlaps a revocation
\* may not bring the connection back.
OnlyCallbackConnects ==
    [][connection'.status = "connected" /\ connection.status # "connected"
          => \E w \in Workers : worker[w].pc = "store" /\ worker'[w].pc = "idle"]_vars

\* docs/oauth.md:68, "Local tokens are always destroyed": a revoked connection
\* holds no tokens.
TokensDestroyed == connection.status = "revoked" => connection.token = None

\* docs/oauth.md:34, the callback "upserts" its rows: tokens that were obtained
\* are stored, whether or not the workspace was connected before.
CallbackStores == dropped = {}

\* docs/oauth.md:34-37, "connected=1": a connection reported connected can be
\* used, that is, get_connection finds it.
ConnectedIsUsable == connection.status = "connected" => connection.active
=============================================================================
