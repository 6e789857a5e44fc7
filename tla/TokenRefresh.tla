--------------------------- MODULE TokenRefresh ---------------------------
(***************************************************************************)
(* The refresh batch (src/services/token_refresh.py) over many connections,*)
(* with refreshes of single connections at the same time.  A batch loads   *)
(* all its rows at once and refreshes them one by one: the session keeps   *)
(* what it loaded, so the refresh token it sends for the last connection   *)
(* is as old as the batch.  Many providers answer with a new refresh token *)
(* and no longer take the old one.                                         *)
(*                                                                         *)
(* Of a refresh token only one thing matters, whether the provider still   *)
(* takes it: good[c] is the set of places that hold such a copy.           *)
(***************************************************************************)
EXTENDS Naturals, FiniteSets

CONSTANTS
    Connections,    \* active connections with stored credentials
    Unrefreshable,  \* those whose credentials have no refresh_token
    Rotates,        \* those whose provider replaces the refresh token it took
    Timeless,       \* those whose token responses have no expires_in
    Workers,        \* concurrent sessions
    Limit,          \* limit of refresh_ending_tokens
    MaxManual,      \* bound: refreshes of single connections
    MaxFaults,      \* bound: crashes and failed requests
    Row,            \* the connection's row, as a place of a token
    None            \* no connection

ASSUME ConnectionsAssumption ==
    /\ Unrefreshable \subseteq Connections
    /\ Rotates \subseteq Connections
    /\ Timeless \subseteq Connections
ASSUME LimitAssumption == Limit \in Nat \ {0}
ASSUME BoundAssumption == MaxManual \in Nat /\ MaxFaults \in Nat
ASSUME PlaceAssumption == Row \notin Workers /\ None \notin Connections

VARIABLES
    due,        \* connections whose expires_at is NULL or has passed
    good,       \* places with a refresh token the provider takes
    worker,     \* local state of each session
    manual,     \* refreshes of single connections so far (bounded by MaxManual)
    faults      \* faults so far (bounded by MaxFaults)

vars == <<due, good, worker, manual, faults>>

Places == Workers \cup {Row}

WorkerState == [pc : {"idle", "next", "sent", "answered"},
                batch : SUBSET Connections,     \* still to be refreshed
                target : Connections \cup {None}]

Idle == [pc |-> "idle", batch |-> {}, target |-> None]

TypeOK ==
    /\ due \subseteq Connections
    /\ good \in [Connections -> SUBSET Places]
    /\ worker \in [Workers -> WorkerState]
    /\ manual \in Nat
    /\ faults \in Nat

\* Connected some time ago, with the tokens of the callback.
Init ==
    /\ due = Timeless
    /\ good = [c \in Connections |-> IF c \in Unrefreshable THEN {} ELSE {Row}]
    /\ worker = [w \in Workers |-> Idle]
    /\ manual = 0
    /\ faults = 0

-----------------------------------------------------------------------------

\* expires_at passes.
Expire(c) ==
    /\ c \notin due
    /\ due' = due \cup {c}
    /\ UNCHANGED <<good, worker, manual, faults>>

\* A session loads rows: it has a copy of whatever token each of them holds.
Load(w, batch) ==
    /\ worker[w].pc = "idle"
    /\ worker' = [worker EXCEPT ![w] = [Idle EXCEPT !.pc = "next", !.batch = batch]]
    /\ good' = [c \in Connections |->
                   IF c \in batch /\ Row \in good[c] THEN good[c] \cup {w} ELSE good[c]]

\* A SELECT ... LIMIT n without ORDER BY may return any n of the matching rows.
Selections(matching, n) ==
    {b \in SUBSET matching : /\ Cardinality(b) <= n
                             /\ b # matching => Cardinality(b) = n}

Due == due

refresh_ending_tokens(w) ==
    /\ Due # {}
    /\ \E b \in Selections(Due, Limit) : Load(w, b)
    /\ UNCHANGED <<due, manual, faults>>

\* refresh_single_token_task, and _try_refresh of the integration manager.
refresh_single_token(w, c) ==
    /\ manual < MaxManual
    /\ manual' = manual + 1
    /\ Load(w, {c})
    /\ UNCHANGED <<due, faults>>

\* What a session does after connection c: the next one of the batch, or the end.
AfterMisspelt(w, c) == [Idle EXCEPT !.pc = "done"]
After(w, c) ==
    LET rest == worker[w].batch \ {c} IN
    [Idle EXCEPT !.pc = IF rest = {} THEN "idle" ELSE "next", !.batch = rest]

\* The session no longer uses its copy of c's token.
Dropped(w, c) == [good EXCEPT ![c] = @ \ {w}]

\* No refresh_token stored: TokenExpired, swallowed by the loop.
NoRefreshToken(w, c) ==
    /\ worker[w].pc = "next"
    /\ c \in worker[w].batch \cap Unrefreshable
    /\ worker' = [worker EXCEPT ![w] = After(w, c)]
    /\ good' = Dropped(w, c)
    /\ UNCHANGED <<due, manual, faults>>

refresh_access_token(w, c) ==
    /\ worker[w].pc = "next"
    /\ c \in worker[w].batch \ Unrefreshable
    /\ worker' = [worker EXCEPT ![w].pc = "sent", ![w].target = c]
    /\ UNCHANGED <<due, good, manual, faults>>

\* The copies of c's token that are good once the provider has taken w's.
Taken(w, c) == IF c \in Rotates THEN [good EXCEPT ![c] = {w}] ELSE good

\* The provider takes the token; from here on w holds the answer's tokens.
Granted(w) ==
    /\ worker[w].pc = "sent"
    /\ w \in good[worker[w].target]
    /\ good' = Taken(w, worker[w].target)
    /\ worker' = [worker EXCEPT ![w].pc = "answered"]
    /\ UNCHANGED <<due, manual, faults>>

\* A status of 400 or more for a token that is no longer good: swallowed too.
Rejected(w) ==
    LET c == worker[w].target IN
    /\ worker[w].pc = "sent"
    /\ w \notin good[c]
    /\ worker' = [worker EXCEPT ![w] = After(w, c)]
    /\ UNCHANGED <<due, good, manual, faults>>

\* An httpx.HTTPError or a failing provider, which may have taken the token.
RequestFails(w, taken) ==
    LET c == worker[w].target IN
    /\ worker[w].pc = "sent"
    /\ faults < MaxFaults
    /\ faults' = faults + 1
    /\ good' = IF taken /\ w \in good[c] /\ c \in Rotates
               THEN [good EXCEPT ![c] = {}] ELSE Dropped(w, c)
    /\ worker' = [worker EXCEPT ![w] = After(w, c)]
    /\ UNCHANGED <<due, manual>>

NotWritten(w, c) == good
AccessTokenOnly(w, c) == Dropped(w, c)
\* The row after the COMMIT has the answer's refresh token, or the one w loaded.
Committed(w, c) ==
    [good EXCEPT ![c] = IF w \in @ THEN (@ \cup {Row}) \ {w} ELSE @ \ {Row}]

NewExpiry(c) == IF c \in Timeless THEN due ELSE due \ {c}

CommitRefresh(w) ==
    LET c == worker[w].target IN
    /\ worker[w].pc = "answered"
    /\ good' = Committed(w, c)
    /\ due' = NewExpiry(c)
    /\ worker' = [worker EXCEPT ![w] = After(w, c)]
    /\ UNCHANGED <<manual, faults>>

Crash(w) ==
    /\ worker[w].pc # "idle"
    /\ faults < MaxFaults
    /\ faults' = faults + 1
    /\ good' = [c \in Connections |-> good[c] \ {w}]
    /\ worker' = [worker EXCEPT ![w] = Idle]
    /\ UNCHANGED <<due, manual>>

-----------------------------------------------------------------------------

\* Steps a session takes by itself.
Proceed(w) ==
    \/ \E c \in Connections : NoRefreshToken(w, c) \/ refresh_access_token(w, c)
    \/ Granted(w)
    \/ Rejected(w)
    \/ \E taken \in BOOLEAN : RequestFails(w, taken)
    \/ CommitRefresh(w)

Next ==
    \/ \E c \in Connections : Expire(c)
    \/ \E w \in Workers :
          \/ refresh_ending_tokens(w)
          \/ \E c \in Connections : refresh_single_token(w, c)
          \/ Proceed(w)
          \/ Crash(w)

Spec == Init /\ [][Next]_vars

-----------------------------------------------------------------------------
(* Properties.                                                             *)

\* However batches and single refreshes overlap, none of them throws away the
\* last refresh token the provider takes: only a crash or a failed request does.
LostOnlyByFault ==
    [][\A c \in Connections :
          good[c] # {} /\ good'[c] = {} => faults' = faults + 1]_vars

\* A token that came with an answer is in the row once its session is done: when
\* nothing is in flight for a connection, its row can be refreshed if anything
\* can.
UsableIsStored ==
    \A c \in Connections :
        (good[c] # {} /\ \A w \in Workers : ~(worker[w].pc = "answered" /\ worker[w].target = c))
            => Row \in good[c]
=============================================================================
