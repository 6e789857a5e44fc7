-------------------------- MODULE CredentialStore ---------------------------
(***************************************************************************)
(* The credentials of one workspace and provider: CRUD and rotate_expired  *)
(* (src/services/credential_service.py), the clean-up task                 *)
(* (src/services/token_refresh.py) and the Fernet keys they are encrypted  *)
(* under (src/services/encryption_service.py).                             *)
(*                                                                         *)
(* A session selects rows and commits later what it changed in its copy:   *)
(* an UPDATE has only the columns that differ from what was loaded.  Each  *)
(* session runs in a process of its own, which read its keys when started. *)
(***************************************************************************)
EXTENDS Naturals, FiniteSets

CONSTANTS
    Ids,        \* pool of primary keys (uuid4: never used again)
    Names,      \* credential names, "default" and "oauth_default" among them
    Payloads,   \* what the credentials are
    Expiries,   \* values of expires_at
    Sessions,   \* database sessions, with the process each runs in
    None,       \* NULL
    MaxKey,     \* bound: encryption keys, numbered in the order of their use
    MaxOps      \* bound: requests, manual tasks and restarts

ASSUME NoneAssumption == None \notin Ids \cup Names \cup Payloads \cup Expiries
ASSUME BoundAssumption == MaxKey \in Nat /\ MaxOps \in Nat

VARIABLES
    rows,       \* the table
    passed,     \* expiries that lie in the past
    deployed,   \* ENCRYPTION_KEY and ENCRYPTION_KEY_PREVIOUS as configured now
    keyring,    \* the keys each process has read at its start
    worker,     \* what each session has loaded
    ops,        \* bounded by MaxOps
    last        \* history: payload of the last committed create or update

vars == <<rows, passed, deployed, keyring, worker, ops, last>>
keys == <<deployed, keyring>>

Row == [state : {"unused", "stored", "deleted"}, name : Names \cup {None},
        payload : Payloads \cup {None}, key : Nat,      \* of encrypted_blob
        hash : Payloads \cup {None},        \* what the hash is of
        expires : Expiries \cup {None}]
Ring == [current : Nat, previous : SUBSET Nat]
Operations == {"idle", "update", "delete", "rotate", "cleanup"}
Session == [op : Operations, batch : SUBSET Ids, hash : Payloads \cup {None},
            expires : Expiries \cup {None}, result : {"none", "ambiguous", "unreadable"}]

TypeOK ==
    /\ rows \in [Ids -> Row]
    /\ passed \subseteq Expiries
    /\ deployed \in Ring /\ keyring \in [Sessions -> Ring]
    /\ worker \in [Sessions -> Session]
    /\ ops \in Nat
    /\ last \in [Ids -> Payloads \cup {None}]

Blank(state) == [state |-> state, name |-> None, payload |-> None, key |-> 0,
                 hash |-> None, expires |-> None]
Idle == [op |-> "idle", batch |-> {}, hash |-> None, expires |-> None, result |-> "none"]
FirstRing == [current |-> 0, previous |-> {}]

Init ==
    /\ rows = [i \in Ids |-> Blank("unused")]
    /\ passed = {}
    /\ deployed = FirstRing /\ keyring = [w \in Sessions |-> FirstRing]
    /\ worker = [w \in Sessions |-> Idle]
    /\ ops = 0
    /\ last = [i \in Ids |-> None]

Stored == {i \in Ids : rows[i].state = "stored"}
ExpiredIn(table, now) ==
    {i \in Ids : table[i].state = "stored" /\ table[i].expires \in now}
Counted == ops < MaxOps /\ ops' = ops + 1
Ends(w) == worker' = [worker EXCEPT ![w] = Idle]

-----------------------------------------------------------------------------
(* Encryption.                                                             *)

ReadableByCurrent(ring, key) == key = ring.current
Readable(ring, key) == key \in {ring.current} \cup ring.previous

\* The columns an UPDATE writes: those that differ from what was loaded.
Flushed(new, seen, stored) == IF new = seen THEN stored ELSE new

\* encrypt() takes a random IV: the blob differs from any other, so it is
\* always written.
BlobIfNew(new, seen, stored) == Flushed(new, seen, stored)
Blob(new, seen, stored) == new

-----------------------------------------------------------------------------
(* Requests.                                                               *)

\* create, and _persist_credential of an OAuth callback, which leaves the hash
\* NULL: one INSERT with its COMMIT; uq_ws_provider_name admits a name once.
create(w, n, p, h, e) ==
    /\ worker[w].op = "idle" /\ Counted
    /\ \A j \in Stored : rows[j].name # n
    /\ h = None => n = "oauth_default"
    /\ \E i \in Ids :
          /\ rows[i].state = "unused"
          /\ rows' = [rows EXCEPT ![i] =
                [state |-> "stored", name |-> n, payload |-> p,
                 key |-> keyring[w].current, hash |-> h, expires |-> e]]
          /\ last' = [last EXCEPT ![i] = p]
    /\ Ends(w)
    /\ UNCHANGED <<passed, keys>>

\* get, for update and delete: scalar_one_or_none without the name.
get(w, op) ==
    /\ worker[w].op = "idle" /\ Counted
    /\ \E i \in Ids :
          /\ Stored = {i}
          /\ worker' = [worker EXCEPT ![w] =
                [op |-> op, batch |-> {i}, hash |-> rows[i].hash,
                 expires |-> rows[i].expires, result |-> "none"]]
    /\ UNCHANGED <<rows, passed, keys, last>>

\* MultipleResultsFound: the request fails.
get_raises(w) ==
    /\ worker[w].op = "idle" /\ Counted
    /\ Cardinality(Stored) > 1
    /\ worker' = [worker EXCEPT ![w] = [Idle EXCEPT !.result = "ambiguous"]]
    /\ UNCHANGED <<rows, passed, keys, last>>

\* decrypt_for: whether the process has the key of the row it selects.
decrypt_for(w) ==
    /\ worker[w].op = "idle" /\ Counted
    /\ \E i \in Ids :
          /\ Stored = {i}
          /\ worker' = [worker EXCEPT ![w] = [Idle EXCEPT !.result =
                IF Readable(keyring[w], rows[i].key) THEN "none" ELSE "unreadable"]]
    /\ UNCHANGED <<rows, passed, keys, last>>

\* What an UPDATE of session w makes of a row: payload p, expiry e.
Updated(w, row, p, e) ==
    LET seen == worker[w] IN
    [row EXCEPT !.payload = Blob(p, seen.hash, @),
                !.key = keyring[w].current,
                !.hash = Flushed(p, seen.hash, @),
                !.expires = Flushed(e, seen.expires, @)]

update(w, p, e) ==
    /\ worker[w].op = "update"
    /\ \E i \in worker[w].batch :
          /\ rows[i].state = "stored"
          /\ rows' = [rows EXCEPT ![i] = Updated(w, @, p, e)]
          /\ last' = [last EXCEPT ![i] = p]
    /\ Ends(w)
    /\ UNCHANGED <<passed, keys, ops>>

\* The row is gone: StaleDataError and rollback, for a batch of UPDATEs too.
Stale(w) ==
    /\ worker[w].op \in {"update", "rotate"}
    /\ ~ (worker[w].batch \subseteq Stored)
    /\ Ends(w)
    /\ UNCHANGED <<rows, passed, keys, ops, last>>

Without(gone) ==
    [i \in Ids |-> IF i \in gone THEN Blank("deleted") ELSE rows[i]]

\* A DELETE that finds no row is only warned about.
delete(w) ==
    /\ worker[w].op = "delete"
    /\ rows' = Without(worker[w].batch)
    /\ Ends(w)
    /\ UNCHANGED <<passed, keys, ops, last>>

-----------------------------------------------------------------------------
(* Tasks: SELECT of what has expired, then one COMMIT for the batch.       *)

Selectable == ExpiredIn(rows, passed)

select_expired(w, op) ==
    /\ worker[w].op = "idle"
    /\ IF op = "cleanup" THEN Counted ELSE UNCHANGED ops
    /\ Selectable # {}
    /\ worker' = [worker EXCEPT ![w] = [Idle EXCEPT !.op = op, !.batch = Selectable]]
    /\ UNCHANGED <<rows, passed, keys, last>>

RotatedMisspelt(row) == [row EXCEPT !.state = "expired"]
Rotated(row) == [row EXCEPT !.expires = None]

\* Drivers that do not count the rows of a batch pass over a missing one.
rotate_expired(w) ==
    /\ worker[w].op = "rotate"
    /\ rows' = [i \in Ids |-> IF i \in worker[w].batch \cap Stored
                              THEN Rotated(rows[i]) ELSE rows[i]]
    /\ Ends(w)
    /\ UNCHANGED <<passed, keys, ops, last>>

cleanup_expired_credentials(w) ==
    /\ worker[w].op = "cleanup"
    /\ rows' = Without(worker[w].batch)
    /\ Ends(w)
    /\ UNCHANGED <<passed, keys, ops, last>>

\* Time: an expiry passes.
Expire(e) ==
    /\ e \notin passed
    /\ passed' = passed \cup {e}
    /\ UNCHANGED <<rows, keys, worker, ops, last>>

-----------------------------------------------------------------------------
(* Key rotation, as docs/security.md:14-17 has the operator do it.         *)

\* A new ENCRYPTION_KEY; the old one joins ENCRYPTION_KEY_PREVIOUS.
NewKey ==
    /\ deployed.current < MaxKey
    /\ deployed' = [current |-> deployed.current + 1,
                    previous |-> deployed.previous \cup {deployed.current}]
    /\ UNCHANGED <<rows, passed, keyring, worker, ops, last>>

\* A process is started again, whatever its session was doing.
Restart(w) ==
    /\ Counted
    /\ keyring' = [keyring EXCEPT ![w] = deployed]
    /\ Ends(w)
    /\ UNCHANGED <<rows, passed, deployed, last>>

\* re_encrypt of one row by a script that has the deployed keys, in the
\* maintenance window of docs/security.md: no session is at work on the row.
\* (A script that overlaps an update would write back the payload it had read.)
re_encrypt(i) ==
    /\ rows[i].state = "stored"
    /\ Readable(deployed, rows[i].key) /\ rows[i].key # deployed.current
    /\ \A w \in Sessions : i \notin worker[w].batch
    /\ rows' = [rows EXCEPT ![i].key = deployed.current]
    /\ UNCHANGED <<passed, keys, worker, ops, last>>

\* A previous key that no row and no process needs is dropped.  docs/security.md
\* asks for the first half only ("once all data is migrated"); without the second
\* a process that still runs on the retired key writes rows no one can read, and
\* NewestReadsAll is false.
Retire(k) ==
    /\ k \in deployed.previous
    /\ \A i \in Stored : rows[i].key # k
    /\ \A w \in Sessions : keyring[w].current # k
    /\ deployed' = [deployed EXCEPT !.previous = @ \ {k}]
    /\ UNCHANGED <<rows, passed, keyring, worker, ops, last>>

-----------------------------------------------------------------------------
Commit(w) ==
    \/ \E p \in Payloads, e \in Expiries \cup {None} : update(w, p, e)
    \/ Stale(w)
    \/ delete(w)
    \/ rotate_expired(w)
    \/ cleanup_expired_credentials(w)

Begin(w) ==
    \/ \E n \in Names, p \in Payloads, e \in Expiries \cup {None} :
          \E h \in {p, None} : create(w, n, p, h, e)
    \/ \E op \in {"update", "delete"} : get(w, op)
    \/ get_raises(w)
    \/ decrypt_for(w)
    \/ select_expired(w, "cleanup")
    \/ Restart(w)

Operator ==
    \/ NewKey
    \/ \E i \in Ids : re_encrypt(i)
    \/ \E k \in 0..MaxKey : Retire(k)

Next ==
    \/ \E w \in Sessions : Begin(w) \/ Commit(w) \/ select_expired(w, "rotate")
    \/ \E e \in Expiries : Expire(e)
    \/ Operator

Spec == Init /\ [][Next]_vars

-----------------------------------------------------------------------------
(* Properties.                                                             *)

\* Overlapping updates, rotations and re-encryptions never lose or mix up the
\* secret: a row decrypts to what its last committed create or update stored
\* (CredentialService.update, encrypt).
LastWriteIsRead == \A i \in Stored : rows[i].payload = last[i]

\* A process that runs on the deployed keys reads every row, whichever process
\* wrote it and however many keys ago (EncryptionService.decrypt).
NewestReadsAll ==
    \A w \in Sessions : keyring[w] = deployed =>
        \A i \in Stored : Readable(keyring[w], rows[i].key)

\* src/models/__init__.py:98, the hash is for "lookup without decrypting": where
\* there is one, it is the hash of the blob's payload.
HashMatches == \A i \in Stored : rows[i].hash \in {rows[i].payload, None}

\* docs/operations.md:48, "Remove expired credential records": what the clean-up
\* removes is expired.
CleanupSparesValid ==
    [][\A w \in Sessions, i \in Stored :
          /\ worker[w].op = "cleanup" /\ worker'[w].op = "idle"
          /\ rows'[i].state = "deleted"
          => i \in ExpiredIn(rows, passed)]_vars

\* docs/security.md:15, "so existing rows stay readable", by every process.
AlwaysReadable == \A w \in Sessions : worker[w].result # "unreadable"
=============================================================================
