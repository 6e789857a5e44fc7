----------------------- MODULE CredentialStoreProofs -----------------------
(***************************************************************************)
(* Proofs about CredentialStore for any rows, sessions and number of keys: *)
(* the last write is what is read, and the deployed keys read every row.   *)
(* For the latter the invariant also follows the keys that processes still *)
(* encrypt under.                                                          *)
(***************************************************************************)
EXTENDS CredentialStore, TLAPS

\* Every row is readable with the deployed keys.
RowsReadable == \A i \in Stored : Readable(deployed, rows[i].key)

\* So will be the rows that processes started long ago have yet to write.
KeysKept == \A w \in Sessions : Readable(deployed, keyring[w].current)

IInv == TypeOK /\ LastWriteIsRead /\ RowsReadable /\ KeysKept

-----------------------------------------------------------------------------
(* Types.                                                                  *)

LEMMA IdleType ==
  /\ Idle \in Session
  /\ \A b \in SUBSET Ids, op \in Operations :
        [Idle EXCEPT !.op = op, !.batch = b] \in Session
  /\ \A r \in {"none", "ambiguous", "unreadable"} : [Idle EXCEPT !.result = r] \in Session
  BY DEF Idle, Session, Operations

LEMMA BlankType ==
  \A state \in {"unused", "stored", "deleted"} :
      Blank(state) \in Row /\ Blank(state).state = state
  BY DEF Blank, Row

LEMMA InitInv == Init => IInv
<1> SUFFICES ASSUME Init PROVE IInv
  OBVIOUS
<1>1. TypeOK
  BY IdleType, BlankType DEF Init, TypeOK, FirstRing, Ring
<1>2. Stored = {}
  BY BlankType DEF Init, Stored
<1>3. KeysKept
  BY DEF Init, KeysKept, Readable, FirstRing
<1> QED BY <1>1, <1>2, <1>3 DEF IInv, LastWriteIsRead, RowsReadable

-----------------------------------------------------------------------------
(* Steps that leave the rows and the keys alone.                           *)

LEMMA KeepsRows ==
  ASSUME IInv, UNCHANGED <<rows, last, keys>>, worker' \in [Sessions -> Session],
         passed' \subseteq Expiries, ops' \in Nat
  PROVE  IInv'
  BY DEF IInv, TypeOK, LastWriteIsRead, RowsReadable, KeysKept, Stored, Readable, keys

\* Steps that rewrite rows keep the invariant if what is stored afterwards was
\* last written and has a deployed key.
LEMMA WritesRows ==
  ASSUME IInv, rows' \in [Ids -> Row], last' \in [Ids -> Payloads \cup {None}],
         \A i \in Ids : rows'[i].state = "stored" =>
             rows'[i].payload = last'[i] /\ Readable(deployed, rows'[i].key),
         worker' \in [Sessions -> Session], UNCHANGED <<passed, keys>>, ops' \in Nat
  PROVE  IInv'
<1>1. TypeOK' /\ KeysKept'
  BY DEF IInv, TypeOK, KeysKept, Readable, keys
<1>2. deployed' = deployed /\ \A i \in Stored' : i \in Ids /\ rows'[i].state = "stored"
  BY DEF Stored, keys
<1> QED BY <1>1, <1>2 DEF IInv, LastWriteIsRead, RowsReadable, Readable

\* A row that stays as it was, or is no longer stored.
LEMMA RowStays ==
  ASSUME IInv, NEW i \in Ids, rows[i].state = "stored"
  PROVE  rows[i].payload = last[i] /\ Readable(deployed, rows[i].key)
  BY DEF IInv, LastWriteIsRead, RowsReadable, Stored

LEMMA EndsType == ASSUME TypeOK, NEW w \in Sessions, Ends(w)
                  PROVE  worker' \in [Sessions -> Session]
  BY IdleType DEF TypeOK, Ends

LEMMA CountedType == ASSUME TypeOK, Counted PROVE ops' \in Nat
  BY DEF TypeOK, Counted

LEMMA RemovesRows ==
  ASSUME IInv, NEW gone \in SUBSET Ids, NEW w \in Sessions, rows' = Without(gone),
         Ends(w), UNCHANGED <<passed, keys, ops, last>>
  PROVE  IInv'
<1>1. rows' \in [Ids -> Row]
  BY BlankType DEF IInv, TypeOK, Without
<1>2. \A i \in Ids : rows'[i].state = "stored" => rows'[i] = rows[i]
  BY BlankType DEF Without
<1>3. \A i \in Ids : rows'[i].state = "stored" =>
          rows'[i].payload = last'[i] /\ Readable(deployed, rows'[i].key)
  BY <1>2, RowStays
<1>4. worker' \in [Sessions -> Session] /\ ops' \in Nat /\ last' \in [Ids -> Payloads \cup {None}]
  BY EndsType DEF IInv, TypeOK
<1> QED BY <1>1, <1>3, <1>4, WritesRows

-----------------------------------------------------------------------------
(* One lemma per operation.                                                *)

LEMMA CreateStep ==
  ASSUME IInv, NEW w \in Sessions, NEW n \in Names, NEW p \in Payloads,
         NEW h \in {p, None}, NEW e \in Expiries \cup {None}, create(w, n, p, h, e)
  PROVE  IInv'
<1> DEFINE row == [state |-> "stored", name |-> n, payload |-> p,
                   key |-> keyring[w].current, hash |-> h, expires |-> e]
<1>1. PICK i \in Ids : /\ rows' = [rows EXCEPT ![i] = row]
                       /\ last' = [last EXCEPT ![i] = p]
  BY DEF create
<1>2. keyring[w].current \in Nat /\ Readable(deployed, keyring[w].current)
  BY DEF IInv, TypeOK, Ring, KeysKept
<1>3. row \in Row /\ row.payload = p /\ row.key = keyring[w].current
  BY <1>2 DEF Row
<1>4. rows' \in [Ids -> Row] /\ last' \in [Ids -> Payloads \cup {None}]
  BY <1>1, <1>3 DEF IInv, TypeOK
<1>5. ASSUME NEW j \in Ids, rows'[j].state = "stored"
      PROVE  rows'[j].payload = last'[j] /\ Readable(deployed, rows'[j].key)
  <2>1. CASE j = i
    BY <1>1, <1>2, <1>3, <2>1 DEF IInv, TypeOK
  <2>2. CASE j # i
    <3>1. rows'[j] = rows[j] /\ last'[j] = last[j]
      BY <1>1, <2>2 DEF IInv, TypeOK
    <3> QED BY <1>5, <3>1, RowStays
  <2> QED BY <2>1, <2>2
<1>6. worker' \in [Sessions -> Session] /\ ops' \in Nat /\ UNCHANGED <<passed, keys>>
  BY EndsType, CountedType DEF create, IInv
<1> QED BY <1>4, <1>5, <1>6, WritesRows

LEMMA UpdateStep ==
  ASSUME IInv, NEW w \in Sessions, NEW p \in Payloads, NEW e \in Expiries \cup {None},
         update(w, p, e)
  PROVE  IInv'
<1>1. PICK i \in worker[w].batch : /\ rows[i].state = "stored"
                                   /\ rows' = [rows EXCEPT ![i] = Updated(w, @, p, e)]
                                   /\ last' = [last EXCEPT ![i] = p]
  BY DEF update
<1>2. i \in Ids
  BY DEF IInv, TypeOK, Session
<1>3. keyring[w].current \in Nat /\ Readable(deployed, keyring[w].current)
  BY DEF IInv, TypeOK, Ring, KeysKept
<1> DEFINE row == Updated(w, rows[i], p, e)
<1>4. row \in Row /\ row.payload = p /\ row.key = keyring[w].current
  BY <1>2, <1>3 DEF Updated, Blob, Flushed, Row, IInv, TypeOK
<1>5. rows' \in [Ids -> Row] /\ last' \in [Ids -> Payloads \cup {None}]
  BY <1>1, <1>2, <1>4 DEF IInv, TypeOK
<1>6. ASSUME NEW j \in Ids, rows'[j].state = "stored"
      PROVE  rows'[j].payload = last'[j] /\ Readable(deployed, rows'[j].key)
  <2>1. CASE j = i
    BY <1>1, <1>2, <1>3, <1>4, <2>1 DEF IInv, TypeOK
  <2>2. CASE j # i
    <3>1. rows'[j] = rows[j] /\ last'[j] = last[j]
      BY <1>1, <1>2, <2>2 DEF IInv, TypeOK
    <3> QED BY <1>6, <3>1, RowStays
  <2> QED BY <2>1, <2>2
<1>7. worker' \in [Sessions -> Session] /\ ops' \in Nat /\ UNCHANGED <<passed, keys>>
  BY EndsType DEF update, IInv, TypeOK
<1> QED BY <1>5, <1>6, <1>7, WritesRows

LEMMA RotateStep ==
  ASSUME IInv, NEW w \in Sessions, rotate_expired(w)
  PROVE  IInv'
<1>1. ASSUME NEW i \in Ids
      PROVE  /\ rows'[i] \in Row
             /\ rows'[i].state = rows[i].state
             /\ rows'[i].payload = rows[i].payload /\ rows'[i].key = rows[i].key
  BY DEF rotate_expired, Rotated, Row, IInv, TypeOK
<1>2. rows' \in [Ids -> Row]
  BY <1>1 DEF rotate_expired
<1>3. worker' \in [Sessions -> Session] /\ UNCHANGED <<passed, keys, ops, last>>
  BY EndsType DEF rotate_expired, IInv
<1>4. \A i \in Ids : rows'[i].state = "stored" =>
          rows'[i].payload = last'[i] /\ Readable(deployed, rows'[i].key)
  BY <1>1, <1>3, RowStays
<1> QED BY <1>2, <1>3, <1>4, WritesRows DEF IInv, TypeOK

LEMMA ReEncryptStep ==
  ASSUME IInv, NEW i \in Ids, re_encrypt(i)
  PROVE  IInv'
<1>1. rows' = [rows EXCEPT ![i].key = deployed.current] /\ UNCHANGED <<passed, keys, worker, ops, last>>
  BY DEF re_encrypt
<1>2. deployed.current \in Nat /\ Readable(deployed, deployed.current)
  BY DEF IInv, TypeOK, Ring, Readable
<1>3. ASSUME NEW j \in Ids
      PROVE  /\ rows'[j] \in Row
             /\ rows'[j].state = rows[j].state /\ rows'[j].payload = rows[j].payload
             /\ rows'[j].key \in {rows[j].key, deployed.current}
  BY <1>1, <1>2 DEF IInv, TypeOK, Row
<1>4. rows' \in [Ids -> Row]
  BY <1>1, <1>3 DEF IInv, TypeOK
<1>5. \A j \in Ids : rows'[j].state = "stored" =>
          rows'[j].payload = last'[j] /\ Readable(deployed, rows'[j].key)
  BY <1>1, <1>2, <1>3, RowStays
<1> QED BY <1>1, <1>4, <1>5, WritesRows DEF IInv, TypeOK

-----------------------------------------------------------------------------
(* Steps of the keys.                                                      *)

LEMMA NewKeyStep == ASSUME IInv, NewKey PROVE IInv'
<1>1. \A k : Readable(deployed, k) => Readable(deployed', k)
  BY DEF NewKey, Readable
<1>2. TypeOK'
  BY DEF IInv, TypeOK, NewKey, Ring
<1>3. UNCHANGED <<rows, last, keyring>>
  BY DEF NewKey
<1> QED BY <1>1, <1>2, <1>3 DEF IInv, LastWriteIsRead, RowsReadable, KeysKept, Stored

LEMMA RetireStep == ASSUME IInv, NEW k \in 0..MaxKey, Retire(k) PROVE IInv'
<1>1. \A j : Readable(deployed, j) /\ j # k => Readable(deployed', j)
  BY DEF Retire, Readable, IInv, TypeOK, Ring
<1>2. TypeOK'
  BY DEF IInv, TypeOK, Retire, Ring
<1>3. UNCHANGED <<rows, last, keyring>>
  BY DEF Retire
<1>4. /\ \A i \in Stored : rows[i].key # k
      /\ \A w \in Sessions : keyring[w].current # k
  BY DEF Retire
<1> QED BY <1>1, <1>2, <1>3, <1>4 DEF IInv, LastWriteIsRead, RowsReadable, KeysKept, Stored

LEMMA RestartStep == ASSUME IInv, NEW w \in Sessions, Restart(w) PROVE IInv'
<1>1. UNCHANGED <<rows, passed, deployed, last>> /\ keyring' = [keyring EXCEPT ![w] = deployed]
  BY DEF Restart
<1>2. TypeOK'
  BY <1>1, EndsType, CountedType DEF IInv, TypeOK, Restart
<1>3. KeysKept'
  BY <1>1 DEF IInv, TypeOK, KeysKept, Readable, Ring
<1> QED BY <1>1, <1>2, <1>3 DEF IInv, LastWriteIsRead, RowsReadable, Stored, Readable

-----------------------------------------------------------------------------
LEMMA StepInv == IInv /\ [Next]_vars => IInv'
<1> SUFFICES ASSUME IInv, [Next]_vars PROVE IInv'
  OBVIOUS
<1>t. TypeOK
  BY DEF IInv
<1>1. ASSUME NEW w \in Sessions, Begin(w) PROVE IInv'
  <2>1. ASSUME NEW n \in Names, NEW p \in Payloads, NEW h \in {p, None},
               NEW e \in Expiries \cup {None}, create(w, n, p, h, e)
        PROVE  IInv'
    BY <2>1, CreateStep
  <2>2. ASSUME NEW op \in {"update", "delete"}, get(w, op) PROVE IInv'
    <3>1. PICK i \in Ids : worker' = [worker EXCEPT ![w] =
                [op |-> op, batch |-> {i}, hash |-> rows[i].hash,
                 expires |-> rows[i].expires, result |-> "none"]]
      BY <2>2 DEF get
    <3>2. worker' \in [Sessions -> Session]
      BY <1>t, <3>1 DEF TypeOK, Session, Row, Operations
    <3> QED BY <1>t, <2>2, <3>2, KeepsRows, CountedType DEF get, TypeOK
  <2>3. ASSUME get_raises(w) PROVE IInv'
    <3>1. worker' \in [Sessions -> Session]
      BY <1>t, <2>3, IdleType DEF get_raises, TypeOK
    <3> QED BY <1>t, <2>3, <3>1, KeepsRows, CountedType DEF get_raises, TypeOK
  <2>4. ASSUME decrypt_for(w) PROVE IInv'
    <3>1. worker' \in [Sessions -> Session]
      BY <1>t, <2>4, IdleType DEF decrypt_for, TypeOK
    <3> QED BY <1>t, <2>4, <3>1, KeepsRows, CountedType DEF decrypt_for, TypeOK
  <2>5. ASSUME select_expired(w, "cleanup") PROVE IInv'
    <3>1. worker' \in [Sessions -> Session]
      BY <1>t, <2>5, IdleType DEF select_expired, TypeOK, Selectable, ExpiredIn, Operations
    <3> QED BY <1>t, <2>5, <3>1, KeepsRows, CountedType DEF select_expired, TypeOK
  <2>6. ASSUME Restart(w) PROVE IInv'
    BY <2>6, RestartStep
  <2> QED BY <1>1, <2>1, <2>2, <2>3, <2>4, <2>5, <2>6 DEF Begin
<1>2. ASSUME NEW w \in Sessions, Commit(w) PROVE IInv'
  <2>1. ASSUME NEW p \in Payloads, NEW e \in Expiries \cup {None}, update(w, p, e)
        PROVE  IInv'
    BY <2>1, UpdateStep
  <2>2. ASSUME Stale(w) PROVE IInv'
    BY <1>t, <2>2, EndsType, KeepsRows DEF Stale, TypeOK
  <2>b. worker[w].batch \in SUBSET Ids
    BY <1>t DEF TypeOK, Session
  <2>3. ASSUME delete(w) PROVE IInv'
    BY <2>b, <2>3, RemovesRows DEF delete
  <2>4. ASSUME rotate_expired(w) PROVE IInv'
    BY <2>4, RotateStep
  <2>5. ASSUME cleanup_expired_credentials(w) PROVE IInv'
    BY <2>b, <2>5, RemovesRows DEF cleanup_expired_credentials
  <2> QED BY <1>2, <2>1, <2>2, <2>3, <2>4, <2>5 DEF Commit
<1>3. ASSUME NEW w \in Sessions, select_expired(w, "rotate") PROVE IInv'
  <2>1. worker' \in [Sessions -> Session]
    BY <1>t, <1>3, IdleType DEF select_expired, TypeOK, Selectable, ExpiredIn, Operations
  <2> QED BY <1>t, <1>3, <2>1, KeepsRows DEF select_expired, TypeOK
<1>4. ASSUME NEW e \in Expiries, Expire(e) PROVE IInv'
  BY <1>t, <1>4, KeepsRows DEF Expire, TypeOK
<1>5. ASSUME Operator PROVE IInv'
  BY <1>5, NewKeyStep, RetireStep, ReEncryptStep DEF Operator
<1>6. CASE UNCHANGED vars
  BY <1>t, <1>6, KeepsRows DEF vars, keys, TypeOK
<1> QED BY <1>1, <1>2, <1>3, <1>4, <1>5, <1>6 DEF Next

LEMMA Invariance == Spec => []IInv
  BY InitInv, StepInv, PTL DEF Spec

-----------------------------------------------------------------------------
\* The rows, the keys and the sessions keep their types.
THEOREM TypeCorrect == Spec => []TypeOK
<1>1. IInv => TypeOK
  BY DEF IInv
<1> QED BY <1>1, Invariance, PTL

\* No overlap of updates, rotations, clean-ups and re-encryptions loses or mixes
\* up a secret, although an UPDATE writes only the columns that differ from what
\* its session had loaded.
THEOREM LastWriteTheorem == Spec => []LastWriteIsRead
<1>1. IInv => LastWriteIsRead
  BY DEF IInv
<1> QED BY <1>1, Invariance, PTL

\* However many keys ago a row was written, and by however old a process, the
\* deployed keys read it.
THEOREM ReadableTheorem == Spec => []NewestReadsAll
<1>1. IInv => NewestReadsAll
  BY DEF IInv, RowsReadable, NewestReadsAll
<1> QED BY <1>1, Invariance, PTL
=============================================================================
