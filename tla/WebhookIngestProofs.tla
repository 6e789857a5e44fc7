------------------------ MODULE WebhookIngestProofs ------------------------
(***************************************************************************)
(* Proofs about WebhookIngest for any messages, keys, number of requests   *)
(* and faults: uniqueness by dedup key, and the refinement of EventLog.    *)
(***************************************************************************)
EXTENDS WebhookIngest, TLAPS

\* A call past the dedup guard holds a verified message, and one that dispatches
\* has committed its row.
RequestInv ==
    \A r \in Requests :
        /\ request[r].pc # "idle" => /\ request[r].message \in Messages
                                     /\ Verified(request[r].message)
        /\ request[r].pc = "dispatch" => rows[request[r].message] > 0

IInv == TypeOK /\ RequestInv /\ OneRowPerKey /\ AckedIsStored /\ StoredIsGenuine

LEMMA FreeType == Free \in RequestState /\ Free.pc = "idle"
  BY DEF Free, RequestState

LEMMA InitInv == Init => IInv
  BY FreeType DEF Init, IInv, TypeOK, RequestInv, OneRowPerKey, AckedIsStored,
     StoredIsGenuine, Keyed

\* A request that ends frees its slot; if the rows stay and what is answered is
\* stored, the invariant stays.
LEMMA EndOfCall ==
  ASSUME IInv, NEW r \in Requests, request' = [request EXCEPT ![r] = Free],
         redis' = redis, rows' = rows, acked' \subseteq Messages,
         \A m \in acked' : rows[m] > 0, refused' = refused, sends' = sends,
         faults' \in Nat
  PROVE  IInv'
  BY FreeType DEF IInv, TypeOK, RequestInv, OneRowPerKey, AckedIsStored,
     StoredIsGenuine, Keyed, Keys, Verified

LEMMA StepInv == IInv /\ [Next]_vars => IInv'
  <1> SUFFICES ASSUME IInv, [Next]_vars PROVE IInv'
    OBVIOUS
  <1>t. TypeOK
    BY DEF IInv
  <1>1. ASSUME NEW r \in Requests, NEW m \in Messages,
               VerificationFails(r, m) \/ Duplicate(r, m)
        PROVE  IInv'
    <2>1. /\ UNCHANGED <<redis, rows, request, acked, faults>>
          /\ refused' \subseteq refused \cup {m}
          /\ sends' = [sends EXCEPT ![m] = @ + 1]
      BY <1>1 DEF VerificationFails, Duplicate, Arrives
    <2> QED
      BY <2>1 DEF IInv, TypeOK, RequestInv, OneRowPerKey, AckedIsStored,
                  StoredIsGenuine, Keyed, Keys, Verified
  <1>2. ASSUME NEW r \in Requests, NEW m \in Messages, Claim(r, m)
        PROVE  IInv'
    <2>1. /\ UNCHANGED <<rows, acked, refused, faults>>
          /\ sends' = [sends EXCEPT ![m] = @ + 1]
          /\ request' = [request EXCEPT ![r] = [pc |-> "insert", message |-> m]]
          /\ Verified(m)
      BY <1>2 DEF Claim, Arrives
    <2>2. redis' \subseteq Keys
      BY <1>2, <1>t DEF Claim, Marked, TypeOK, Keys
    <2>3. [pc |-> "insert", message |-> m] \in RequestState
      BY DEF RequestState
    <2>4. TypeOK'
      BY <1>t, <2>1, <2>2, <2>3 DEF TypeOK, Keys
    <2>5. RequestInv'
      BY <1>t, <2>1 DEF IInv, TypeOK, RequestInv, Verified
    <2> QED
      BY <2>1, <2>4, <2>5 DEF IInv, OneRowPerKey, AckedIsStored, StoredIsGenuine, Keyed
  <1>3. ASSUME NEW r \in Requests, Insert(r)
        PROVE  IInv'
    <2> DEFINE m == request[r].message
    <2>1. /\ m \in Messages
          /\ Verified(m)
      BY <1>3 DEF Insert, IInv, RequestInv
    <2>2. /\ UNCHANGED <<redis, acked, refused, sends, faults>>
          /\ rows' = [rows EXCEPT ![m] = @ + 1]
          /\ request' = [request EXCEPT ![r].pc = "dispatch"]
          /\ Insertable(m)
      BY <1>3 DEF Insert
    <2>3. [request[r] EXCEPT !.pc = "dispatch"] \in RequestState
      BY <1>t DEF TypeOK, RequestState
    <2>4. TypeOK'
      BY <1>t, <2>1, <2>2, <2>3 DEF TypeOK, Keys
    <2>5. \A x \in Messages : /\ rows[x] \in Nat /\ rows'[x] \in Nat
                              /\ rows[x] <= rows'[x]
                              /\ x # m => rows'[x] = rows[x]
      BY <1>t, <2>1, <2>2 DEF TypeOK
    <2>5a. rows'[m] > 0
      BY <1>t, <2>1, <2>2 DEF TypeOK
    <2>6. RequestInv'
      <3> SUFFICES ASSUME NEW q \in Requests, request'[q].pc # "idle"
                   PROVE  /\ request'[q].message \in Messages
                          /\ Verified(request'[q].message)
                          /\ request'[q].pc = "dispatch" => rows'[request'[q].message] > 0
        BY DEF RequestInv, Verified
      <3>1. request'[q].message = request[q].message
        BY <1>t, <2>2 DEF TypeOK, RequestState
      <3>2. CASE q = r
        BY <2>1, <2>5a, <3>1, <3>2
      <3>3. CASE q # r
        <4>1. request'[q] = request[q]
          BY <1>t, <2>2, <3>3 DEF TypeOK
        <4> QED BY <2>5, <4>1 DEF IInv, RequestInv
      <3> QED BY <3>2, <3>3
    <2>7. OneRowPerKey'
      <3> SUFFICES ASSUME NEW x \in Keyed, NEW y \in Keyed, Key[x] = Key[y],
                          rows'[x] > 0, rows'[y] > 0
                   PROVE  x = y /\ rows'[x] = 1
        BY DEF OneRowPerKey, Keyed
      <3>1. x \in Messages /\ y \in Messages /\ Key[x] # NoKey
        BY DEF Keyed
      <3>2. CASE Key[m] = Key[x]
        <4>1. rows[x] = 0 /\ rows[y] = 0
          BY <2>1, <2>2, <3>1, <3>2 DEF Insertable
        <4>2. x = m /\ y = m
          BY <2>5, <3>1, <4>1
        <4> QED BY <1>t, <2>1, <2>2, <4>1, <4>2 DEF TypeOK
      <3>3. CASE Key[m] # Key[x]
        <4>1. rows'[x] = rows[x] /\ rows'[y] = rows[y]
          BY <2>5, <3>1, <3>3
        <4> QED BY <4>1 DEF IInv, OneRowPerKey
      <3> QED BY <3>2, <3>3
    <2>8. AckedIsStored'
      BY <1>t, <2>2, <2>5 DEF IInv, TypeOK, AckedIsStored
    <2>9. StoredIsGenuine'
      BY <2>1, <2>5 DEF IInv, StoredIsGenuine, Verified
    <2> QED BY <2>4, <2>6, <2>7, <2>8, <2>9 DEF IInv
  <1>4. ASSUME NEW r \in Requests, InsertFails(r) \/ DispatchRaises(r) \/ Crash(r)
        PROVE  IInv'
    <2>1. /\ request' = [request EXCEPT ![r] = Free]
          /\ UNCHANGED <<redis, rows, acked, refused, sends>>
          /\ faults' = faults \/ faults' = faults + 1
      BY <1>4 DEF InsertFails, DispatchRaises, Crash
    <2>2. faults' \in Nat /\ acked \subseteq Messages /\ \A m \in acked : rows[m] > 0
      BY <1>t, <2>1 DEF TypeOK, IInv, AckedIsStored
    <2> QED BY <2>1, <2>2, EndOfCall
  <1>5. ASSUME NEW r \in Requests, Accept(r)
        PROVE  IInv'
    <2>1. /\ request[r].message \in Messages
          /\ rows[request[r].message] > 0
      BY <1>5 DEF Accept, Answerable, AnsweredPc, IInv, RequestInv
    <2>2. /\ acked' \subseteq Messages
          /\ \A m \in acked' : rows[m] > 0
      BY <1>5, <1>t, <2>1 DEF Accept, TypeOK, IInv, AckedIsStored
    <2> QED BY <1>5, <1>t, <2>2, EndOfCall DEF Accept, TypeOK
  <1>6. ASSUME NEW k \in Keys, Expire(k)
        PROVE  IInv'
    BY <1>6 DEF Expire, IInv, TypeOK, RequestInv, OneRowPerKey, AckedIsStored,
                StoredIsGenuine, Keyed, Keys, Verified
  <1>7. CASE UNCHANGED vars
    BY <1>7 DEF vars, IInv, TypeOK, RequestInv, OneRowPerKey, AckedIsStored,
                StoredIsGenuine, Keyed, Keys, Verified
  <1> QED BY <1>1, <1>2, <1>3, <1>4, <1>5, <1>6, <1>7 DEF Next

LEMMA Invariance == Spec => []IInv
  BY InitInv, StepInv, PTL DEF Spec

\* The Redis keys, the rows and the requests keep their types.
THEOREM TypeCorrect == Spec => []TypeOK
  <1>1. IInv => TypeOK
    BY DEF IInv
  <1> QED BY <1>1, Invariance, PTL

\* One row per dedup key: the unique index decides, whatever Redis forgets.
THEOREM UniqueTheorem == Spec => []OneRowPerKey
  <1>1. IInv => OneRowPerKey
    BY DEF IInv
  <1> QED BY <1>1, Invariance, PTL

\* The provider is answered 200 only for a stored event.
THEOREM AckedTheorem == Spec => []AckedIsStored
  <1>1. IInv => AckedIsStored
    BY DEF IInv
  <1> QED BY <1>1, Invariance, PTL

\* A row exists only for a message whose signature was verified.
THEOREM GenuineTheorem == Spec => []StoredIsGenuine
  <1>1. IInv => StoredIsGenuine
    BY DEF IInv
  <1> QED BY <1>1, Invariance, PTL

-----------------------------------------------------------------------------
(* Refinement of EventLog.                                                 *)

Stored == {m \in Keyed : rows[m] > 0}

LEMMA LogInit == Init => Log!Init
  BY DEF Init, Log!Init, Keyed

LEMMA LogStep == IInv /\ [Next]_vars => [Log!Next]_<<Stored, acked \cap Keyed>>
  <1> SUFFICES ASSUME IInv, [Next]_vars, ~UNCHANGED <<Stored, acked \cap Keyed>>
               PROVE  Log!Next
    OBVIOUS
  <1>t. TypeOK
    BY DEF IInv
  <1>1. ASSUME UNCHANGED <<rows, acked>> PROVE FALSE
    BY <1>1 DEF Stored, Keyed
  <1>2. ASSUME NEW r \in Requests, Insert(r)
        PROVE  Log!Next
    <2>1. PICK m \in Messages : /\ rows' = [rows EXCEPT ![m] = @ + 1]
                                /\ acked' = acked
                                /\ Insertable(m)
      BY <1>2 DEF Insert, IInv, RequestInv, Insertable
    <2>2. \A x \in Messages : /\ rows[x] \in Nat
                              /\ rows'[x] = IF x = m THEN rows[x] + 1 ELSE rows[x]
      BY <1>t, <2>1 DEF TypeOK
    <2>3. CASE m \in Keyed
      <3>1. \A x \in Stored : Key[x] # Key[m]
        BY <2>1, <2>2, <2>3 DEF Stored, Keyed, Insertable
      <3>2. Stored' = Stored \cup {m}
        BY <2>2, <2>3 DEF Stored, Keyed
      <3>3. Log!Store(m)
        BY <2>1, <3>1, <3>2 DEF Log!Store, Stored, Keyed
      <3> QED BY <2>3, <3>3 DEF Log!Next
    <2>4. CASE m \notin Keyed
      <3>1. Stored' = Stored
        BY <2>2, <2>4 DEF Stored, Keyed
      <3> QED BY <2>1, <3>1 DEF Keyed
    <2> QED BY <2>3, <2>4
  <1>3. ASSUME NEW r \in Requests, Accept(r)
        PROVE  Log!Next
    <2>1. PICK m \in Messages : /\ rows[m] > 0
                                /\ rows' = rows
                                /\ acked' = acked \cup {m}
      BY <1>3 DEF Accept, Answerable, AnsweredPc, IInv, RequestInv
    <2>2. Stored' = Stored
      BY <2>1 DEF Stored, Keyed
    <2>3. CASE m \in Keyed
      <3>1. Log!Confirm(m)
        BY <2>1, <2>2, <2>3 DEF Log!Confirm, Stored, Keyed
      <3> QED BY <2>3, <3>1 DEF Log!Next
    <2>4. CASE m \notin Keyed
      BY <2>1, <2>2, <2>4 DEF Keyed
    <2> QED BY <2>3, <2>4
  <1> QED
    BY <1>1, <1>2, <1>3
    DEF Next, vars, VerificationFails, Duplicate, Claim, InsertFails,
        DispatchRaises, Crash, Expire

\* With a dedup key, the inbound engine is EventLog: append-only, one message
\* per key, confirmed only once stored.
THEOREM ImplementsTheorem == Spec => ImplementsLog
  <1>1. Init => Log!Init
    BY LogInit
  <1>2. IInv /\ [Next]_vars
          => [Log!Next]_<<{m \in Keyed : rows[m] > 0}, acked \cap Keyed>>
    BY LogStep DEF Stored
  <1> QED BY <1>1, <1>2, Invariance, PTL DEF Spec, ImplementsLog, Log!Spec
=============================================================================
