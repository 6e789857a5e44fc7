------------------------- MODULE MaintenanceProofs -------------------------
(***************************************************************************)
(* Proofs about the maintenance work of the Celery workers: TaskSchedule,  *)
(* which brings a task to a worker process, and TokenRefresh, the longest  *)
(* of the tasks it brings.                                                 *)
(*                                                                         *)
(* TokenRefresh: no overlap of batches loses a refresh token.  The         *)
(* invariant follows the token a provider takes: it is in the row, or with *)
(* the one session that holds the answer, and from a provider that rotates *)
(* its tokens nobody else has a copy while that answer is on its way to    *)
(* the database.                                                           *)
(*                                                                         *)
(* TaskSchedule: no message disappears and none is counted twice, whatever *)
(* worker processes are lost.  The invariant is a balance, so each step is *)
(* a transfer: one message leaves one place and enters another.  Only the  *)
(* worker processes are counted by a cardinality.                          *)
(***************************************************************************)
EXTENDS TokenRefresh, TaskSchedule, FiniteSetTheorems, TLAPS

-----------------------------------------------------------------------------
(* TokenRefresh.                                                           *)

Answered(w, c) == worker[w].pc = "answered" /\ worker[w].target = c

HoldsTarget ==
    \A w \in Workers : worker[w].pc \in {"sent", "answered"} => worker[w].target \in Connections

\* The session with the answer holds a good token, and if the provider rotates
\* them the only one.
AnswerIsGood ==
    \A w \in Workers, c \in Connections : Answered(w, c)
        => w \in good[c] /\ (c \in Rotates => good[c] = {w})

\* Where the provider does not rotate tokens the row's stays good.
RowIsGood ==
    \A c \in Connections : c \notin Rotates /\ good[c] # {} => Row \in good[c]

\* A good token is in the row or with an answer.
GoodIsSomewhere ==
    \A c \in Connections :
        good[c] # {} => Row \in good[c] \/ \E w \in Workers : Answered(w, c)

Typed == TypeOK /\ HoldsTarget
Held == AnswerIsGood /\ RowIsGood /\ GoodIsSomewhere
IInv == Typed /\ Held

-----------------------------------------------------------------------------
(* Types.                                                                  *)

LEMMA IdleType == Idle \in WorkerState /\ Idle.pc = "idle"
  BY DEF Idle, WorkerState

LEMMA AfterType ==
    ASSUME TypeOK, NEW w \in Workers, NEW c
    PROVE  After(w, c) \in WorkerState /\ After(w, c).pc \in {"idle", "next"}
<1>1. worker[w].batch \ {c} \subseteq Connections
  BY DEF TypeOK, WorkerState
<1>. QED BY <1>1 DEF After, Idle, WorkerState

\* A session that starts, or is done with a connection, has no target.
LEMMA Settles ==
    ASSUME Typed, NEW w \in Workers, NEW local \in WorkerState,
           local.pc \in {"idle", "next"}, worker' = [worker EXCEPT ![w] = local]
    PROVE  /\ worker' \in [Workers -> WorkerState]
           /\ HoldsTarget'
           /\ \A x \in Workers, c \in Connections :
                 Answered(x, c)' <=> x # w /\ Answered(x, c)
<1>1. \A x \in Workers : worker'[x] = IF x = w THEN local ELSE worker[x]
  BY DEF Typed, TypeOK
<1>. QED BY <1>1 DEF Typed, TypeOK, HoldsTarget, Answered

LEMMA InitInv == Init => IInv
<1>. SUFFICES ASSUME Init PROVE IInv
  OBVIOUS
<1>1. Typed
  BY IdleType, ConnectionsAssumption DEF Init, Typed, TypeOK, HoldsTarget, Places
<1>2. Held
  BY IdleType DEF Init, Held, AnswerIsGood, RowIsGood, GoodIsSomewhere, Answered
<1>. QED BY <1>1, <1>2 DEF IInv

-----------------------------------------------------------------------------
(* The steps, by what they do to the copies of one connection's token.     *)

\* A session that held no answer gives up its copies.
LEMMA Drops ==
    ASSUME IInv, NEW w \in Workers, worker[w].pc # "answered",
           \A x \in Workers, c \in Connections : Answered(x, c)' <=> x # w /\ Answered(x, c),
           \A c \in Connections : good'[c] = good[c] \/ good'[c] = good[c] \ {w}
    PROVE  /\ Held'
           /\ \A c \in Connections : good[c] # {} => good'[c] # {}
<1>1. \A x \in Workers, c \in Connections : Answered(x, c)' <=> Answered(x, c)
  BY DEF Answered
<1>2. \A c \in Connections, p \in Places \ {w} : p \in good[c] <=> p \in good'[c]
  OBVIOUS
<1>3. Row \in Places \ {w}
  BY PlaceAssumption DEF Places
<1>4. \A x \in Workers, c \in Connections : Answered(x, c) => x \in Places \ {w}
  BY DEF Answered, Places
<1>5. AnswerIsGood'
  <2>. SUFFICES ASSUME NEW x \in Workers, NEW c \in Connections, Answered(x, c)'
                PROVE  x \in good'[c] /\ (c \in Rotates => good'[c] = {x})
    BY DEF AnswerIsGood
  <2>1. x # w /\ x \in good[c] /\ (c \in Rotates => good[c] = {x})
    BY DEF IInv, Held, AnswerIsGood
  <2>. QED BY <2>1
<1>6. \A c \in Connections : good'[c] # {} => good[c] # {}
  OBVIOUS
<1>7. RowIsGood'
  BY <1>2, <1>3, <1>6 DEF IInv, Held, RowIsGood
<1>8. GoodIsSomewhere'
  BY <1>1, <1>2, <1>3, <1>6 DEF IInv, Held, GoodIsSomewhere
<1>9. ASSUME NEW c \in Connections, good[c] # {} PROVE good'[c] # {}
  <2>1. CASE Row \in good[c]
    BY <2>1, <1>2, <1>3
  <2>2. CASE \E x \in Workers : Answered(x, c)
    <3>1. PICK x \in Workers : Answered(x, c)
      BY <2>2
    <3>2. x \in good[c]
      BY <3>1 DEF IInv, Held, AnswerIsGood
    <3>. QED BY <1>2, <1>4, <3>1, <3>2
  <2>. QED BY <1>9, <2>1, <2>2 DEF IInv, Held, GoodIsSomewhere
<1>. QED BY <1>5, <1>7, <1>8, <1>9 DEF Held

\* What a step does to tokens when no fault happens.
Kept == \A c \in Connections : good[c] # {} => good'[c] # {} \/ faults' = faults + 1

LEMMA LoadStep ==
    ASSUME IInv, NEW w \in Workers, NEW batch \in SUBSET Connections, Load(w, batch)
    PROVE  /\ worker' \in [Workers -> WorkerState] /\ good' \in [Connections -> SUBSET Places]
           /\ HoldsTarget' /\ Held' /\ Kept
<1>. DEFINE local == [Idle EXCEPT !.pc = "next", !.batch = batch]
<1>1. local \in WorkerState /\ local.pc = "next"
  BY DEF Idle, WorkerState
<1>2. worker' = [worker EXCEPT ![w] = local]
  BY DEF Load
<1>3. /\ worker' \in [Workers -> WorkerState] /\ HoldsTarget'
      /\ \A x \in Workers, c \in Connections : Answered(x, c)' <=> x # w /\ Answered(x, c)
  BY <1>1, <1>2, Settles DEF IInv
<1>4. \A x \in Workers, c \in Connections : Answered(x, c)' <=> Answered(x, c)
  BY <1>3 DEF Load, Answered
<1>5. \A c \in Connections : /\ good'[c] = good[c] \/ good'[c] = good[c] \cup {w}
                             /\ Row \notin good[c] => good'[c] = good[c]
  BY DEF Load
<1>6. good' \in [Connections -> SUBSET Places]
  BY DEF Load, IInv, Typed, TypeOK, Places
<1>7. AnswerIsGood'
  <2>. SUFFICES ASSUME NEW x \in Workers, NEW c \in Connections, Answered(x, c)
                PROVE  x \in good'[c] /\ (c \in Rotates => good'[c] = {x})
    BY <1>4 DEF AnswerIsGood
  <2>1. x \in good[c] /\ (c \in Rotates => good[c] = {x})
    BY DEF IInv, Held, AnswerIsGood
  <2>2. c \in Rotates => Row \notin good[c]
    BY <2>1, PlaceAssumption
  <2>. QED BY <1>5, <2>1, <2>2
<1>8. RowIsGood' /\ GoodIsSomewhere'
  BY <1>4, <1>5 DEF IInv, Held, RowIsGood, GoodIsSomewhere
<1>. QED BY <1>3, <1>5, <1>6, <1>7, <1>8 DEF Held, Kept

\* The provider takes w's copy.
LEMMA GrantedStep ==
    ASSUME IInv, NEW w \in Workers, Granted(w)
    PROVE  TypeOK' /\ HoldsTarget' /\ Held' /\ Kept
<1>1. PICK c \in Connections : c = worker[w].target
  BY DEF Granted, IInv, Typed, HoldsTarget
<1>2. /\ w \in good[c] /\ good' = Taken(w, c) /\ worker[w].pc = "sent"
      /\ worker' = [worker EXCEPT ![w].pc = "answered"]
      /\ UNCHANGED <<due, manual, faults>>
  BY <1>1 DEF Granted
<1>3. \A x \in Workers : /\ worker'[x].target = worker[x].target
                         /\ x # w => worker'[x].pc = worker[x].pc
  BY <1>2 DEF IInv, Typed, TypeOK, WorkerState
<1>4. worker'[w].pc = "answered"
  BY <1>2 DEF IInv, Typed, TypeOK, WorkerState
<1>5. TypeOK'
  BY <1>2 DEF IInv, Typed, TypeOK, WorkerState, Taken, Places
<1>6. HoldsTarget'
  <2>. SUFFICES ASSUME NEW x \in Workers, worker'[x].pc \in {"sent", "answered"}
                PROVE  worker'[x].target \in Connections
    BY DEF HoldsTarget
  <2>. QED BY <1>1, <1>3 DEF IInv, Typed, HoldsTarget
<1>7. \A x \in Workers, d \in Connections :
         Answered(x, d)' <=> Answered(x, d) \/ (x = w /\ d = c)
  BY <1>1, <1>2, <1>3, <1>4 DEF Answered
\* Nobody else holds the answer of a provider that rotates.
<1>8. ASSUME c \in Rotates PROVE \A x \in Workers : ~Answered(x, c)
  <2>. SUFFICES ASSUME NEW x \in Workers, Answered(x, c) PROVE FALSE
    OBVIOUS
  <2>1. good[c] = {x}
    BY <1>8 DEF IInv, Held, AnswerIsGood
  <2>2. x = w
    BY <2>1, <1>2
  <2>. QED BY <2>2, <1>2 DEF Answered
<1>9. \A d \in Connections : good'[d] = IF d = c /\ c \in Rotates THEN {w} ELSE good[d]
  BY <1>2 DEF Taken, IInv, Typed, TypeOK
<1>10. AnswerIsGood'
  <2>. SUFFICES ASSUME NEW x \in Workers, NEW d \in Connections, Answered(x, d)'
                PROVE  x \in good'[d] /\ (d \in Rotates => good'[d] = {x})
    BY DEF AnswerIsGood
  <2>1. CASE x = w /\ d = c
    BY <2>1, <1>2, <1>9
  <2>2. CASE Answered(x, d)
    <3>1. x \in good[d] /\ (d \in Rotates => good[d] = {x})
      BY <2>2 DEF IInv, Held, AnswerIsGood
    <3>2. good'[d] = good[d]
      BY <2>2, <1>8, <1>9
    <3>. QED BY <3>1, <3>2
  <2>. QED BY <2>1, <2>2, <1>7
<1>11. RowIsGood'
  BY <1>9 DEF IInv, Held, RowIsGood
<1>12. GoodIsSomewhere'
  <2>. SUFFICES ASSUME NEW d \in Connections, good'[d] # {}
                PROVE  Row \in good'[d] \/ \E x \in Workers : Answered(x, d)'
    BY DEF GoodIsSomewhere
  <2>1. CASE d = c
    BY <2>1, <1>7
  <2>2. CASE d # c
    BY <2>2, <1>7, <1>9 DEF IInv, Held, GoodIsSomewhere
  <2>. QED BY <2>1, <2>2
<1>13. Kept
  BY <1>9 DEF Kept
<1>. QED BY <1>5, <1>6, <1>10, <1>11, <1>12, <1>13 DEF Held

\* The answer's tokens reach the row.
LEMMA CommitStep ==
    ASSUME IInv, NEW w \in Workers, CommitRefresh(w)
    PROVE  good' \in [Connections -> SUBSET Places] /\ Held' /\ Kept
<1>1. PICK c \in Connections : c = worker[w].target
  BY DEF CommitRefresh, IInv, Typed, HoldsTarget
<1>2. Answered(w, c)
  BY <1>1 DEF CommitRefresh, Answered
<1>3. w \in good[c] /\ w # Row /\ (c \in Rotates => good[c] = {w})
  BY <1>2, PlaceAssumption DEF IInv, Held, AnswerIsGood
<1>4. good' = [good EXCEPT ![c] = (@ \cup {Row}) \ {w}]
  BY <1>1, <1>3 DEF CommitRefresh, Committed
<1>5. good' \in [Connections -> SUBSET Places]
  BY <1>4 DEF IInv, Typed, TypeOK, Places
<1>6. \A x \in Workers, d \in Connections : Answered(x, d)' <=> x # w /\ Answered(x, d)
  <2>1. After(w, c) \in WorkerState /\ After(w, c).pc \in {"idle", "next"}
    BY AfterType DEF IInv, Typed
  <2>2. worker' = [worker EXCEPT ![w] = After(w, c)]
    BY <1>1 DEF CommitRefresh
  <2>. QED BY <2>1, <2>2, Settles DEF IInv
<1>7. /\ Row \in good'[c]
      /\ \A d \in Connections : d # c => good'[d] = good[d]
      /\ good'[c] = (good[c] \cup {Row}) \ {w}
  BY <1>3, <1>4 DEF IInv, Typed, TypeOK
<1>8. AnswerIsGood'
  <2>. SUFFICES ASSUME NEW x \in Workers, NEW d \in Connections, x # w, Answered(x, d)
                PROVE  x \in good'[d] /\ (d \in Rotates => good'[d] = {x})
    BY <1>6 DEF AnswerIsGood
  <2>1. x \in good[d] /\ (d \in Rotates => good[d] = {x})
    BY DEF IInv, Held, AnswerIsGood
  <2>2. CASE d = c
    BY <2>1, <2>2, <1>3, <1>7
  <2>3. CASE d # c
    BY <2>1, <2>3, <1>7
  <2>. QED BY <2>2, <2>3
<1>9. RowIsGood'
  BY <1>7 DEF IInv, Held, RowIsGood
<1>10. GoodIsSomewhere'
  <2>. SUFFICES ASSUME NEW d \in Connections, d # c, good[d] # {}
                PROVE  Row \in good[d] \/ \E x \in Workers : Answered(x, d)'
    BY <1>7 DEF GoodIsSomewhere
  <2>1. CASE Row \in good[d]
    BY <2>1
  <2>2. CASE \E x \in Workers : Answered(x, d)
    <3>1. PICK x \in Workers : Answered(x, d)
      BY <2>2
    <3>2. x # w
      BY <3>1, <1>2 DEF Answered
    <3>. QED BY <3>1, <3>2, <1>6
  <2>. QED BY <2>1, <2>2 DEF IInv, Held, GoodIsSomewhere
<1>11. Kept
  BY <1>7 DEF Kept
<1>. QED BY <1>5, <1>8, <1>9, <1>10, <1>11 DEF Held

\* A fault: the session's copies are gone, and the answer it may have held.
LEMMA FaultStep ==
    ASSUME IInv, NEW w \in Workers,
           \A x \in Workers, c \in Connections : Answered(x, c)' <=> x # w /\ Answered(x, c),
           \A c \in Connections : \/ good'[c] \in {good[c], good[c] \ {w}}
                                  \/ good'[c] = {} /\ w \in good[c] /\ c \in Rotates
                                     /\ ~Answered(w, c),
           \A c \in Connections : Answered(w, c) => good'[c] = good[c] \ {w}
    PROVE  Held'
<1>1. AnswerIsGood'
  <2>. SUFFICES ASSUME NEW x \in Workers, NEW c \in Connections, x # w, Answered(x, c)
                PROVE  x \in good'[c] /\ (c \in Rotates => good'[c] = {x})
    BY DEF AnswerIsGood
  <2>1. x \in good[c] /\ (c \in Rotates => good[c] = {x})
    BY DEF IInv, Held, AnswerIsGood
  <2>. QED BY <2>1
<1>2. RowIsGood'
  <2>. SUFFICES ASSUME NEW c \in Connections, c \notin Rotates, good'[c] # {}
                PROVE  Row \in good'[c]
    BY DEF RowIsGood
  <2>1. good'[c] \in {good[c], good[c] \ {w}}
    OBVIOUS
  <2>2. Row \in good[c]
    BY <2>1 DEF IInv, Held, RowIsGood
  <2>. QED BY <2>1, <2>2, PlaceAssumption
<1>3. GoodIsSomewhere'
  <2>. SUFFICES ASSUME NEW c \in Connections, good'[c] # {}
                PROVE  Row \in good'[c] \/ \E x \in Workers : Answered(x, c)'
    BY DEF GoodIsSomewhere
  <2>1. good'[c] \in {good[c], good[c] \ {w}}
    OBVIOUS
  <2>2. CASE Row \in good[c]
    BY <2>1, <2>2, PlaceAssumption
  <2>3. CASE Row \notin good[c]
    <3>1. PICK x \in Workers : Answered(x, c)
      BY <2>1, <2>3 DEF IInv, Held, GoodIsSomewhere
    <3>2. c \in Rotates
      BY <2>1, <2>3 DEF IInv, Held, RowIsGood
    <3>3. good[c] = {x}
      BY <3>1, <3>2 DEF IInv, Held, AnswerIsGood
    <3>4. x # w
      BY <3>1, <3>3
    <3>. QED BY <3>1, <3>4
  <2>. QED BY <2>2, <2>3
<1>. QED BY <1>1, <1>2, <1>3 DEF Held

-----------------------------------------------------------------------------
(* Invariance.                                                             *)

LEMMA StepInv == IInv /\ [Next]_vars => IInv' /\ Kept
<1>. SUFFICES ASSUME IInv, [Next]_vars PROVE TypeOK' /\ HoldsTarget' /\ Held' /\ Kept
  BY DEF IInv, Typed
<1>1. ASSUME UNCHANGED <<good, worker>>, due' \subseteq Connections,
             manual' \in Nat, faults' \in Nat
      PROVE  TypeOK' /\ HoldsTarget' /\ Held' /\ Kept
  BY <1>1 DEF IInv, Typed, TypeOK, HoldsTarget, Held, AnswerIsGood, RowIsGood,
              GoodIsSomewhere, Answered, Kept
<1>2. ASSUME NEW c \in Connections, Expire(c)
      PROVE  TypeOK' /\ HoldsTarget' /\ Held' /\ Kept
  BY <1>1, <1>2 DEF Expire, IInv, Typed, TypeOK
<1>3. ASSUME NEW w \in Workers, refresh_ending_tokens(w)
      PROVE  TypeOK' /\ HoldsTarget' /\ Held' /\ Kept
  <2>1. PICK b \in SUBSET Connections : Load(w, b)
    BY <1>3 DEF refresh_ending_tokens, Selections, Due, IInv, Typed, TypeOK
  <2>. QED BY <1>3, <2>1, LoadStep DEF refresh_ending_tokens, IInv, Typed, TypeOK
<1>4. ASSUME NEW w \in Workers, NEW c \in Connections, refresh_single_token(w, c)
      PROVE  TypeOK' /\ HoldsTarget' /\ Held' /\ Kept
  <2>1. Load(w, {c}) /\ {c} \in SUBSET Connections
    BY <1>4 DEF refresh_single_token
  <2>. QED BY <1>4, <2>1, LoadStep DEF refresh_single_token, IInv, Typed, TypeOK
\* Where a session is done with connection c.
<1>5. ASSUME NEW w \in Workers, NEW c, worker' = [worker EXCEPT ![w] = After(w, c)]
      PROVE  /\ worker' \in [Workers -> WorkerState] /\ HoldsTarget'
             /\ \A x \in Workers, d \in Connections :
                   Answered(x, d)' <=> x # w /\ Answered(x, d)
  BY <1>5, AfterType, Settles DEF IInv, Typed
<1>6. ASSUME NEW w \in Workers, NEW c \in Connections, NoRefreshToken(w, c)
      PROVE  TypeOK' /\ HoldsTarget' /\ Held' /\ Kept
  <2>1. /\ worker' = [worker EXCEPT ![w] = After(w, c)] /\ good' = Dropped(w, c)
        /\ worker[w].pc # "answered" /\ UNCHANGED <<due, manual, faults>>
    BY <1>6 DEF NoRefreshToken
  <2>2. /\ good' \in [Connections -> SUBSET Places]
        /\ \A d \in Connections : good'[d] = good[d] \/ good'[d] = good[d] \ {w}
    BY <2>1 DEF Dropped, IInv, Typed, TypeOK
  <2>3. Held' /\ \A d \in Connections : good[d] # {} => good'[d] # {}
    BY <2>1, <2>2, <1>5, Drops
  <2>. QED BY <2>1, <2>2, <2>3, <1>5 DEF IInv, Typed, TypeOK, Kept
<1>7. ASSUME NEW w \in Workers, NEW c \in Connections, refresh_access_token(w, c)
      PROVE  TypeOK' /\ HoldsTarget' /\ Held' /\ Kept
  <2>1. /\ worker' = [worker EXCEPT ![w].pc = "sent", ![w].target = c]
        /\ worker[w].pc = "next" /\ UNCHANGED <<due, good, manual, faults>>
    BY <1>7 DEF refresh_access_token
  <2>2. /\ \A x \in Workers : x # w => worker'[x] = worker[x]
        /\ worker'[w].pc = "sent" /\ worker'[w].target = c
        /\ worker' \in [Workers -> WorkerState]
    BY <2>1 DEF IInv, Typed, TypeOK, WorkerState
  <2>3. \A x \in Workers, d \in Connections : Answered(x, d)' <=> Answered(x, d)
    BY <2>1, <2>2 DEF Answered
  <2>4. HoldsTarget'
    BY <2>2 DEF IInv, Typed, HoldsTarget
  <2>. QED BY <2>1, <2>2, <2>3, <2>4 DEF IInv, Typed, TypeOK, Held, AnswerIsGood, RowIsGood,
                                         GoodIsSomewhere, Kept
<1>8. ASSUME NEW w \in Workers, Rejected(w)
      PROVE  TypeOK' /\ HoldsTarget' /\ Held' /\ Kept
  <2>1. PICK c : worker' = [worker EXCEPT ![w] = After(w, c)]
    BY <1>8 DEF Rejected
  <2>2. worker[w].pc # "answered" /\ UNCHANGED <<due, good, manual, faults>>
    BY <1>8 DEF Rejected
  <2>3. Held' /\ \A d \in Connections : good[d] # {} => good'[d] # {}
    BY <2>1, <2>2, <1>5, Drops
  <2>. QED BY <2>1, <2>2, <2>3, <1>5 DEF IInv, Typed, TypeOK, Kept
<1>9. ASSUME NEW w \in Workers, NEW taken \in BOOLEAN, RequestFails(w, taken)
      PROVE  TypeOK' /\ HoldsTarget' /\ Held' /\ Kept
  <2>1. PICK c \in Connections : c = worker[w].target
    BY <1>9 DEF RequestFails, IInv, Typed, HoldsTarget
  <2>2. /\ worker' = [worker EXCEPT ![w] = After(w, c)] /\ faults' = faults + 1
        /\ good' = IF taken /\ w \in good[c] /\ c \in Rotates
                   THEN [good EXCEPT ![c] = {}] ELSE Dropped(w, c)
        /\ worker[w].pc = "sent" /\ UNCHANGED <<due, manual>>
    BY <1>9, <2>1 DEF RequestFails
  <2>3. /\ good' \in [Connections -> SUBSET Places]
        /\ \A d \in Connections : \/ good'[d] \in {good[d], good[d] \ {w}}
                                  \/ good'[d] = {} /\ w \in good[d] /\ d \in Rotates
    BY <2>2 DEF Dropped, IInv, Typed, TypeOK
  <2>4. \A d \in Connections : ~Answered(w, d)
    BY <2>2 DEF Answered
  <2>5. Held'
    BY <2>2, <2>3, <2>4, <1>5, FaultStep
  <2>6. Kept
    BY <2>2 DEF Kept
  <2>7. worker' \in [Workers -> WorkerState] /\ HoldsTarget'
    BY <2>2, <1>5
  <2>8. TypeOK'
    BY <2>2, <2>3, <2>7 DEF IInv, Typed, TypeOK
  <2>. QED BY <2>5, <2>6, <2>7, <2>8
<1>10. ASSUME NEW w \in Workers, CommitRefresh(w)
       PROVE  TypeOK' /\ HoldsTarget' /\ Held' /\ Kept
  <2>1. PICK c : /\ worker' = [worker EXCEPT ![w] = After(w, c)] /\ due' = NewExpiry(c)
                 /\ UNCHANGED <<manual, faults>>
    BY <1>10 DEF CommitRefresh
  <2>2. due' \subseteq Connections
    BY <2>1 DEF NewExpiry, IInv, Typed, TypeOK
  <2>. QED BY <1>10, <2>1, <2>2, <1>5, CommitStep DEF IInv, Typed, TypeOK
<1>11. ASSUME NEW w \in Workers, Crash(w)
       PROVE  TypeOK' /\ HoldsTarget' /\ Held' /\ Kept
  <2>1. /\ worker' = [worker EXCEPT ![w] = Idle] /\ faults' = faults + 1
        /\ good' = [c \in Connections |-> good[c] \ {w}] /\ UNCHANGED <<due, manual>>
    BY <1>11 DEF Crash
  <2>2. /\ worker' \in [Workers -> WorkerState] /\ HoldsTarget'
        /\ \A x \in Workers, d \in Connections : Answered(x, d)' <=> x # w /\ Answered(x, d)
    BY <2>1, IdleType, Settles DEF IInv
  <2>3. /\ good' \in [Connections -> SUBSET Places]
        /\ \A d \in Connections : good'[d] = good[d] \ {w}
    BY <2>1 DEF IInv, Typed, TypeOK
  <2>4. Held'
    BY <2>2, <2>3, FaultStep
  <2>. QED BY <2>1, <2>2, <2>3, <2>4 DEF IInv, Typed, TypeOK, Kept
<1>12. CASE UNCHANGED vars
  BY <1>1, <1>12 DEF vars, IInv, Typed, TypeOK
<1>. QED
  BY <1>2, <1>3, <1>4, <1>6, <1>7, <1>8, <1>9, <1>10, <1>11, <1>12, GrantedStep
     DEF Next, Proceed

LEMMA Invariance == Spec => []IInv
<1>1. IInv /\ [Next]_vars => IInv'
  BY StepInv
<1>. QED BY InitInv, <1>1, PTL DEF Spec

-----------------------------------------------------------------------------
(* Theorems.                                                               *)

\* The rows and the sessions keep their types, for any number of connections.
THEOREM TypeCorrect == Spec => []TypeOK
<1>1. IInv => TypeOK
  BY DEF IInv, Typed
<1>. QED BY <1>1, Invariance, PTL

\* With no answer in flight for a connection its row can be refreshed, if any
\* token of it is left.
THEOREM UsableTheorem == Spec => []UsableIsStored
<1>1. IInv => UsableIsStored
  BY DEF IInv, Held, GoodIsSomewhere, UsableIsStored, Answered
<1>. QED BY <1>1, Invariance, PTL

\* Overlapping batches and single refreshes never lose the last good refresh
\* token: only a crash or a failed request does.
THEOREM NoTokenLostTheorem == Spec => LostOnlyByFault
<1>. DEFINE A == \A c \in Connections : good[c] # {} /\ good'[c] = {} => faults' = faults + 1
<1>1. IInv /\ [Next]_vars => [A]_vars
  BY StepInv DEF Kept
<1>. QED BY <1>1, Invariance, PTL DEF Spec, LostOnlyByFault

-----------------------------------------------------------------------------
(* TaskSchedule.                                                           *)

\* Worker processes that run task t.
Running(t) == {w \in Processes : running[w] = t}

\* One message of task t is in exactly one place.
Balanced(t) == sent[t] = queue[t] + Cardinality(Running(t)) + ended[t] + discarded[t]

TaskInv == TaskTypeOK /\ \A t \in Tasks : Balanced(t)

-----------------------------------------------------------------------------
(* Counting worker processes.                                              *)

LEMMA RunningFinite ==
    \A t : IsFiniteSet(Running(t)) /\ Cardinality(Running(t)) \in Nat
<1>. TAKE t
<1>1. Running(t) \subseteq Processes
  BY DEF Running
<1>2. IsFiniteSet(Running(t))
  BY <1>1, FS_Subset, ProcessesAssumption
<1>. QED BY <1>2, FS_CardinalityType

\* A free worker process takes task x: one more runs x, no other count changes.
LEMMA CountTaken ==
    ASSUME TaskTypeOK, NEW w \in Processes, NEW x \in Tasks, running[w] = NoTask,
           running' = [running EXCEPT ![w] = x]
    PROVE  \A t \in Tasks : Cardinality(Running(t)') =
              IF t = x THEN Cardinality(Running(t)) + 1 ELSE Cardinality(Running(t))
<1>. TAKE t \in Tasks
<1>1. t # NoTask
  BY NoTaskAssumption
<1>2. w \notin Running(t)
  BY <1>1 DEF Running
<1>3. CASE t = x
  <2>1. Running(t)' = Running(t) \cup {w}
    BY <1>3 DEF Running, TaskTypeOK
  <2>. QED BY <2>1, <1>2, <1>3, RunningFinite, FS_AddElement
<1>4. CASE t # x
  <2>1. Running(t)' = Running(t)
    BY <1>1, <1>4 DEF Running, TaskTypeOK
  <2>. QED BY <2>1, <1>4
<1>. QED BY <1>3, <1>4

\* A worker process becomes free: one less runs the task it had.
LEMMA CountFreed ==
    ASSUME TaskTypeOK, NEW w \in Processes, running[w] # NoTask,
           running' = [running EXCEPT ![w] = NoTask]
    PROVE  \A t \in Tasks : Cardinality(Running(t)) =
              IF t = running[w] THEN Cardinality(Running(t)') + 1
                                ELSE Cardinality(Running(t)')
<1>. TAKE t \in Tasks
<1>1. t # NoTask
  BY NoTaskAssumption
<1>2. CASE t = running[w]
  <2>1. Running(t)' = Running(t) \ {w} /\ w \in Running(t)
    BY <1>1, <1>2 DEF Running, TaskTypeOK
  <2>2. Cardinality(Running(t) \ {w}) = Cardinality(Running(t)) - 1
    BY <2>1, RunningFinite, FS_RemoveElement
  <2>. QED BY <2>1, <2>2, <1>2, RunningFinite
<1>3. CASE t # running[w]
  <2>1. Running(t)' = Running(t)
    BY <1>1, <1>3 DEF Running, TaskTypeOK
  <2>. QED BY <2>1, <1>3
<1>. QED BY <1>2, <1>3

-----------------------------------------------------------------------------
(* Invariance.                                                             *)

LEMMA TaskInvInit == TaskInit => TaskInv
<1>. SUFFICES ASSUME TaskInit PROVE TaskInv
  OBVIOUS
<1>1. TaskTypeOK
  BY DEF TaskInit, TaskTypeOK, Nothing
<1>2. ASSUME NEW t \in Tasks PROVE Balanced(t)
  <2>1. Running(t) = {}
    BY NoTaskAssumption DEF Running, TaskInit
  <2>2. Cardinality(Running(t)) = 0
    BY <2>1, FS_EmptySet
  <2>. QED BY <2>2 DEF Balanced, TaskInit, Nothing
<1>. QED BY <1>1, <1>2 DEF TaskInv

LEMMA TaskTypeStep == TaskTypeOK /\ [TaskNext]_taskVars => TaskTypeOK'
<1>. SUFFICES ASSUME TaskTypeOK, [TaskNext]_taskVars PROVE TaskTypeOK'
  OBVIOUS
<1>. USE DEF TaskTypeOK
<1>1. ASSUME NEW t \in Tasks, Send(t) PROVE TaskTypeOK'
  BY <1>1 DEF Send
<1>2. ASSUME NEW t \in Tasks, Discard(t) PROVE TaskTypeOK'
  BY <1>2 DEF Discard
<1>3. ASSUME NEW w \in Processes, NEW t \in Tasks, Take(w, t) PROVE TaskTypeOK'
  BY <1>3 DEF Take, Runnable
<1>4. ASSUME NEW w \in Processes, Finish(w) PROVE TaskTypeOK'
  <2>1. running[w] \in Tasks
    BY <1>4 DEF Finish
  <2>. QED BY <1>4, <2>1 DEF Finish
<1>5. ASSUME NEW w \in Processes, WorkerLost(w) PROVE TaskTypeOK'
  <2>1. running[w] \in Tasks
    BY <1>5 DEF WorkerLost
  <2>. QED BY <1>5, <2>1 DEF WorkerLost, Requeued
<1>6. CASE UNCHANGED taskVars
  BY <1>6 DEF taskVars
<1>. QED BY <1>1, <1>2, <1>3, <1>4, <1>5, <1>6 DEF TaskNext, Beat, Manual, Tasks

LEMMA BalanceStep == TaskInv /\ [TaskNext]_taskVars => \A t \in Tasks : Balanced(t)'
<1>. SUFFICES ASSUME TaskInv, [TaskNext]_taskVars, NEW t \in Tasks PROVE Balanced(t)'
  OBVIOUS
<1>1. /\ sent[t] \in Nat /\ queue[t] \in Nat /\ ended[t] \in Nat /\ discarded[t] \in Nat
      /\ Cardinality(Running(t)) \in Nat /\ Cardinality(Running(t)') \in Nat
      /\ Balanced(t)
  <2>1. \A x : Cardinality({w \in Processes : running'[w] = x}) \in Nat
    <3>. TAKE x
    <3>1. IsFiniteSet({w \in Processes : running'[w] = x})
      BY FS_Subset, ProcessesAssumption
    <3>. QED BY <3>1, FS_CardinalityType
  <2>. QED BY <2>1, RunningFinite DEF TaskInv, TaskTypeOK, Running
<1>2. ASSUME NEW x \in Tasks, Send(x) PROVE Balanced(t)'
  <2>1. Running(t)' = Running(t)
    BY <1>2 DEF Send, Running
  <2>. QED BY <1>1, <1>2, <2>1 DEF Send, Balanced, TaskInv, TaskTypeOK
<1>3. ASSUME NEW x \in Tasks, Discard(x) PROVE Balanced(t)'
  <2>1. Running(t)' = Running(t)
    BY <1>3 DEF Discard, Running
  <2>. QED BY <1>1, <1>3, <2>1 DEF Discard, Balanced, TaskInv, TaskTypeOK
<1>4. ASSUME NEW w \in Processes, NEW x \in Tasks, Take(w, x) PROVE Balanced(t)'
  <2>1. Cardinality(Running(t)') =
           IF t = x THEN Cardinality(Running(t)) + 1 ELSE Cardinality(Running(t))
    BY <1>4, CountTaken DEF Take, TaskInv
  <2>. QED BY <1>1, <1>4, <2>1 DEF Take, Balanced, TaskInv, TaskTypeOK
<1>5. ASSUME NEW w \in Processes, Finish(w) PROVE Balanced(t)'
  <2>1. Cardinality(Running(t)) = IF t = running[w] THEN Cardinality(Running(t)') + 1
                                  ELSE Cardinality(Running(t)')
    BY <1>5, CountFreed DEF Finish, TaskInv
  <2>. QED BY <1>1, <1>5, <2>1 DEF Finish, Balanced, TaskInv, TaskTypeOK
<1>6. ASSUME NEW w \in Processes, WorkerLost(w) PROVE Balanced(t)'
  <2>1. Cardinality(Running(t)) = IF t = running[w] THEN Cardinality(Running(t)') + 1
                                  ELSE Cardinality(Running(t)')
    BY <1>6, CountFreed DEF WorkerLost, TaskInv
  <2>. QED BY <1>1, <1>6, <2>1 DEF WorkerLost, Requeued, Balanced, TaskInv, TaskTypeOK
<1>7. CASE UNCHANGED taskVars
  <2>1. Running(t)' = Running(t)
    BY <1>7 DEF taskVars, Running
  <2>. QED BY <1>1, <1>7, <2>1 DEF taskVars, Balanced
<1>. QED BY <1>2, <1>3, <1>4, <1>5, <1>6, <1>7 DEF TaskNext, Beat, Manual, Tasks

LEMMA TaskInvariance == TaskSpec => []TaskInv
<1>1. TaskInv /\ [TaskNext]_taskVars => TaskInv'
  BY TaskTypeStep, BalanceStep DEF TaskInv
<1>. QED BY TaskInvInit, <1>1, PTL DEF TaskSpec

-----------------------------------------------------------------------------
(* Theorems.                                                               *)

\* The queue, the worker processes and the counts keep their types.
THEOREM TaskTypeCorrect == TaskSpec => []TaskTypeOK
  BY TaskInvariance, PTL DEF TaskInv

\* Every message sent is waiting, being run, has ended or was discarded, and is
\* counted once, for any number of worker processes and losses.
THEOREM NothingLostTheorem == TaskSpec => []NothingLost
<1>1. TaskInv => NothingLost
  BY DEF TaskInv, NothingLost, Balanced, Running
<1>. QED BY <1>1, TaskInvariance, PTL
=============================================================================
