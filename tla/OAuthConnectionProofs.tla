----------------------- MODULE OAuthConnectionProofs -----------------------
(***************************************************************************)
(* Proofs about OAuthConnection for any number of sessions and states.     *)
(* ClosedIsInactive is not inductive: a session that saw the connection    *)
(* inactive leaves is_active out of its UPDATE, so what it saw must still  *)
(* hold when it commits (SeenHolds).                                       *)
(***************************************************************************)
EXTENDS OAuthConnection, TLAPS

Closing == {"revoke", "revoke_local", "disconnect"}

\* What a session in flight may rely on at its COMMIT.
SeenHolds ==
    \A w \in Workers :
        /\ worker[w].pc \in {"exchange", "store"} => worker[w].state \in States
        /\ worker[w].pc = "refresh" => /\ worker[w].seen.token \in Tokens
                                       /\ connection.status # "absent"
        /\ worker[w].pc \in Closing =>
              /\ worker[w].seen.status # "absent"
              /\ connection.status # "absent"
              /\ ~worker[w].seen.active => ~connection.active

\* A connection's tokens come with a row.
TokenHasRow == connection.token # None => connection.status # "absent"

\* The credentials row remembers a callback that no deletion has paid for yet.
CredentialGuards ==
    /\ ReplayNeedsDeletion
    /\ credential = None => \A s \in States : uses[s] <= deletions

IInv == /\ TypeOK /\ StoredMeansConsumed /\ ClosedIsInactive
        /\ SeenHolds /\ TokenHasRow /\ CredentialGuards

-----------------------------------------------------------------------------

LEMMA InitInv == Init => IInv
<1>. SUFFICES ASSUME Init PROVE IInv
  OBVIOUS
<1>1. Idle \in WorkerState /\ NoConnection \in Connections
  BY DEF Idle, NoConnection, WorkerState, Connections
<1>2. TypeOK
  BY <1>1 DEF Init, TypeOK
<1>3. SeenHolds /\ TokenHasRow /\ ClosedIsInactive
  BY DEF Init, SeenHolds, TokenHasRow, ClosedIsInactive, Idle, NoConnection, Closing
<1>4. StoredMeansConsumed /\ CredentialGuards
  BY DEF Init, StoredMeansConsumed, CredentialGuards, ReplayNeedsDeletion
<1>. QED BY <1>2, <1>3, <1>4 DEF IInv

\* What the states table, the uses and the credentials row owe each other.
TableInv ==
    /\ has_revoke_url \in RevokeUrl
    /\ oauth_state \in [States -> {"absent", "pending", "consumed", "deleted"}]
    /\ expired \subseteq States
    /\ credential \in Tokens \cup {None}
    /\ uses \in [States -> Nat]
    /\ dropped \subseteq States
    /\ deletions \in Nat
    /\ faults \in Nat
    /\ StoredMeansConsumed
    /\ CredentialGuards

\* What the connection's row and the sessions owe each other.
RowInv ==
    /\ connection \in Connections
    /\ worker \in [Workers -> WorkerState]
    /\ ClosedIsInactive
    /\ SeenHolds
    /\ TokenHasRow

LEMMA Split == IInv <=> TableInv /\ RowInv /\ cleaning \subseteq States
  BY DEF IInv, TypeOK, TableInv, RowInv

\* The tables are only changed by the steps of states and of callbacks.
LEMMA TableStep == IInv /\ [Next]_vars => TableInv'
<1>. SUFFICES ASSUME IInv, [Next]_vars PROVE TableInv'
  OBVIOUS
<1>0. TableInv /\ has_revoke_url' = has_revoke_url
  BY Split DEF Next, vars
<1>. USE <1>0 DEF TableInv, StoredMeansConsumed, CredentialGuards, ReplayNeedsDeletion
<1>1. ASSUME NEW s \in States,
             create_authorization_url(s) \/ Expire(s) \/ ExpiredState(s)
      PROVE  TableInv'
  BY <1>1 DEF create_authorization_url, Expire, ExpiredState
<1>2. CASE cleanup_expired_states \/ CommitCleanup
  BY <1>2 DEF cleanup_expired_states, CommitCleanup, Spent
<1>3. CASE delete_credential
  BY <1>3 DEF delete_credential
<1>4. ASSUME NEW w \in Workers, Callback(w) PROVE TableInv'
  <2>1. ASSUME NEW s \in States, handle_callback(w, s) PROVE TableInv'
    BY <2>1 DEF handle_callback
  <2>2. CASE Exchanged(w)
    BY <2>2 DEF Exchanged
  <2>3. CASE ExchangeRefused(w)
    <3>1. worker[w].state \in States
      BY <2>3 DEF ExchangeRefused, IInv, SeenHolds
    <3>. QED BY <2>3, <3>1 DEF ExchangeRefused
  <2>4. CASE Stored(w)
    <3>1. PICK s \in States : s = worker[w].state
      BY <2>4 DEF Stored, IInv, SeenHolds
    <3>2. /\ credential = None /\ credential' = [grant |-> s, gen |-> 0]
          /\ oauth_state' = [oauth_state EXCEPT ![s] = "consumed"]
          /\ uses' = [uses EXCEPT ![s] = @ + 1]
          /\ UNCHANGED <<expired, dropped, deletions, faults>>
      BY <2>4, <3>1 DEF Stored, Insertable, Marked
    <3>3. credential' \in Tokens /\ credential' # None
      BY <3>2, NoneAssumption DEF Tokens
    <3>4. \A x \in States : uses[x] <= deletions
      BY <3>2
    <3>. QED BY <3>2, <3>3, <3>4
  <2>5. CASE NotStored(w)
    <3>1. worker[w].state \in States
      BY <2>5 DEF NotStored, IInv, SeenHolds
    <3>. QED BY <2>5, <3>1 DEF NotStored
  <2>. QED BY <1>4, <2>1, <2>2, <2>3, <2>4, <2>5 DEF Callback
<1>5. ASSUME NEW w \in Workers, Maintenance(w) PROVE TableInv'
  BY <1>5 DEF Maintenance, refresh_access_token, CommitRefresh, RefreshFails, revoke_token,
              CommitRevoke, CommitRevokeLocal, disconnect, CommitDisconnect, Load
<1>6. ASSUME NEW w \in Workers, Crash(w) PROVE TableInv'
  BY <1>6 DEF Crash
<1>7. CASE UNCHANGED vars
  BY <1>7 DEF vars
<1>. QED BY <1>1, <1>2, <1>3, <1>4, <1>5, <1>6, <1>7 DEF Next, Elsewhere

\* A session that ends leaves the others what they had.
LEMMA Ends ==
    ASSUME RowInv, NEW w \in Workers, worker' = [worker EXCEPT ![w] = Idle],
           connection' \in Connections,
           connection'.token # None => connection'.status # "absent",
           ClosedIsInactive',
           connection.status # "absent" => /\ connection'.status # "absent"
                                           /\ ~connection.active => ~connection'.active
    PROVE  RowInv'
<1>1. Idle \in WorkerState /\ Idle.pc = "idle"
  BY DEF Idle, NoConnection, WorkerState, Connections
<1>2. worker' \in [Workers -> WorkerState]
  BY <1>1 DEF RowInv
<1>3. TokenHasRow'
  BY DEF TokenHasRow
<1>4. SeenHolds'
  <2>. SUFFICES ASSUME NEW x \in Workers
                PROVE  /\ worker'[x].pc \in {"exchange", "store"} => worker'[x].state \in States
                       /\ worker'[x].pc = "refresh" => /\ worker'[x].seen.token \in Tokens
                                                       /\ connection'.status # "absent"
                       /\ worker'[x].pc \in Closing =>
                             /\ worker'[x].seen.status # "absent"
                             /\ connection'.status # "absent"
                             /\ ~worker'[x].seen.active => ~connection'.active
    BY DEF SeenHolds
  <2>1. CASE x = w
    BY <2>1, <1>1 DEF RowInv, Closing
  <2>2. CASE x # w
    <3>1. worker'[x] = worker[x]
      BY <2>2 DEF RowInv
    <3>. QED BY <3>1 DEF RowInv, SeenHolds
  <2>. QED BY <2>1, <2>2
<1>. QED BY <1>2, <1>3, <1>4 DEF RowInv

\* A session that begins, or goes on, with the row unchanged.
LEMMA Moves ==
    ASSUME RowInv, NEW w \in Workers, NEW local \in WorkerState,
           worker' = [worker EXCEPT ![w] = local], UNCHANGED connection,
           local.pc \in {"exchange", "store"} => local.state \in States,
           local.pc = "refresh" => /\ local.seen.token \in Tokens
                                   /\ connection.status # "absent",
           local.pc \in Closing => local.seen = connection /\ connection.status # "absent"
    PROVE  RowInv'
<1>1. worker' \in [Workers -> WorkerState]
  BY DEF RowInv
<1>2. \A x \in Workers : worker'[x] = IF x = w THEN local ELSE worker[x]
  BY DEF RowInv
<1>3. SeenHolds'
  BY <1>2 DEF RowInv, SeenHolds
<1>. QED BY <1>1, <1>3 DEF RowInv, ClosedIsInactive, TokenHasRow

LEMMA RowStep == IInv /\ [Next]_vars => RowInv'
<1>. SUFFICES ASSUME IInv, [Next]_vars PROVE RowInv'
  OBVIOUS
<1>0. RowInv
  BY Split
<1>1. ASSUME UNCHANGED <<connection, worker>> PROVE RowInv'
  BY <1>0, <1>1 DEF RowInv, ClosedIsInactive, SeenHolds, TokenHasRow
<1>2. ASSUME NEW w \in Workers, worker' = [worker EXCEPT ![w] = Idle], UNCHANGED connection
      PROVE  RowInv'
  BY <1>0, <1>2, Ends DEF RowInv, ClosedIsInactive, TokenHasRow
<1>3. ASSUME NEW w \in Workers, Callback(w) PROVE RowInv'
  <2>1. ASSUME NEW s \in States, handle_callback(w, s) PROVE RowInv'
    <3>1. /\ [Idle EXCEPT !.pc = "exchange", !.state = s] \in WorkerState
          /\ [Idle EXCEPT !.pc = "exchange", !.state = s].pc = "exchange"
          /\ [Idle EXCEPT !.pc = "exchange", !.state = s].state = s
      BY DEF Idle, NoConnection, WorkerState, Connections
    <3>. QED BY <1>0, <2>1, <3>1, Moves DEF handle_callback, Closing
  <2>2. CASE Exchanged(w)
    <3>1. worker[w] \in WorkerState /\ worker[w].state \in States
      BY <1>0, <2>2 DEF RowInv, SeenHolds, Exchanged
    <3>2. /\ [worker[w] EXCEPT !.pc = "store"] \in WorkerState
          /\ [worker[w] EXCEPT !.pc = "store"].pc = "store"
          /\ [worker[w] EXCEPT !.pc = "store"].state \in States
      BY <3>1 DEF WorkerState
    <3>3. worker' = [worker EXCEPT ![w] = [worker[w] EXCEPT !.pc = "store"]]
      BY <2>2 DEF Exchanged
    <3>. QED BY <1>0, <2>2, <3>2, <3>3, Moves DEF Exchanged, Closing
  <2>3. CASE ExchangeRefused(w) \/ NotStored(w)
    BY <1>2, <2>3 DEF ExchangeRefused, NotStored
  <2>4. CASE Stored(w)
    <3>1. PICK s \in States : s = worker[w].state
      BY <1>0, <2>4 DEF RowInv, SeenHolds, Stored
    <3>2. [grant |-> s, gen |-> 0] \in Tokens
      BY DEF Tokens
    <3>3. connection' = [status |-> "connected", token |-> [grant |-> s, gen |-> 0],
                         active |-> IF connection.status = "absent" THEN TRUE
                                    ELSE connection.active]
      BY <2>4, <3>1 DEF Stored, Upserted
    <3>4. connection' \in Connections
      BY <1>0, <3>2, <3>3 DEF RowInv, Connections
    <3>5. /\ connection'.status = "connected"
          /\ connection.status # "absent" => connection'.active = connection.active
      BY <3>3
    <3>6. ClosedIsInactive'
      BY <3>5 DEF ClosedIsInactive
    <3>7. worker' = [worker EXCEPT ![w] = Idle]
      BY <2>4 DEF Stored
    <3>. QED BY <1>0, <3>4, <3>5, <3>6, <3>7, Ends
  <2>. QED BY <1>3, <2>1, <2>2, <2>3, <2>4 DEF Callback
<1>4. ASSUME NEW w \in Workers, Maintenance(w) PROVE RowInv'
  <2>1. ASSUME NEW pc \in {"refresh", "revoke_local", "revoke", "disconnect"},
               Load(w, pc), connection.status # "absent",
               pc = "refresh" => connection.token # None
        PROVE  RowInv'
    <3>1. connection \in Connections
      BY <1>0 DEF RowInv
    <3>2. /\ [Idle EXCEPT !.pc = pc, !.seen = connection] \in WorkerState
          /\ [Idle EXCEPT !.pc = pc, !.seen = connection].pc = pc
          /\ [Idle EXCEPT !.pc = pc, !.seen = connection].seen = connection
      BY <3>1 DEF Idle, WorkerState
    <3>3. pc = "refresh" => connection.token \in Tokens
      BY <2>1, <3>1 DEF Connections
    <3>. QED BY <1>0, <2>1, <3>2, <3>3, Moves DEF Load
  <2>2. CASE refresh_access_token(w)
    BY <1>0, <2>1, <2>2 DEF refresh_access_token, RowInv, TokenHasRow
  <2>3. CASE revoke_token(w)
    BY <2>1, <2>3 DEF revoke_token
  <2>4. CASE disconnect(w)
    BY <2>1, <2>4 DEF disconnect
  <2>5. CASE RefreshFails(w)
    BY <1>2, <2>5 DEF RefreshFails
  <2>6. CASE CommitRefresh(w)
    <3>1. PICK t \in Tokens : t = worker[w].seen.token
      BY <1>0, <2>6 DEF RowInv, SeenHolds, CommitRefresh
    <3>2. [t EXCEPT !.gen = @ + 1] \in Tokens
      BY DEF Tokens
    <3>3. PICK n \in Tokens : connection' = [connection EXCEPT !.token = n]
      BY <2>6, <3>1, <3>2 DEF CommitRefresh, Refreshed
    <3>4. /\ connection' \in Connections /\ connection'.status = connection.status
          /\ connection'.active = connection.active
      BY <1>0, <3>3 DEF RowInv, Connections
    <3>5. connection.status # "absent"
      BY <1>0, <2>6 DEF RowInv, SeenHolds, CommitRefresh
    <3>6. ClosedIsInactive'
      BY <1>0, <3>4 DEF RowInv, ClosedIsInactive
    <3>7. worker' = [worker EXCEPT ![w] = Idle]
      BY <2>6 DEF CommitRefresh
    <3>. QED BY <1>0, <3>4, <3>5, <3>6, <3>7, Ends
  <2>7. ASSUME NEW st \in {"revoked", "disconnected"}, NEW token \in Tokens \cup {None},
               worker[w].pc \in Closing, worker' = [worker EXCEPT ![w] = Idle],
               connection' = Closed(worker[w].seen, st, token)
        PROVE  RowInv'
    <3>1. /\ connection \in Connections /\ worker[w].seen \in Connections
          /\ connection.status # "absent"
          /\ ~worker[w].seen.active => ~connection.active
      BY <1>0, <2>7 DEF RowInv, SeenHolds, WorkerState
    <3>2. /\ connection'.token = token
          /\ connection'.status = Flushed(worker[w].seen.status, st, connection.status)
          /\ connection'.active = Flushed(worker[w].seen.active, FALSE, connection.active)
          /\ connection' = [status |-> connection'.status, active |-> connection'.active,
                            token |-> connection'.token]
      BY <2>7 DEF Closed
    <3>3. connection'.status \in {st, connection.status}
      BY <3>2 DEF Flushed
    <3>4. connection'.active = FALSE
      BY <3>1, <3>2, Zenon DEF Flushed, Connections
    <3>5. connection.status \in {"connected", "revoked", "disconnected"}
      BY <3>1 DEF Connections
    <3>6. connection' \in Connections /\ connection'.status # "absent"
      BY <2>7, <3>2, <3>3, <3>4, <3>5 DEF Connections
    <3>7. ClosedIsInactive'
      BY <3>4 DEF ClosedIsInactive
    <3>. QED BY <1>0, <2>7, <3>4, <3>6, <3>7, Ends
  <2>8. connection.token \in Tokens \cup {None}
    BY <1>0 DEF RowInv, Connections
  <2>9. CASE CommitRevoke(w)
    BY <2>7, <2>9 DEF CommitRevoke, Closing
  <2>10. CASE CommitRevokeLocal(w)
    BY <2>7, <2>8, <2>10 DEF CommitRevokeLocal, Closing
  <2>11. CASE CommitDisconnect(w)
    BY <2>7, <2>8, <2>11 DEF CommitDisconnect, Closing
  <2>. QED BY <1>4, <2>2, <2>3, <2>4, <2>5, <2>6, <2>9, <2>10, <2>11 DEF Maintenance
<1>5. ASSUME NEW w \in Workers, Crash(w) PROVE RowInv'
  BY <1>2, <1>5 DEF Crash
<1>6. CASE \/ \E s \in States : create_authorization_url(s) \/ Expire(s) \/ ExpiredState(s)
           \/ cleanup_expired_states
           \/ CommitCleanup
           \/ delete_credential
           \/ UNCHANGED vars
  BY <1>1, <1>6 DEF create_authorization_url, Expire, ExpiredState, cleanup_expired_states,
                    CommitCleanup, delete_credential, vars
<1>. QED BY <1>3, <1>4, <1>5, <1>6 DEF Next, Elsewhere

LEMMA Invariance == Spec => []IInv
<1>1. IInv /\ [Next]_vars => IInv'
  <2>. SUFFICES ASSUME IInv, [Next]_vars PROVE IInv'
    OBVIOUS
  <2>1. TableInv' /\ RowInv'
    BY TableStep, RowStep
  <2>2. (cleaning \subseteq States)'
    BY DEF IInv, TypeOK, Next, Elsewhere, cleanup_expired_states, CommitCleanup, Spent, vars
  <2>. QED BY <2>1, <2>2, Split DEF IInv, TypeOK, TableInv, RowInv
<1>. QED BY InitInv, <1>1, PTL DEF Spec

-----------------------------------------------------------------------------
(* Theorems.                                                               *)

\* The tables and the sessions keep their types.
THEOREM TypeCorrect == Spec => []TypeOK
  BY Invariance, PTL DEF IInv

\* Tokens and the mark of their state are committed together.
THEOREM AtomicCallbackTheorem == Spec => []StoredMeansConsumed
  BY Invariance, PTL DEF IInv

\* Partial UPDATEs of overlapping sessions never leave a revoked or disconnected
\* connection active.
THEOREM ClosedTheorem == Spec => []ClosedIsInactive
  BY Invariance, PTL DEF IInv

\* Any number of overlapping callbacks with one state store its tokens once, and
\* once more only for each deletion of the credentials row.
THEOREM ReplayTheorem == Spec => []ReplayNeedsDeletion
  BY Invariance, PTL DEF IInv, CredentialGuards

\* Where nobody deletes that row a state is a one-time token.
THEOREM OneTimeTheorem ==
    ASSUME MaxDeletions = 0
    PROVE  Spec => []OneTimeState
<1>. DEFINE Undeleted == deletions = 0
<1>1. Init => Undeleted
  BY DEF Init
<1>2. IInv /\ Undeleted /\ [Next]_vars => Undeleted'
  <2>. SUFFICES ASSUME IInv, Undeleted, [Next]_vars PROVE Undeleted'
    OBVIOUS
  <2>1. ~delete_credential
    BY DEF delete_credential
  <2>. QED BY <2>1 DEF Next, Elsewhere, vars, create_authorization_url, Expire, ExpiredState,
      cleanup_expired_states, CommitCleanup, Callback, handle_callback, Exchanged, ExchangeRefused,
      Stored, NotStored, Maintenance, refresh_access_token, CommitRefresh, RefreshFails,
      revoke_token, CommitRevoke, CommitRevokeLocal, disconnect, CommitDisconnect, Load,
      Crash
<1>3. IInv /\ Undeleted => OneTimeState
  <2>. SUFFICES ASSUME IInv, deletions = 0, NEW s \in States PROVE uses[s] <= 1
    BY DEF OneTimeState
  <2>1. uses[s] <= deletions + 1
    BY DEF IInv, CredentialGuards, ReplayNeedsDeletion
  <2>. QED BY <2>1
<1>. QED BY <1>1, <1>2, <1>3, Invariance, PTL DEF Spec
\* What OnlyCallbackConnects says of one step.
Connects ==
    connection'.status = "connected" /\ connection.status # "connected"
        => \E w \in Workers : worker[w].pc = "store" /\ worker'[w].pc = "idle"

LEMMA ClosedNeverConnects ==
    ASSUME NEW seen, NEW status \in {"revoked", "disconnected"}, NEW token
    PROVE  Closed(seen, status, token).status \in {status, connection.status}
  BY DEF Closed, Flushed

LEMMA StepConnects == IInv /\ [Next]_vars => Connects
<1>. SUFFICES ASSUME IInv, [Next]_vars, connection' # connection
     PROVE  Connects
  BY DEF Connects
<1>1. PICK w \in Workers : Callback(w) \/ Maintenance(w) \/ Crash(w)
  BY DEF Next, Elsewhere, vars, create_authorization_url, Expire, ExpiredState,
         cleanup_expired_states, CommitCleanup, delete_credential
<1>2. CASE Stored(w)
  <2>1. worker[w].pc = "store" /\ worker'[w].pc = "idle"
    BY <1>2 DEF Stored, IInv, TypeOK, Idle
  <2>. QED BY <2>1 DEF Connects
<1>3. CASE CommitRefresh(w)
  BY <1>3 DEF CommitRefresh, Refreshed, Connects, IInv, TypeOK, Connections
<1>4. CASE CommitRevoke(w) \/ CommitRevokeLocal(w) \/ CommitDisconnect(w)
  <2>1. \/ connection' = Closed(worker[w].seen, "revoked", None)
        \/ connection' = Closed(worker[w].seen, "revoked", connection.token)
        \/ connection' = Closed(worker[w].seen, "disconnected", connection.token)
    BY <1>4 DEF CommitRevoke, CommitRevokeLocal, CommitDisconnect
  <2>2. connection'.status \in {"revoked", "disconnected", connection.status}
    BY <2>1, ClosedNeverConnects
  <2>. QED BY <2>2 DEF Connects
<1>. QED
  BY <1>1, <1>2, <1>3, <1>4
     DEF Callback, Maintenance, Crash, handle_callback, Exchanged, ExchangeRefused, NotStored,
         refresh_access_token, RefreshFails, revoke_token, disconnect, Load

\* Only the COMMIT of a callback turns a connection on, whatever refreshes and
\* revocations overlap.
THEOREM OnlyCallbackTheorem == Spec => OnlyCallbackConnects
<1>1. IInv /\ [Next]_vars => [Connects]_vars
  BY StepConnects
<1>. QED BY <1>1, Invariance, PTL DEF Spec, OnlyCallbackConnects, Connects
=============================================================================
