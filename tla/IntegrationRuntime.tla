------------------------- MODULE IntegrationRuntime --------------------------
(***************************************************************************)
(* The older package, agentforge_integrations: IntegrationManager          *)
(* (core/manager.py) with its table of loaded integrations, the clients of *)
(* the integrations and OAuth2Auth (auth/oauth2.py) in one event loop.     *)
(*                                                                         *)
(* Loading never suspends in the integrations the package has, so it is    *)
(* one step with what calls it.  A step ends at an await that does.        *)
(***************************************************************************)
EXTENDS Naturals, Sequences, SequencesExt

CONSTANTS
    Callers,        \* coroutines
    Closers,        \* those that call close_all
    Names,          \* registered integrations
    OAuthNames,     \* those that authenticate with OAuth2Auth: teams
    StoreNames,     \* those whose writes are two requests: documentation
    Instances,      \* bound: pool of integration objects
    NoInstance      \* None

ASSUME NameAssumption == OAuthNames \cup StoreNames \subseteq Names
ASSUME CloserAssumption == Closers \subseteq Callers
ASSUME InstanceAssumption == NoInstance \notin Instances

VARIABLES
    instances,      \* _instances, a dict: entries in the order they were added
    open,           \* instances whose client is open
    token,          \* _access_token of each instance's OAuth2Auth
    lock,           \* its _lock: the holder, then those who wait, in order
    call            \* local state of each caller

vars == <<instances, open, token, lock, call>>

Entry == [name : Names, instance : Instances]
Call == [pc : {"idle", "auth", "waiting", "refreshing", "sent", "closing"},
         op : {"none", "execute", "health"},
         name : Names \cup {"none"}, instance : Instances \cup {NoInstance},
         requests : Nat,            \* still to send, after this one
         names : SUBSET Names,      \* health_check_all: still to check
         at : Nat, size : Nat]      \* close_all: the iterator over _instances

Idle == [pc |-> "idle", op |-> "none", name |-> "none", instance |-> NoInstance, requests |-> 0,
         names |-> {}, at |-> 0, size |-> 0]

TypeOK ==
    /\ instances \in Seq(Entry)
    /\ open \subseteq Instances
    /\ token \in [Instances -> {"none", "fresh", "stale"}]
    /\ lock \in [Instances -> Seq(Callers)]
    /\ call \in [Callers -> Call]

Init ==
    /\ instances = <<>> /\ open = {}
    /\ token = [i \in Instances |-> "none"]
    /\ lock = [i \in Instances |-> <<>>]
    /\ call = [c \in Callers |-> Idle]

-----------------------------------------------------------------------------
(* Loading.                                                                *)

Loaded == {instances[k].name : k \in DOMAIN instances}
Entered == {instances[k].instance : k \in DOMAIN instances}

\* Objects nobody refers to and that hold nothing are taken again.
Unused == Instances \ (Entered \cup open \cup {call[c].instance : c \in Callers})

\* load_integration: the instance the table has for n afterwards.
Loading(n) ==
    IF n \in Loaded
    THEN CHOOSE i \in Entered :
            \E k \in DOMAIN instances : instances[k] = [name |-> n, instance |-> i]
    ELSE CHOOSE i \in Unused : TRUE

load_integration(n) ==
    IF n \in Loaded
    THEN UNCHANGED <<instances, open, token>>
    ELSE /\ Unused # {}
         /\ open' = open \cup {Loading(n)}
         /\ instances' = Append(instances, [name |-> n, instance |-> Loading(n)])
         /\ token' = [token EXCEPT ![Loading(n)] = "none"]

Becomes(c, w) == call' = [call EXCEPT ![c] = w]

-----------------------------------------------------------------------------
(* Callers.                                                                *)

\* execute: load, then the action, one request or (for the sha) two.  (Without
\* credentials it raises and nothing changes; for an action that is unknown it
\* raises after the load, as get_integration.)
execute(c, n) ==
    /\ call[c].pc = "idle"
    /\ load_integration(n)
    /\ \E more \in IF n \in StoreNames THEN {0, 1} ELSE {0} :
          Becomes(c, [Idle EXCEPT !.pc = "auth", !.op = "execute", !.name = n,
                                  !.instance = Loading(n), !.requests = more])
    /\ UNCHANGED lock

\* get_integration, for a webhook too: the package's handlers only log.
get_integration(c, n) ==
    /\ call[c].pc = "idle"
    /\ load_integration(n)
    /\ UNCHANGED <<lock, call>>

\* health_check_all goes to the next name, or returns.  Names whose credentials
\* are missing are passed over; what else a load raises (a decryption that
\* fails) ends the call, with loaded names unchecked.
Checks(c, left) ==
    \/ /\ Becomes(c, Idle)
       /\ left = {} \/ ~ (left \subseteq Loaded)
       /\ UNCHANGED <<instances, open, token>>
    \/ \E n \in left :
          /\ load_integration(n)
          /\ Becomes(c, [Idle EXCEPT !.pc = "auth", !.op = "health", !.name = n,
                                     !.instance = Loading(n), !.names = left \ {n}])

health_check_all(c) ==
    /\ call[c].pc = "idle"
    /\ Checks(c, Names)
    /\ UNCHANGED lock

\* A request is over: a health check goes on whatever came of it, an action
\* ends when it failed.  (No exception httpx raises is one @retry repeats.)
Over(c, ok) ==
    IF call[c].op = "health" THEN Checks(c, call[c].names)
    ELSE /\ UNCHANGED <<instances, open, token>>
         /\ IF ok /\ call[c].requests > 0
            THEN Becomes(c, [call[c] EXCEPT !.pc = "auth", !.requests = @ - 1])
            ELSE Becomes(c, Idle)

-----------------------------------------------------------------------------
(* A request: the closed client refuses it, else OAuth2Auth has its token. *)

Refuse(c) ==
    /\ call[c].pc = "auth" /\ call[c].instance \notin open
    /\ Over(c, FALSE)
    /\ UNCHANGED lock

Fresh(i) == token[i] = "fresh"

\* Without OAuth2Auth, or with a token that is still good.
Send(c) ==
    /\ call[c].pc = "auth" /\ call[c].instance \in open
    /\ call[c].name \in OAuthNames => Fresh(call[c].instance)
    /\ Becomes(c, [call[c] EXCEPT !.pc = "sent"])
    /\ UNCHANGED <<instances, open, token, lock>>

\* get_access_token before the lock.
Lock(c) ==
    /\ call[c].pc = "auth" /\ call[c].instance \in open
    /\ call[c].name \in OAuthNames /\ ~ Fresh(call[c].instance)
    /\ lock' = [lock EXCEPT ![call[c].instance] = Append(@, c)]
    /\ Becomes(c, [call[c] EXCEPT !.pc = "waiting"])
    /\ UNCHANGED <<instances, open, token>>

\* Whether c held the lock or was still waiting for it.
Without(s, c) ==
    IF Contains(s, c) THEN RemoveAt(s, CHOOSE k \in DOMAIN s : s[k] = c) ELSE s

UnlockedNever(c) == lock
Unlocked(c) == [i \in Instances |-> Without(lock[i], c)]

Holds(c) == lock[call[c].instance] # <<>> /\ Head(lock[call[c].instance]) = c

\* The second look at the token, under the lock.
LookedAgainNot(i) == FALSE
LookedAgain(i) == Fresh(i)

Locked(c) ==
    /\ call[c].pc = "waiting" /\ Holds(c)
    /\ IF LookedAgain(call[c].instance)
       THEN Becomes(c, [call[c] EXCEPT !.pc = "sent"]) /\ lock' = Unlocked(c)
       ELSE Becomes(c, [call[c] EXCEPT !.pc = "refreshing"]) /\ UNCHANGED lock
    /\ UNCHANGED <<instances, open, token>>

\* expires_in may be shorter than refresh_buffer: the token is used all the same.
LifetimesMisspelt == {"fresh", "expired"}
Lifetimes == {"fresh", "stale"}

_refresh_token(c) ==
    /\ call[c].pc = "refreshing"
    /\ \E state \in Lifetimes : token' = [token EXCEPT ![call[c].instance] = state]
    /\ lock' = Unlocked(c)
    /\ Becomes(c, [call[c] EXCEPT !.pc = "sent"])
    /\ UNCHANGED <<instances, open>>

\* AuthenticationError, or the request for the token failed.
RefreshFails(c) ==
    /\ call[c].pc = "refreshing"
    /\ lock' = Unlocked(c)
    /\ Over(c, FALSE)

Answered(c) ==
    /\ call[c].pc = "sent"
    /\ \E ok \in BOOLEAN : Over(c, ok)
    /\ UNCHANGED lock

-----------------------------------------------------------------------------
(* close_all: a for loop over _instances.items(), then clear().            *)

IteratesCopy(c) == TRUE
IteratorValid(c) == Len(instances) = call[c].size

\* aclose marks the client closed and then suspends.
CloseNext(c, w) ==
    /\ open' = open \ {instances[w.at].instance}
    /\ Becomes(c, [w EXCEPT !.at = @ + 1])
    /\ UNCHANGED instances

Clear(c) == instances' = <<>> /\ Becomes(c, Idle) /\ UNCHANGED open

close_all(c) ==
    /\ call[c].pc = "idle"
    /\ LET w == [Idle EXCEPT !.pc = "closing", !.at = 1, !.size = Len(instances)] IN
       IF instances = <<>> THEN Clear(c) ELSE CloseNext(c, w)
    /\ UNCHANGED <<token, lock>>

\* The iterator raises RuntimeError if the dict has changed its size.
CloseMore(c) ==
    /\ call[c].pc = "closing"
    /\ IF ~ IteratorValid(c) THEN Becomes(c, Idle) /\ UNCHANGED <<instances, open>>
       ELSE IF call[c].at > call[c].size THEN Clear(c)
       ELSE CloseNext(c, call[c])
    /\ UNCHANGED <<token, lock>>

-----------------------------------------------------------------------------
\* Time: less than refresh_buffer is left of a token.
Lapse(i) ==
    /\ token[i] = "fresh"
    /\ token' = [token EXCEPT ![i] = "stale"]
    /\ UNCHANGED <<instances, open, lock, call>>

\* A caller is cancelled at an await; async with gives the lock back.
Cancel(c) ==
    /\ call[c].pc \notin {"idle", "auth"}
    /\ Becomes(c, Idle)
    /\ lock' = Unlocked(c)
    /\ UNCHANGED <<instances, open, token>>

Proceed(c) ==
    \/ Refuse(c) \/ Send(c) \/ Lock(c) \/ Locked(c)
    \/ _refresh_token(c) \/ RefreshFails(c) \/ Answered(c)
    \/ CloseMore(c)

Next ==
    \/ \E c \in Callers :
          \/ \E n \in Names : execute(c, n) \/ get_integration(c, n)
          \/ health_check_all(c)
          \/ Proceed(c) \/ Cancel(c)
    \/ \E c \in Closers : close_all(c)
    \/ \E i \in Instances : Lapse(i)

Spec == Init /\ [][Next]_vars

\* Requests have a timeout of 30 seconds, and an asyncio.Lock is fair.
FairSpec == Spec /\ \A c \in Callers : WF_vars(Proceed(c))

-----------------------------------------------------------------------------
(* Properties.                                                             *)

\* close_all, interrupted by a load, by an exception or by a cancellation,
\* never drops an instance whose client is open: the next close_all finds it.
\* (A client counts as open until aclose is called.  A coroutine that had passed
\* the client's check then still sends through its transport, which may connect
\* again; the connection is the transport's and not in `open`.)
NoLeak == open \subseteq Entered

\* However many callers find the token expired, one asks for a new one, and
\* only if there is no good one (get_access_token).
NoNeedlessRefresh ==
    [][\A c \in Callers :
          call[c].pc # "refreshing" /\ call'[c].pc = "refreshing" =>
              /\ ~ Fresh(call[c].instance)
              /\ \A d \in Callers \ {c} : ~ (/\ call[d].pc = "refreshing"
                                             /\ call[d].instance = call[c].instance)]_vars

\* No caller waits for ever for the lock, and close_all comes to its end.
CallsEnd == \A c \in Callers : call[c].pc # "idle" ~> call[c].pc = "idle"

\* What the table has can be used: an integration whose client was closed is
\* loaded again by the next call (load_integration looks only at the name).
TableIsOpen ==
    (\A c \in Callers : call[c].pc # "closing") =>
        Entered \subseteq open
=============================================================================
