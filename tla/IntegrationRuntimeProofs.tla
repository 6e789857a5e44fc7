---------------------- MODULE IntegrationRuntimeProofs ----------------------
(***************************************************************************)
(* With one coroutine that calls close_all, no interruption of it leaks an *)
(* open client.  With any number of them, one caller at a time asks for a  *)
(* new token.                                                              *)
(***************************************************************************)
EXTENDS IntegrationRuntime, TLAPS

\* The lock plays no part.
Typed ==
    /\ instances \in Seq(Entry)
    /\ open \subseteq Instances
    /\ call \in [Callers -> Call]

\* How far close_all has come: what its iterator has passed is closed, and the
\* table has only grown since it began.
Passed(c) ==
    /\ c \in Closers
    /\ call[c].size <= Len(instances)
    /\ call[c].at \in 1..(call[c].size + 1)
    /\ \A k \in 1..Len(instances) : k < call[c].at => instances[k].instance \notin open

IInv ==
    /\ Typed
    /\ NoLeak
    /\ \A c \in Callers : call[c].pc = "closing" => Passed(c)

OneCloser == \A c, d \in Closers : c = d

LEMMA Initially == Init => IInv
  <1> SUFFICES ASSUME Init PROVE IInv
    OBVIOUS
  <1>1. Idle \in Call
    BY DEF Idle, Call
  <1> QED
    BY <1>1 DEF Init, IInv, Typed, NoLeak, Entered, Idle

\* The table never holds an object twice: what is loaded was not entered.
LEMMA LoadingIsNew ==
    ASSUME NEW n \in Names, n \notin Loaded, Unused # {}
    PROVE  Loading(n) \in Instances \ (Entered \cup open)
  <1>1. Loading(n) \in Unused
    BY DEF Loading
  <1> QED
    BY <1>1 DEF Unused

LEMMA LoadingIsInstance ==
    ASSUME Typed, NEW n \in Names, n \in Loaded \/ Unused # {}
    PROVE  Loading(n) \in Instances
  <1>1. CASE n \notin Loaded
    BY <1>1, LoadingIsNew
  <1>2. CASE n \in Loaded
    <2>1. PICK k \in DOMAIN instances : instances[k].name = n
      BY <1>2 DEF Loaded
    <2>2. instances[k] \in Entry
      BY <2>1 DEF Typed
    <2>3. instances[k] = [name |-> n, instance |-> instances[k].instance]
      BY <2>1, <2>2 DEF Entry
    <2>4. instances[k].instance \in Entered
      BY <2>1 DEF Entered
    <2>5. Loading(n) \in Entered
      BY <1>2, <2>1, <2>3, <2>4 DEF Loading
    <2>6. \A m \in DOMAIN instances : instances[m] \in Entry
      BY DEF Typed
    <2>7. Entered \subseteq Instances
      BY <2>6 DEF Entered, Entry
    <2> QED
      BY <2>5, <2>7
  <1> QED
    BY <1>1, <1>2

\* What a load does to the table and to the open clients.
LEMMA LoadKeeps ==
    ASSUME Typed, NoLeak, NEW n \in Names, load_integration(n)
    PROVE  /\ instances' \in Seq(Entry) /\ open' \subseteq Instances
           /\ NoLeak'
           /\ Loading(n) \in Instances
           /\ Len(instances') >= Len(instances)
           /\ \A k \in 1..Len(instances) : instances'[k] = instances[k]
           /\ \A k \in 1..Len(instances) :
                 instances[k].instance \notin open => instances[k].instance \notin open'
           /\ \A k \in 1..Len(instances') :
                 k <= Len(instances) => instances'[k] = instances[k]
  <1>1. CASE n \in Loaded
    BY <1>1, LoadingIsInstance DEF load_integration, Typed, NoLeak, Entered
  <1>2. CASE n \notin Loaded
    <2>1. /\ Unused # {}
          /\ open' = open \cup {Loading(n)}
          /\ instances' = Append(instances, [name |-> n, instance |-> Loading(n)])
      BY <1>2 DEF load_integration
    <2>2. Loading(n) \in Instances \ (Entered \cup open)
      BY <1>2, <2>1, LoadingIsNew
    <2>3. [name |-> n, instance |-> Loading(n)] \in Entry
      BY <2>2 DEF Entry
    <2>4. instances' \in Seq(Entry) /\ Len(instances') = Len(instances) + 1
      BY <2>1, <2>3 DEF Typed
    <2>5. \A k \in 1..Len(instances) : instances'[k] = instances[k]
      BY <2>1, <2>3 DEF Typed
    <2>6. instances'[Len(instances) + 1] = [name |-> n, instance |-> Loading(n)]
      BY <2>1, <2>3 DEF Typed
    <2>7. NoLeak'
      <3> SUFFICES ASSUME NEW i \in open' PROVE i \in Entered'
        BY DEF NoLeak
      <3>1. CASE i = Loading(n)
        BY <3>1, <2>4, <2>6 DEF Entered, Typed
      <3>2. CASE i \in open
        <4>1. PICK k \in 1..Len(instances) : instances[k].instance = i
          BY <3>2 DEF NoLeak, Entered, Typed
        <4> QED
          BY <4>1, <2>4, <2>5 DEF Entered, Typed
      <3> QED
        BY <3>1, <3>2, <2>1
    <2>8. \A k \in 1..Len(instances) : instances[k].instance \in Entered
      BY DEF Entered, Typed
    <2> QED
      BY <2>1, <2>2, <2>4, <2>5, <2>7, <2>8 DEF Typed
  <1> QED
    BY <1>1, <1>2

\* A step that loads at most, and whose caller is not closing afterwards.
Harmless ==
    /\ instances' \in Seq(Entry) /\ open' \subseteq Instances
    /\ NoLeak'
    /\ Len(instances') >= Len(instances)
    /\ \A k \in 1..Len(instances) : instances'[k] = instances[k]
    /\ \A k \in 1..Len(instances) :
          instances[k].instance \notin open => instances[k].instance \notin open'

LEMMA HarmlessKeeps ==
    ASSUME IInv, Harmless, call' \in [Callers -> Call],
           \A d \in Callers : call'[d].pc = "closing" => call'[d] = call[d]
    PROVE  IInv'
  <1>1. Typed' /\ NoLeak'
    BY DEF Harmless, Typed
  <1>2. ASSUME NEW d \in Callers, call'[d].pc = "closing" PROVE Passed(d)'
    <2>1. call'[d] = call[d] /\ call[d].pc = "closing" /\ Passed(d)
      BY <1>2 DEF IInv
    <2>2. call[d].size \in Nat /\ call[d].at \in Nat /\ Len(instances) \in Nat /\ Len(instances') \in Nat
      BY DEF IInv, Typed, Call, Harmless
    <2>3. call[d].at <= Len(instances) + 1
      BY <2>1, <2>2 DEF Passed
    <2>4. ASSUME NEW k \in 1..Len(instances'), k < call[d].at
          PROVE  instances'[k].instance \notin open'
      <3>1. k \in 1..Len(instances)
        BY <2>2, <2>3, <2>4
      <3>2. instances'[k] = instances[k] /\ instances[k].instance \notin open
        BY <3>1, <2>1, <2>4 DEF Harmless, Passed
      <3> QED
        BY <3>1, <3>2 DEF Harmless
    <2> QED
      BY <2>1, <2>2, <2>4 DEF Passed, Harmless
  <1> QED
    BY <1>1, <1>2 DEF IInv

LEMMA StayIsHarmless ==
    ASSUME Typed, NoLeak, UNCHANGED <<instances, open>>
    PROVE  Harmless
  BY DEF Harmless, Typed, NoLeak, Entered

\* Becomes with a record of the right type that is not closing.
LEMMA BecomesKeeps ==
    ASSUME IInv, Harmless, NEW c \in Callers, NEW w \in Call, Becomes(c, w),
           w.pc # "closing"
    PROVE  IInv'
  <1>1. call \in [Callers -> Call]
    BY DEF IInv, Typed
  <1>2. call' \in [Callers -> Call]
    BY <1>1 DEF Becomes
  <1>3. \A d \in Callers : call'[d] = IF d = c THEN w ELSE call[d]
    BY <1>1 DEF Becomes
  <1> QED
    BY <1>2, <1>3, HarmlessKeeps

LEMMA IdleIsCall == Idle \in Call /\ Idle.pc = "idle"
  BY DEF Idle, Call

LEMMA ChecksKeeps ==
    ASSUME IInv, NEW c \in Callers, NEW left \in SUBSET Names, Checks(c, left)
    PROVE  IInv'
  <1>1. CASE Becomes(c, Idle) /\ UNCHANGED <<instances, open, token>>
    BY <1>1, StayIsHarmless, BecomesKeeps, IdleIsCall DEF IInv
  <1>2. ASSUME NEW n \in left, load_integration(n),
               Becomes(c, [Idle EXCEPT !.pc = "auth", !.op = "health", !.name = n,
                                       !.instance = Loading(n), !.names = left \ {n}])
        PROVE  IInv'
    <2> DEFINE w == [Idle EXCEPT !.pc = "auth", !.op = "health", !.name = n,
                                 !.instance = Loading(n), !.names = left \ {n}]
    <2>1. Harmless /\ Loading(n) \in Instances
      BY <1>2, LoadKeeps DEF IInv, Harmless
    <2>2. w \in Call /\ w.pc = "auth"
      BY <2>1 DEF Idle, Call
    <2> QED
      BY <1>2, <2>1, <2>2, BecomesKeeps
  <1> QED
    BY <1>1, <1>2 DEF Checks

LEMMA OverKeeps ==
    ASSUME IInv, NEW c \in Callers, NEW ok \in BOOLEAN, Over(c, ok)
    PROVE  IInv'
  <1>0. call[c] \in Call
    BY DEF IInv, Typed
  <1>1. CASE call[c].op = "health"
    <2>1. call[c].names \in SUBSET Names
      BY <1>0 DEF Call
    <2> QED
      BY <1>1, <2>1, ChecksKeeps DEF Over
  <1>2. CASE call[c].op # "health"
    <2>1. Harmless
      BY <1>2, StayIsHarmless DEF Over, IInv
    <2>2. CASE ok /\ call[c].requests > 0
      <3> DEFINE w == [call[c] EXCEPT !.pc = "auth", !.requests = @ - 1]
      <3>0. call[c].requests \in Nat /\ call[c].requests - 1 \in Nat
        BY <1>0, <2>2 DEF Call
      <3>1. w \in Call /\ w.pc = "auth"
        BY <1>0, <3>0 DEF Call
      <3> QED
        BY <1>2, <2>1, <2>2, <3>1, BecomesKeeps DEF Over
    <2>3. CASE ~ (ok /\ call[c].requests > 0)
      BY <1>2, <2>1, <2>3, BecomesKeeps, IdleIsCall DEF Over
    <2> QED
      BY <2>2, <2>3
  <1> QED
    BY <1>1, <1>2

\* close_all goes on: the client of the entry its iterator is at is closed.
LEMMA CloseNextKeeps ==
    ASSUME IInv, OneCloser, NEW c \in Closers, NEW w \in Call,
           w.pc = "closing", w.at >= 1, w.at <= w.size, w.size <= Len(instances),
           \A k \in 1..Len(instances) : k < w.at => instances[k].instance \notin open,
           CloseNext(c, w)
    PROVE  IInv'
  <1>0. c \in Callers /\ call \in [Callers -> Call] /\ instances \in Seq(Entry)
    BY CloserAssumption DEF IInv, Typed
  <1> DEFINE v == [w EXCEPT !.at = @ + 1]
  <1>1. v \in Call /\ v.at = w.at + 1 /\ v.size = w.size /\ v.pc = "closing"
    BY DEF Call
  <1>2. /\ open' = open \ {instances[w.at].instance}
        /\ instances' = instances
        /\ call' = [call EXCEPT ![c] = v]
    BY DEF CloseNext, Becomes
  <1>3. call' \in [Callers -> Call] /\ call'[c] = v
    BY <1>0, <1>1, <1>2
  <1>4. Typed' /\ NoLeak'
    BY <1>2, <1>3 DEF IInv, Typed, NoLeak, Entered
  <1>5. ASSUME NEW d \in Callers, call'[d].pc = "closing" PROVE d = c
    <2>1. CASE d # c
      <3>1. call[d].pc = "closing"
        BY <1>0, <1>2, <1>5, <2>1
      <3> QED
        BY <3>1 DEF IInv, Passed, OneCloser
    <2> QED
      BY <2>1
  <1>6. Passed(c)'
    <2>1. w.at \in Nat /\ w.size \in Nat /\ Len(instances) \in Nat
      BY <1>0 DEF Call
    <2>2. ASSUME NEW k \in 1..Len(instances), k < w.at + 1
          PROVE  instances[k].instance \notin open'
      <3>1. k < w.at \/ k = w.at
        BY <2>1, <2>2
      <3> QED
        BY <1>2, <2>2, <3>1
    <2> QED
      BY <1>1, <1>2, <1>3, <2>1, <2>2 DEF Passed
  <1> QED
    BY <1>4, <1>5, <1>6 DEF IInv

\* The table is cleared when every client in it is closed.
LEMMA ClearKeeps ==
    ASSUME IInv, OneCloser, NEW c \in Closers, open = {}, Clear(c)
    PROVE  IInv'
  <1>0. c \in Callers /\ call \in [Callers -> Call]
    BY CloserAssumption DEF IInv, Typed
  <1>1. call' = [call EXCEPT ![c] = Idle] /\ instances' = <<>> /\ open' = {}
    BY DEF Clear, Becomes
  <1>2. Typed' /\ NoLeak'
    BY <1>0, <1>1, IdleIsCall DEF IInv, Typed, NoLeak
  <1>3. ASSUME NEW d \in Callers, call'[d].pc = "closing" PROVE FALSE
    <2>1. d # c /\ call[d].pc = "closing"
      BY <1>0, <1>1, <1>3, IdleIsCall
    <2>2. c \in Closers /\ d \in Closers
      BY <2>1 DEF IInv, Passed
    <2> QED
      BY <2>1, <2>2 DEF OneCloser
  <1> QED
    BY <1>2, <1>3 DEF IInv

LEMMA NextKeeps == IInv /\ OneCloser /\ [Next]_vars => IInv'
  <1> SUFFICES ASSUME IInv, OneCloser, [Next]_vars PROVE IInv'
    OBVIOUS
  <1>0. Typed /\ NoLeak /\ call \in [Callers -> Call]
    BY DEF IInv, Typed
  <1>1. ASSUME NEW c \in Callers, NEW n \in Names, execute(c, n) PROVE IInv'
    <2>1. Harmless /\ Loading(n) \in Instances
      BY <1>0, <1>1, LoadKeeps DEF execute, Harmless
    <2>2. PICK more \in {0, 1} :
             Becomes(c, [Idle EXCEPT !.pc = "auth", !.op = "execute", !.name = n,
                                     !.instance = Loading(n), !.requests = more])
      BY <1>1 DEF execute
    <2> DEFINE w == [Idle EXCEPT !.pc = "auth", !.op = "execute", !.name = n,
                                 !.instance = Loading(n), !.requests = more]
    <2>3. more \in Nat
      BY <2>2
    <2>4. w \in Call /\ w.pc = "auth"
      BY <2>1, <2>3 DEF Idle, Call
    <2> QED
      BY <2>1, <2>2, <2>4, BecomesKeeps
  <1>2. ASSUME NEW c \in Callers, NEW n \in Names, get_integration(c, n) PROVE IInv'
    <2>1. Harmless /\ call' = call
      BY <1>0, <1>2, LoadKeeps DEF get_integration, Harmless
    <2> QED
      BY <1>0, <2>1, HarmlessKeeps
  <1>3. ASSUME NEW c \in Callers, health_check_all(c) PROVE IInv'
    BY <1>3, ChecksKeeps DEF health_check_all
  <1>4. ASSUME NEW c \in Callers, Refuse(c) PROVE IInv'
    BY <1>4, OverKeeps DEF Refuse
  <1>5. ASSUME NEW c \in Callers, Send(c) PROVE IInv'
    <2>1. /\ [call[c] EXCEPT !.pc = "sent"] \in Call
          /\ [call[c] EXCEPT !.pc = "sent"].pc = "sent"
      BY <1>0 DEF Call
    <2> QED
      BY <1>0, <1>5, <2>1, StayIsHarmless, BecomesKeeps DEF Send
  <1>6. ASSUME NEW c \in Callers, Lock(c) PROVE IInv'
    <2>1. /\ [call[c] EXCEPT !.pc = "waiting"] \in Call
          /\ [call[c] EXCEPT !.pc = "waiting"].pc = "waiting"
      BY <1>0 DEF Call
    <2> QED
      BY <1>0, <1>6, <2>1, StayIsHarmless, BecomesKeeps DEF Lock
  <1>7. ASSUME NEW c \in Callers, Locked(c) PROVE IInv'
    <2>1. /\ [call[c] EXCEPT !.pc = "sent"] \in Call
          /\ [call[c] EXCEPT !.pc = "sent"].pc = "sent"
          /\ [call[c] EXCEPT !.pc = "refreshing"] \in Call
          /\ [call[c] EXCEPT !.pc = "refreshing"].pc = "refreshing"
      BY <1>0 DEF Call
    <2> QED
      BY <1>0, <1>7, <2>1, StayIsHarmless, BecomesKeeps DEF Locked
  <1>8. ASSUME NEW c \in Callers, _refresh_token(c) PROVE IInv'
    <2>1. /\ [call[c] EXCEPT !.pc = "sent"] \in Call
          /\ [call[c] EXCEPT !.pc = "sent"].pc = "sent"
      BY <1>0 DEF Call
    <2> QED
      BY <1>0, <1>8, <2>1, StayIsHarmless, BecomesKeeps DEF _refresh_token
  <1>9. ASSUME NEW c \in Callers, RefreshFails(c) PROVE IInv'
    BY <1>9, OverKeeps DEF RefreshFails
  <1>10. ASSUME NEW c \in Callers, Answered(c) PROVE IInv'
    BY <1>10, OverKeeps DEF Answered
  <1>11. ASSUME NEW c \in Callers, Cancel(c) PROVE IInv'
    BY <1>0, <1>11, StayIsHarmless, BecomesKeeps, IdleIsCall DEF Cancel
  <1>12. ASSUME NEW c \in Closers, close_all(c) PROVE IInv'
    <2> DEFINE w == [Idle EXCEPT !.pc = "closing", !.at = 1, !.size = Len(instances)]
    <2>1. CASE instances = <<>>
      <3>1. open = {}
        BY <1>0, <2>1 DEF NoLeak, Entered
      <3> QED
        BY <1>12, <2>1, <3>1, ClearKeeps DEF close_all
    <2>2. CASE instances # <<>>
      <3>1. Len(instances) \in Nat /\ Len(instances) >= 1
        BY <1>0, <2>2 DEF Typed
      <3>2. /\ w \in Call /\ w.pc = "closing" /\ w.at = 1 /\ w.size = Len(instances)
        BY <3>1 DEF Idle, Call
      <3>3. CloseNext(c, w)
        BY <1>12, <2>2 DEF close_all
      <3>4. \A k \in 1..Len(instances) : ~ (k < w.at)
        BY <3>1, <3>2
      <3>5. /\ w.at >= 1 /\ w.at <= w.size /\ w.size <= Len(instances)
            /\ \A k \in 1..Len(instances) :
                  k < w.at => instances[k].instance \notin open
        BY <3>1, <3>2, <3>4
      <3> HIDE DEF w
      <3> QED
        BY <3>2, <3>3, <3>5, CloseNextKeeps
    <2> QED
      BY <2>1, <2>2
  <1>13. ASSUME NEW c \in Callers, CloseMore(c) PROVE IInv'
    <2>0. /\ call[c] \in Call /\ call[c].pc = "closing" /\ Passed(c) /\ c \in Closers
          /\ call[c].at \in Nat /\ call[c].size \in Nat /\ Len(instances) \in Nat
      BY <1>0, <1>13 DEF CloseMore, IInv, Passed, Call, Typed
    <2>1. CASE ~ IteratorValid(c)
      BY <1>0, <1>13, <2>1, StayIsHarmless, BecomesKeeps, IdleIsCall DEF CloseMore
    <2>2. CASE IteratorValid(c) /\ call[c].at > call[c].size
      <3>1. \A k \in 1..Len(instances) : instances[k].instance \notin open
        BY <2>0, <2>2 DEF IteratorValid, Passed
      <3>2. open = {}
        BY <1>0, <3>1 DEF NoLeak, Entered, Typed
      <3> QED
        BY <1>13, <2>0, <2>2, <3>2, ClearKeeps DEF CloseMore
    <2>3. CASE IteratorValid(c) /\ ~ (call[c].at > call[c].size)
      <3>1. CloseNext(c, call[c])
        BY <1>13, <2>3 DEF CloseMore
      <3>2. call[c].at <= call[c].size
        BY <2>0, <2>3
      <3>3. /\ call[c].at >= 1 /\ call[c].size <= Len(instances)
            /\ \A k \in 1..Len(instances) :
                  k < call[c].at => instances[k].instance \notin open
        BY <2>0 DEF Passed
      <3> QED
        BY <2>0, <3>1, <3>2, <3>3, CloseNextKeeps
    <2> QED
      BY <2>1, <2>2, <2>3
  <1>14. ASSUME NEW i \in Instances, Lapse(i) PROVE IInv'
    BY <1>0, <1>14, StayIsHarmless, HarmlessKeeps DEF Lapse
  <1>15. ASSUME UNCHANGED vars PROVE IInv'
    BY <1>0, <1>15, StayIsHarmless, HarmlessKeeps DEF vars
  <1> QED
    BY <1>1, <1>2, <1>3, <1>4, <1>5, <1>6, <1>7, <1>8, <1>9, <1>10, <1>11, <1>12,
       <1>13, <1>14, <1>15 DEF Next, Proceed

\* However close_all is interrupted, by loads, exceptions or a cancellation, an
\* open client stays in the table (core/manager.py, load_integration and
\* close_all), with one coroutine that closes.
THEOREM NoLeakTheorem == Spec /\ OneCloser => []NoLeak
  <1>1. IInv => NoLeak
    BY DEF IInv
  <1>2. CASE OneCloser
    <2>1. IInv /\ [Next]_vars => IInv'
      BY <1>2, NextKeeps
    <2> QED
      BY <1>1, <2>1, Initially, PTL DEF Spec
  <1> QED
    BY <1>2

-----------------------------------------------------------------------------
(* The lock and the token, however many coroutines close.                  *)

LEMMA WithoutFacts ==
    ASSUME NEW s \in Seq(Callers), NEW c \in Callers
    PROVE  /\ Without(s, c) \in Seq(Callers)
           /\ s # <<>> /\ s[1] # c =>
                 Without(s, c) # <<>> /\ Head(Without(s, c)) = s[1]
  <1>1. CASE ~ Contains(s, c)
    BY <1>1 DEF Without
  <1>2. CASE Contains(s, c)
    <2> DEFINE k == CHOOSE k \in DOMAIN s : s[k] = c
    <2>1. k \in 1..Len(s) /\ s[k] = c
      BY <1>2 DEF Contains
    <2>2. Without(s, c) = SubSeq(s, 1, k - 1) \o SubSeq(s, k + 1, Len(s))
      BY <1>2 DEF Without, RemoveAt
    <2> HIDE DEF k
    <2>3. /\ SubSeq(s, 1, k - 1) \in Seq(Callers)
          /\ SubSeq(s, k + 1, Len(s)) \in Seq(Callers)
          /\ Len(SubSeq(s, 1, k - 1)) = k - 1
      BY <2>1
    <2>4. Without(s, c) \in Seq(Callers)
      BY <2>2, <2>3
    <2>5. ASSUME s # <<>>, s[1] # c
          PROVE  Without(s, c) # <<>> /\ Head(Without(s, c)) = s[1]
      <3>1. k > 1
        BY <2>1, <2>5
      <3> DEFINE a == SubSeq(s, 1, k - 1)
                 b == SubSeq(s, k + 1, Len(s))
      <3>2. a[1] = s[1] /\ Len(a) >= 1
        BY <2>1, <3>1
      <3>3. a \in Seq(Callers) /\ b \in Seq(Callers)
        BY <2>3
      <3> HIDE DEF a, b
      <3>4. (a \o b)[1] = a[1] /\ Len(a \o b) >= 1 /\ a \o b \in Seq(Callers)
        BY <3>2, <3>3
      <3>5. Without(s, c) = a \o b
        BY <2>2 DEF a, b
      <3> QED
        BY <3>2, <3>4, <3>5
    <2> QED
      BY <2>4, <2>5
  <1> QED
    BY <1>1, <1>2

\* The records a caller becomes.
CallStays == call' \in [Callers -> Call]

LEMMA BecomesType ==
    ASSUME TypeOK, NEW c \in Callers, NEW w \in Call, Becomes(c, w)
    PROVE  CallStays /\ \A d \in Callers : call'[d] = IF d = c THEN w ELSE call[d]
  BY DEF TypeOK, Becomes, CallStays

LEMMA LoadType ==
    ASSUME TypeOK, NEW n \in Names, load_integration(n)
    PROVE  /\ instances' \in Seq(Entry) /\ open' \subseteq Instances
           /\ token' \in [Instances -> {"none", "fresh", "stale"}]
           /\ Loading(n) \in Instances
  <1>1. CASE n \in Loaded
    BY <1>1, LoadingIsInstance DEF load_integration, TypeOK, Typed
  <1>2. CASE n \notin Loaded
    <2>1. Loading(n) \in Instances
      BY <1>2, LoadingIsInstance DEF load_integration, TypeOK, Typed
    <2>2. [name |-> n, instance |-> Loading(n)] \in Entry
      BY <2>1 DEF Entry
    <2>3. /\ open' = open \cup {Loading(n)}
          /\ instances' = Append(instances, [name |-> n, instance |-> Loading(n)])
          /\ token' = [token EXCEPT ![Loading(n)] = "none"]
      BY <1>2 DEF load_integration
    <2>4. instances' \in Seq(Entry)
      BY <2>2, <2>3 DEF TypeOK
    <2>5. /\ open' \subseteq Instances
          /\ token' \in [Instances -> {"none", "fresh", "stale"}]
      BY <2>1, <2>3 DEF TypeOK
    <2> QED
      BY <2>1, <2>4, <2>5
  <1> QED
    BY <1>1, <1>2

\* A load, or a step that leaves table, clients and tokens alone.
Stable ==
    /\ instances' \in Seq(Entry) /\ open' \subseteq Instances
    /\ token' \in [Instances -> {"none", "fresh", "stale"}]

LEMMA ChecksType ==
    ASSUME TypeOK, NEW c \in Callers, NEW left \in SUBSET Names, Checks(c, left)
    PROVE  /\ Stable /\ CallStays
           /\ \A d \in Callers \ {c} : call'[d] = call[d]
           /\ call'[c].pc \in {"idle", "auth"}
           /\ call'[c].pc = "auth" => call'[c].instance \in Instances
  <1>1. CASE Becomes(c, Idle) /\ UNCHANGED <<instances, open, token>>
    BY <1>1, BecomesType, IdleIsCall DEF Stable, TypeOK
  <1>2. ASSUME NEW n \in left, load_integration(n),
               Becomes(c, [Idle EXCEPT !.pc = "auth", !.op = "health", !.name = n,
                                       !.instance = Loading(n), !.names = left \ {n}])
        PROVE  /\ Stable /\ CallStays
               /\ \A d \in Callers \ {c} : call'[d] = call[d]
               /\ call'[c].pc \in {"idle", "auth"}
               /\ call'[c].pc = "auth" => call'[c].instance \in Instances
    <2> DEFINE w == [Idle EXCEPT !.pc = "auth", !.op = "health", !.name = n,
                                 !.instance = Loading(n), !.names = left \ {n}]
    <2>1. Stable /\ Loading(n) \in Instances
      BY <1>2, LoadType DEF Stable
    <2>2. w \in Call /\ w.pc = "auth" /\ w.instance \in Instances
      BY <2>1 DEF Idle, Call
    <2>3. Becomes(c, w)
      BY <1>2
    <2> HIDE DEF w
    <2> QED
      BY <2>1, <2>2, <2>3, BecomesType
  <1> QED
    BY <1>1, <1>2 DEF Checks

LEMMA OverType ==
    ASSUME TypeOK, NEW c \in Callers, NEW ok \in BOOLEAN, Over(c, ok),
           call[c].instance \in Instances
    PROVE  /\ Stable /\ CallStays
           /\ \A d \in Callers \ {c} : call'[d] = call[d]
           /\ call'[c].pc \in {"idle", "auth"}
           /\ call'[c].pc = "auth" => call'[c].instance \in Instances
  <1>0. call[c] \in Call
    BY DEF TypeOK
  <1>1. CASE call[c].op = "health"
    <2>1. call[c].names \in SUBSET Names
      BY <1>0 DEF Call
    <2> QED
      BY <1>1, <2>1, ChecksType DEF Over
  <1>2. CASE call[c].op # "health"
    <2>1. Stable
      BY <1>2 DEF Over, Stable, TypeOK
    <2>2. CASE ok /\ call[c].requests > 0
      <3> DEFINE w == [call[c] EXCEPT !.pc = "auth", !.requests = @ - 1]
      <3>0. call[c].requests \in Nat /\ call[c].requests - 1 \in Nat
        BY <1>0, <2>2 DEF Call
      <3>1. w \in Call /\ w.pc = "auth" /\ w.instance \in Instances
        BY <1>0, <3>0 DEF Call
      <3>2. Becomes(c, w)
        BY <1>2, <2>2 DEF Over
      <3> HIDE DEF w
      <3> QED
        BY <2>1, <3>1, <3>2, BecomesType
    <2>3. CASE ~ (ok /\ call[c].requests > 0)
      <3>1. Becomes(c, Idle)
        BY <1>2, <2>3 DEF Over
      <3> QED
        BY <2>1, <3>1, BecomesType, IdleIsCall
    <2> QED
      BY <2>2, <2>3
  <1> QED
    BY <1>1, <1>2

Working == {"auth", "waiting", "refreshing", "sent"}

\* A caller that works has an instance, and the one that refreshes its token is
\* the first in the lock.
HolderRefreshes ==
    \A c \in Callers :
        /\ call[c].pc \in Working => call[c].instance \in Instances
        /\ call[c].pc = "refreshing" => Holds(c)

RInv == TypeOK /\ HolderRefreshes

LEMMA RInitially == Init => RInv
  <1> SUFFICES ASSUME Init PROVE RInv
    OBVIOUS
  <1>1. \A c \in Callers : call[c] = Idle
    BY DEF Init
  <1>2. TypeOK
    BY IdleIsCall DEF Init, TypeOK
  <1>3. HolderRefreshes
    BY <1>1, IdleIsCall DEF HolderRefreshes, Working
  <1> QED
    BY <1>2, <1>3 DEF RInv

\* The lock after c has left it.
LEMMA UnlockedFacts ==
    ASSUME RInv, NEW c \in Callers, lock' = Unlocked(c)
    PROVE  /\ lock' \in [Instances -> Seq(Callers)]
           /\ \A d \in Callers \ {c} :
                 call[d].pc = "refreshing" =>
                    lock'[call[d].instance] # <<>> /\ Head(lock'[call[d].instance]) = d
  <1>1. lock \in [Instances -> Seq(Callers)]
    BY DEF RInv, TypeOK
  <1>2. \A i \in Instances : lock'[i] = Without(lock[i], c) /\ lock[i] \in Seq(Callers)
    BY <1>1 DEF Unlocked
  <1>3. lock' \in [Instances -> Seq(Callers)]
    BY <1>2, WithoutFacts DEF Unlocked
  <1>4. ASSUME NEW d \in Callers \ {c}, call[d].pc = "refreshing"
        PROVE  lock'[call[d].instance] # <<>> /\ Head(lock'[call[d].instance]) = d
    <2>1. call[d].instance \in Instances /\ Holds(d)
      BY <1>4 DEF RInv, HolderRefreshes, Working
    <2>2. lock[call[d].instance] # <<>> /\ lock[call[d].instance][1] = d
      BY <1>2, <2>1 DEF Holds
    <2> QED
      BY <1>2, <1>4, <2>1, <2>2, WithoutFacts
  <1> QED
    BY <1>3, <1>4

\* A step of c that leaves the other callers and who holds the locks alone.
LEMMA RKeeps ==
    ASSUME RInv, NEW c \in Callers, Stable, CallStays,
           \A d \in Callers \ {c} : call'[d] = call[d],
           lock' = lock \/ lock' = Unlocked(c)
                \/ \E i \in Instances : lock' = [lock EXCEPT ![i] = Append(@, c)],
           call'[c].pc \in Working => call'[c].instance \in Instances,
           call'[c].pc = "refreshing" => Holds(c)'
    PROVE  RInv'
  <1>1. lock \in [Instances -> Seq(Callers)]
    BY DEF RInv, TypeOK
  <1>2. /\ lock' \in [Instances -> Seq(Callers)]
        /\ \A d \in Callers \ {c} :
              call[d].pc = "refreshing" =>
                 lock'[call[d].instance] # <<>> /\ Head(lock'[call[d].instance]) = d
    <2>1. CASE lock' = lock
      BY <1>1, <2>1 DEF RInv, HolderRefreshes, Holds
    <2>2. CASE lock' = Unlocked(c)
      BY <2>2, UnlockedFacts
    <2>3. ASSUME NEW i \in Instances, lock' = [lock EXCEPT ![i] = Append(@, c)]
          PROVE  /\ lock' \in [Instances -> Seq(Callers)]
                 /\ \A d \in Callers \ {c} :
                       call[d].pc = "refreshing" =>
                          lock'[call[d].instance] # <<>> /\ Head(lock'[call[d].instance]) = d
      <3>1. lock' \in [Instances -> Seq(Callers)]
        BY <1>1, <2>3
      <3>2. ASSUME NEW d \in Callers \ {c}, call[d].pc = "refreshing"
            PROVE  lock'[call[d].instance] # <<>> /\ Head(lock'[call[d].instance]) = d
        <4>1. /\ call[d].instance \in Instances
              /\ lock[call[d].instance] # <<>> /\ Head(lock[call[d].instance]) = d
          BY <3>2 DEF RInv, HolderRefreshes, Holds, Working
        <4>2. \A s \in Seq(Callers) : s # <<>> => Append(s, c) # <<>> /\ Head(Append(s, c)) = Head(s)
          OBVIOUS
        <4> QED
          BY <1>1, <2>3, <4>1, <4>2
      <3> QED
        BY <3>1, <3>2
    <2> QED
      BY <2>1, <2>2, <2>3
  <1>3. TypeOK'
    BY <1>2 DEF TypeOK, Stable, CallStays
  <1>4. HolderRefreshes'
    <2>1. ASSUME NEW d \in Callers \ {c}
          PROVE  /\ call'[d].pc \in Working => call'[d].instance \in Instances
                 /\ call'[d].pc = "refreshing" => Holds(d)'
      BY <1>2 DEF RInv, HolderRefreshes, Holds
    <2> QED
      BY <2>1 DEF HolderRefreshes
  <1> QED
    BY <1>3, <1>4 DEF RInv

LEMMA RStep == RInv /\ [Next]_vars => RInv'
  <1> SUFFICES ASSUME RInv, [Next]_vars PROVE RInv'
    OBVIOUS
  <1>0. /\ TypeOK /\ call \in [Callers -> Call] /\ instances \in Seq(Entry)
        /\ open \subseteq Instances /\ lock \in [Instances -> Seq(Callers)]
        /\ \A c \in Callers :
              call[c].pc \in Working => call[c].instance \in Instances
    BY DEF RInv, TypeOK, HolderRefreshes
  <1>same. ASSUME UNCHANGED <<instances, open, token>> PROVE Stable
    BY <1>0, <1>same DEF Stable, TypeOK
  <1>one. ASSUME NEW c \in Callers, NEW w \in Call, Becomes(c, w)
        PROVE  CallStays /\ call'[c] = w /\ \A d \in Callers \ {c} : call'[d] = call[d]
    BY <1>0, <1>one, BecomesType
  <1>to. ASSUME NEW c \in Callers, NEW pc \in {"waiting", "refreshing", "sent"}
        PROVE  /\ [call[c] EXCEPT !.pc = pc] \in Call
               /\ [call[c] EXCEPT !.pc = pc].pc = pc
               /\ [call[c] EXCEPT !.pc = pc].instance = call[c].instance
    BY <1>0 DEF Call
  <1>1. ASSUME NEW c \in Callers, NEW n \in Names, execute(c, n) PROVE RInv'
    <2>1. Stable /\ Loading(n) \in Instances /\ lock' = lock
      BY <1>0, <1>1, LoadType DEF execute, Stable
    <2>2. PICK more \in {0, 1} :
             Becomes(c, [Idle EXCEPT !.pc = "auth", !.op = "execute", !.name = n,
                                     !.instance = Loading(n), !.requests = more])
      BY <1>1 DEF execute
    <2> DEFINE w == [Idle EXCEPT !.pc = "auth", !.op = "execute", !.name = n,
                                 !.instance = Loading(n), !.requests = more]
    <2>3. more \in Nat
      BY <2>2
    <2>4. w \in Call /\ w.pc = "auth" /\ w.instance \in Instances
      BY <2>1, <2>3 DEF Idle, Call
    <2>5. Becomes(c, w)
      BY <2>2
    <2> HIDE DEF w
    <2> QED
      BY <1>one, <2>1, <2>4, <2>5, RKeeps
  <1>2. ASSUME NEW c \in Callers, NEW n \in Names, get_integration(c, n) PROVE RInv'
    <2>1. Stable /\ call' = call /\ lock' = lock
      BY <1>0, <1>2, LoadType DEF get_integration, Stable
    <2>2. TypeOK' /\ HolderRefreshes'
      BY <2>1 DEF RInv, TypeOK, Stable, HolderRefreshes, Holds
    <2> QED
      BY <2>2 DEF RInv
  <1>3. ASSUME NEW c \in Callers, health_check_all(c) PROVE RInv'
    <2>1. Checks(c, Names) /\ lock' = lock
      BY <1>3 DEF health_check_all
    <2>2. /\ Stable /\ CallStays
          /\ \A d \in Callers \ {c} : call'[d] = call[d]
          /\ call'[c].pc \in {"idle", "auth"}
          /\ call'[c].pc = "auth" => call'[c].instance \in Instances
      BY <1>0, <2>1, ChecksType
    <2> QED
      BY <2>1, <2>2, RKeeps DEF Working
  <1>4. ASSUME NEW c \in Callers, Refuse(c) \/ RefreshFails(c) \/ Answered(c) PROVE RInv'
    <2>1. /\ \E ok \in BOOLEAN : Over(c, ok)
          /\ lock' = lock \/ lock' = Unlocked(c)
          /\ call[c].instance \in Instances
      BY <1>0, <1>4 DEF Refuse, RefreshFails, Answered, Working
    <2>2. /\ Stable /\ CallStays
          /\ \A d \in Callers \ {c} : call'[d] = call[d]
          /\ call'[c].pc \in {"idle", "auth"}
          /\ call'[c].pc = "auth" => call'[c].instance \in Instances
      BY <1>0, <2>1, OverType
    <2> QED
      BY <2>1, <2>2, RKeeps DEF Working
  <1>5. ASSUME NEW c \in Callers, Send(c) PROVE RInv'
    <2>1. /\ Becomes(c, [call[c] EXCEPT !.pc = "sent"])
          /\ UNCHANGED <<instances, open, token, lock>> /\ call[c].instance \in Instances
      BY <1>0, <1>5 DEF Send, Working
    <2> QED
      BY <1>same, <1>one, <1>to, <2>1, RKeeps
  <1>6. ASSUME NEW c \in Callers, Lock(c) PROVE RInv'
    <2>1. /\ Becomes(c, [call[c] EXCEPT !.pc = "waiting"])
          /\ UNCHANGED <<instances, open, token>> /\ call[c].instance \in Instances
          /\ lock' = [lock EXCEPT ![call[c].instance] = Append(@, c)]
      BY <1>0, <1>6 DEF Lock, Working
    <2> QED
      BY <1>same, <1>one, <1>to, <2>1, RKeeps
  <1>7. ASSUME NEW c \in Callers, Locked(c) PROVE RInv'
    <2>1. /\ call[c].pc = "waiting" /\ Holds(c)
          /\ UNCHANGED <<instances, open, token>> /\ call[c].instance \in Instances
      BY <1>0, <1>7 DEF Locked, Working
    <2>2. CASE LookedAgain(call[c].instance)
      <3>1. Becomes(c, [call[c] EXCEPT !.pc = "sent"]) /\ lock' = Unlocked(c)
        BY <1>7, <2>2 DEF Locked
      <3> QED
        BY <1>same, <1>one, <1>to, <2>1, <3>1, RKeeps
    <2>3. CASE ~ LookedAgain(call[c].instance)
      <3>1. Becomes(c, [call[c] EXCEPT !.pc = "refreshing"]) /\ lock' = lock
        BY <1>7, <2>3 DEF Locked
      <3>2. call'[c].pc = "refreshing" /\ call'[c].instance = call[c].instance
        BY <1>one, <1>to, <3>1
      <3>3. Holds(c)'
        BY <2>1, <3>1, <3>2 DEF Holds
      <3> QED
        BY <1>same, <1>one, <1>to, <2>1, <3>1, <3>2, <3>3, RKeeps
    <2> QED
      BY <2>2, <2>3
  <1>8. ASSUME NEW c \in Callers, _refresh_token(c) PROVE RInv'
    <2>1. /\ call[c].instance \in Instances /\ lock' = Unlocked(c)
          /\ Becomes(c, [call[c] EXCEPT !.pc = "sent"])
          /\ UNCHANGED <<instances, open>>
          /\ \E state \in {"fresh", "stale"} : token' = [token EXCEPT ![call[c].instance] = state]
      BY <1>0, <1>8 DEF _refresh_token, Lifetimes, Working
    <2>2. Stable
      BY <1>0, <2>1 DEF Stable, TypeOK
    <2>3. /\ CallStays /\ \A d \in Callers \ {c} : call'[d] = call[d]
          /\ call'[c].pc = "sent" /\ call'[c].instance = call[c].instance
      BY <1>one, <1>to, <2>1
    <2> QED
      BY <2>1, <2>2, <2>3, RKeeps
  <1>9. ASSUME NEW c \in Callers, Cancel(c) PROVE RInv'
    <2>1. Becomes(c, Idle) /\ lock' = Unlocked(c) /\ UNCHANGED <<instances, open, token>>
      BY <1>9 DEF Cancel
    <2> QED
      BY <1>same, <1>one, <2>1, IdleIsCall, RKeeps DEF Working
  <1>next. ASSUME NEW c \in Callers, NEW w \in Call, w.pc = "closing",
               CloseNext(c, w), UNCHANGED <<token, lock>>
        PROVE  RInv'
    <2> DEFINE v == [w EXCEPT !.at = @ + 1]
    <2>1. v \in Call /\ v.pc = "closing"
      BY <1>next DEF Call
    <2>2. Becomes(c, v) /\ open' = open \ {instances[w.at].instance} /\ instances' = instances
      BY <1>next DEF CloseNext
    <2>3. token \in [Instances -> {"none", "fresh", "stale"}]
      BY <1>0 DEF TypeOK
    <2>4. Stable
      BY <1>0, <1>next, <2>2, <2>3 DEF Stable
    <2> HIDE DEF v
    <2> QED
      BY <1>one, <1>next, <2>1, <2>2, <2>4, RKeeps DEF Working
  <1>10. ASSUME NEW c \in Callers, Clear(c), UNCHANGED <<token, lock>> PROVE RInv'
    <2>1. Stable
      BY <1>0, <1>10 DEF Clear, Stable, TypeOK
    <2>2. Becomes(c, Idle)
      BY <1>10 DEF Clear
    <2> QED
      BY <1>one, <1>10, <2>1, <2>2, IdleIsCall, RKeeps DEF Working
  <1>11. ASSUME NEW c \in Closers, close_all(c) PROVE RInv'
    <2> DEFINE w == [Idle EXCEPT !.pc = "closing", !.at = 1, !.size = Len(instances)]
    <2>0. c \in Callers /\ UNCHANGED <<token, lock>>
      BY <1>11, CloserAssumption DEF close_all
    <2>1. CASE instances = <<>>
      BY <1>10, <1>11, <2>0, <2>1 DEF close_all
    <2>2. CASE instances # <<>>
      <3>1. Len(instances) \in Nat
        BY <1>0
      <3>2. w \in Call /\ w.pc = "closing"
        BY <3>1 DEF Idle, Call
      <3>3. CloseNext(c, w)
        BY <1>11, <2>2 DEF close_all
      <3> HIDE DEF w
      <3> QED
        BY <1>next, <2>0, <3>2, <3>3
    <2> QED
      BY <2>1, <2>2
  <1>12. ASSUME NEW c \in Callers, CloseMore(c) PROVE RInv'
    <2>0. UNCHANGED <<token, lock>> /\ call[c].pc = "closing" /\ call[c] \in Call
      BY <1>0, <1>12 DEF CloseMore
    <2>1. CASE ~ IteratorValid(c)
      <3>1. Becomes(c, Idle) /\ UNCHANGED <<instances, open>>
        BY <1>12, <2>1 DEF CloseMore
      <3> QED
        BY <1>same, <1>one, <2>0, <3>1, IdleIsCall, RKeeps DEF Working
    <2>2. CASE IteratorValid(c) /\ call[c].at > call[c].size
      BY <1>10, <1>12, <2>0, <2>2 DEF CloseMore
    <2>3. CASE IteratorValid(c) /\ ~ (call[c].at > call[c].size)
      <3>1. CloseNext(c, call[c])
        BY <1>12, <2>3 DEF CloseMore
      <3> QED
        BY <1>next, <2>0, <3>1
    <2> QED
      BY <2>1, <2>2, <2>3
  <1>13. ASSUME NEW i \in Instances, Lapse(i) PROVE RInv'
    BY <1>0, <1>13 DEF Lapse, RInv, TypeOK, HolderRefreshes, Holds
  <1>14. CASE UNCHANGED vars
    BY <1>14 DEF vars, RInv, TypeOK, HolderRefreshes, Holds
  <1> QED
    BY <1>1, <1>2, <1>3, <1>4, <1>5, <1>6, <1>7, <1>8, <1>9, <1>11, <1>12, <1>13, <1>14
       DEF Next, Proceed

\* There is no other way to ask for a token than to hold the lock and to have
\* found none that is good.
LEMMA OnlyLocked ==
    ASSUME RInv, [Next]_vars, NEW c \in Callers,
           call[c].pc # "refreshing", call'[c].pc = "refreshing"
    PROVE  Holds(c) /\ ~ Fresh(call[c].instance)
  <1>0. /\ TypeOK /\ call \in [Callers -> Call]
        /\ \A d \in Callers : call[d].pc \in Working => call[d].instance \in Instances
    BY DEF RInv, TypeOK, HolderRefreshes
  <1>1. ASSUME NEW d \in Callers, NEW w, Becomes(d, w), w.pc # "refreshing" PROVE FALSE
    BY <1>0, <1>1 DEF Becomes
  <1>2. ASSUME NEW d \in Callers, NEW pc \in {"waiting", "sent"},
               Becomes(d, [call[d] EXCEPT !.pc = pc])
        PROVE  FALSE
    <2>1. [call[d] EXCEPT !.pc = pc].pc # "refreshing"
      BY <1>0, <1>2 DEF Call
    <2> QED
      BY <1>1, <1>2, <2>1
  <1>3. ASSUME Becomes(c, Idle) \/ \E d \in Callers : Becomes(d, Idle) PROVE FALSE
    BY <1>1, <1>3, IdleIsCall
  <1>4. ASSUME NEW d \in Callers, NEW left \in SUBSET Names, Checks(d, left) PROVE FALSE
    <2>1. /\ \A e \in Callers \ {d} : call'[e] = call[e]
          /\ call'[d].pc \in {"idle", "auth"}
      BY <1>0, <1>4, ChecksType
    <2> QED
      BY <2>1
  <1>5. ASSUME NEW d \in Callers, NEW ok \in BOOLEAN, Over(d, ok), call[d].pc \in Working
        PROVE FALSE
    <2>1. /\ \A e \in Callers \ {d} : call'[e] = call[e]
          /\ call'[d].pc \in {"idle", "auth"}
      BY <1>0, <1>5, OverType
    <2> QED
      BY <2>1
  <1>6. ASSUME NEW d \in Callers, Locked(d) PROVE Holds(c) /\ ~ Fresh(call[c].instance)
    <2>1. call'[d].pc = "refreshing" => Holds(d) /\ ~ Fresh(call[d].instance)
      <3>1. CASE LookedAgain(call[d].instance)
        <4>1. Becomes(d, [call[d] EXCEPT !.pc = "sent"])
          BY <1>6, <3>1 DEF Locked
        <4> QED
          BY <1>2, <4>1
      <3>2. CASE ~ LookedAgain(call[d].instance)
        BY <1>6, <3>2 DEF Locked, LookedAgain
      <3> QED
        BY <3>1, <3>2
    <2>2. \A e \in Callers \ {d} : call'[e] = call[e]
      BY <1>0, <1>6 DEF Locked, Becomes
    <2> QED
      BY <2>1, <2>2
  <1>7. ASSUME NEW d \in Callers, \/ \E n \in Names : execute(d, n) \/ get_integration(d, n)
                                  \/ health_check_all(d)
        PROVE  FALSE
    <2>1. ASSUME NEW n \in Names, execute(d, n) PROVE FALSE
      <3>1. PICK more : Becomes(d, [Idle EXCEPT !.pc = "auth", !.op = "execute", !.name = n,
                                       !.instance = Loading(n), !.requests = more])
        BY <2>1 DEF execute
      <3> DEFINE w == [Idle EXCEPT !.pc = "auth", !.op = "execute", !.name = n,
                                   !.instance = Loading(n), !.requests = more]
      <3>2. w.pc = "auth"
        BY DEF Idle
      <3>3. Becomes(d, w)
        BY <3>1
      <3> HIDE DEF w
      <3> QED
        BY <1>1, <3>2, <3>3
    <2>2. ASSUME NEW n \in Names, get_integration(d, n) PROVE FALSE
      BY <2>2 DEF get_integration
    <2> QED
      BY <1>4, <1>7, <2>1, <2>2 DEF health_check_all
  <1>8. ASSUME NEW d \in Callers, Refuse(d) \/ RefreshFails(d) \/ Answered(d) PROVE FALSE
    BY <1>5, <1>8 DEF Refuse, RefreshFails, Answered, Working
  <1>9. ASSUME NEW d \in Callers, Send(d) \/ Lock(d) \/ _refresh_token(d) \/ Cancel(d)
        PROVE  FALSE
    <2>1. \/ Becomes(d, [call[d] EXCEPT !.pc = "sent"])
          \/ Becomes(d, [call[d] EXCEPT !.pc = "waiting"])
          \/ Becomes(d, Idle)
      BY <1>9 DEF Send, Lock, _refresh_token, Cancel
    <2> QED
      BY <1>2, <1>3, <2>1
  <1>10. ASSUME NEW d \in Callers, NEW w \in Call, w.pc = "closing", CloseNext(d, w) PROVE FALSE
    <2>1. Becomes(d, [w EXCEPT !.at = @ + 1]) /\ [w EXCEPT !.at = @ + 1].pc = "closing"
      BY <1>10 DEF CloseNext, Call
    <2> QED
      BY <1>1, <2>1
  <1>11. ASSUME NEW d \in Callers, CloseMore(d) PROVE FALSE
    BY <1>0, <1>3, <1>10, <1>11 DEF CloseMore, Clear
  <1>12. ASSUME NEW d \in Closers, close_all(d) PROVE FALSE
    <2> DEFINE w == [Idle EXCEPT !.pc = "closing", !.at = 1, !.size = Len(instances)]
    <2>1. Len(instances) \in Nat
      BY <1>0 DEF TypeOK
    <2>2. w \in Call /\ w.pc = "closing"
      BY <2>1 DEF Idle, Call
    <2>3. d \in Callers /\ (CloseNext(d, w) \/ Clear(d))
      BY <1>12, CloserAssumption DEF close_all
    <2> HIDE DEF w
    <2> QED
      BY <1>3, <1>10, <2>2, <2>3 DEF Clear
  <1>13. ASSUME (\E i \in Instances : Lapse(i)) \/ UNCHANGED vars PROVE FALSE
    BY <1>13 DEF Lapse, vars
  <1> QED
    BY <1>6, <1>7, <1>8, <1>9, <1>11, <1>12, <1>13 DEF Next, Proceed

LEMMA RInvariance == Spec => []RInv
  <1> QED
    BY RInitially, RStep, PTL DEF Spec

\* Table, clients, tokens, locks and callers keep their types (core/manager.py,
\* auth/oauth2.py), with any number of coroutines that close.
THEOREM TypeCorrect == Spec => []TypeOK
  <1>1. RInv => TypeOK
    BY DEF RInv
  <1> QED
    BY <1>1, RInvariance, PTL

\* get_access_token asks for a token only when it finds none that is good under
\* the lock, and while one caller asks no other asks for the same integration,
\* whoever waits, fails or is cancelled.
THEOREM OneRefreshTheorem == Spec => NoNeedlessRefresh
  <1>1. RInv /\ [Next]_vars =>
           \A c \in Callers :
              call[c].pc # "refreshing" /\ call'[c].pc = "refreshing" =>
                  /\ ~ Fresh(call[c].instance)
                  /\ \A d \in Callers \ {c} : ~ (/\ call[d].pc = "refreshing"
                                                 /\ call[d].instance = call[c].instance)
    <2> SUFFICES ASSUME RInv, [Next]_vars, NEW c \in Callers,
                        call[c].pc # "refreshing", call'[c].pc = "refreshing"
                 PROVE  /\ ~ Fresh(call[c].instance)
                        /\ \A d \in Callers \ {c} : ~ (/\ call[d].pc = "refreshing"
                                                       /\ call[d].instance = call[c].instance)
      OBVIOUS
    <2>1. Holds(c) /\ ~ Fresh(call[c].instance)
      BY OnlyLocked
    <2>2. ASSUME NEW d \in Callers \ {c}, call[d].pc = "refreshing",
                 call[d].instance = call[c].instance
          PROVE  FALSE
      <3>1. Holds(d)
        BY <2>2 DEF RInv, HolderRefreshes
      <3> QED
        BY <2>1, <2>2, <3>1 DEF Holds
    <2> QED
      BY <2>1, <2>2
  <1> QED
    BY <1>1, RInvariance, PTL DEF Spec, NoNeedlessRefresh
=============================================================================
