--------------------------- MODULE DeliveryLedger ---------------------------
(***************************************************************************)
(* What outbound delivery promises: a ledger of the deliveries made of     *)
(* each stored event, to which entries are only added, and a verdict on    *)
(* the event that only ever changes to one the ledger bears out, or to     *)
(* "no_subscribers".  WebhookDelivery implements it.                       *)
(***************************************************************************)
EXTENDS Naturals

CONSTANTS Events, Subscriptions,
          Channel,      \* of each event and subscription
          Budget        \* deliveries an event is entitled to

VARIABLES verdict,      \* on each event; "absent": not stored
          entries,      \* deliveries recorded of each event
          succeeded,    \* subscriptions with a recorded success
          failed,       \* subscriptions with a recorded failure
          accepted      \* <<event, subscription>> the target accepted

ledger == <<entries, succeeded, failed>>

Init ==
    /\ verdict = [e \in Events |-> "absent"]
    /\ entries = [e \in Events |-> 0]
    /\ succeeded = [e \in Events |-> {}]
    /\ failed = [e \in Events |-> {}]
    /\ accepted = {}

Stored(e) == verdict[e] # "absent"

Store(e) ==
    /\ ~ Stored(e)
    /\ verdict' = [verdict EXCEPT ![e] = "pending"]
    /\ UNCHANGED <<ledger, accepted>>

\* A target takes an event of its own workspace and provider.
Accept(e, s) ==
    /\ Stored(e) /\ Channel[s] = Channel[e]
    /\ accepted' = accepted \cup {<<e, s>>}
    /\ UNCHANGED <<verdict, ledger>>

\* One delivery is recorded, and the verdict is left or becomes what it says.
RecordSuccess(e, s) ==
    /\ Stored(e) /\ <<e, s>> \in accepted
    /\ entries' = [entries EXCEPT ![e] = @ + 1]
    /\ succeeded' = [succeeded EXCEPT ![e] = @ \cup {s}]
    /\ verdict' \in {verdict, [verdict EXCEPT ![e] = "delivered"]}
    /\ UNCHANGED <<failed, accepted>>

RecordFailure(e, s) ==
    /\ Stored(e) /\ Channel[s] = Channel[e]
    /\ entries' = [entries EXCEPT ![e] = @ + 1]
    /\ failed' = [failed EXCEPT ![e] = @ \cup {s}]
    /\ verdict' \in {verdict, [verdict EXCEPT ![e] = "failed"]}
    /\ UNCHANGED <<succeeded, accepted>>

Unsubscribed(e) ==
    /\ Stored(e)
    /\ verdict' = [verdict EXCEPT ![e] = "no_subscribers"]
    /\ UNCHANGED <<ledger, accepted>>

\* Events whose budget is spent are given up.
GiveUp(spent) ==
    /\ \A e \in spent : Stored(e) /\ entries[e] >= Budget
    /\ verdict' = [e \in Events |-> IF e \in spent THEN "dead_lettered" ELSE verdict[e]]
    /\ UNCHANGED <<ledger, accepted>>

Next ==
    \/ \E e \in Events :
          \/ Store(e) \/ Unsubscribed(e)
          \/ \E s \in Subscriptions : Accept(e, s) \/ RecordSuccess(e, s) \/ RecordFailure(e, s)
    \/ \E spent \in SUBSET Events : GiveUp(spent)

Spec == Init /\ [][Next]_<<verdict, ledger, accepted>>
=============================================================================
