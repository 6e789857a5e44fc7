------------------------------ MODULE EventLog ------------------------------
(***************************************************************************)
(* What the inbound webhook engine promises for the messages that carry a  *)
(* dedup key: an append-only log that holds at most one message per key,   *)
(* and a provider that is told "accepted" only for a message in the log.   *)
(* WebhookIngest implements it.                                            *)
(***************************************************************************)
CONSTANTS Messages,     \* messages with a dedup key
          Key           \* the dedup key of each message

VARIABLES log,          \* messages stored
          confirmed     \* messages the provider got a 200 for

Init == log = {} /\ confirmed = {}

Store(m) ==
    /\ \A x \in log : Key[x] # Key[m]
    /\ log' = log \cup {m}
    /\ UNCHANGED confirmed

Confirm(m) ==
    /\ m \in log
    /\ confirmed' = confirmed \cup {m}
    /\ UNCHANGED log

Next == \E m \in Messages : Store(m) \/ Confirm(m)

Spec == Init /\ [][Next]_<<log, confirmed>>
=============================================================================
