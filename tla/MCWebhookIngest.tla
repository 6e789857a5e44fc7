-------------------------- MODULE MCWebhookIngest --------------------------
(* Instances of WebhookIngest for TLC.                                     *)
EXTENDS WebhookIngest

CONSTANTS m1, m2, m3, m4, k1, k2

\* m1 and m2 have a key each, m3 has the key of m1 (another workspace's event
\* with the same provider id), m4 has none.
KeyOf == [m \in Messages |-> IF m = m2 THEN k2 ELSE IF m = m4 THEN NoKey ELSE k1]
=============================================================================
