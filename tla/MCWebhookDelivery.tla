------------------------ MODULE MCWebhookDelivery --------------------------
(* Instances of WebhookDelivery for TLC.                                   *)
EXTENDS WebhookDelivery, TLC

CONSTANTS e1, e2, s1, s2, w1, w2, c1, c2

\* Workers are interchangeable, and so are subscriptions of one channel that are
\* all routable (used without liveness properties only).
Symmetry == Permutations(Workers) \cup Permutations(Subscriptions)

\* Every event and subscription of one workspace and provider.
OneChannel == [x \in Events \cup Subscriptions |-> c1]

\* e2 belongs to another workspace than e1 and the subscriptions.
TwoChannels == [x \in Events \cup Subscriptions |-> IF x = e2 THEN c2 ELSE c1]

-----------------------------------------------------------------------------
(* A deployment that does not exist yet: sessions that have begun go on, and *)
(* something sends the retry and dead-letter tasks again and again.  (Beat    *)
(* sends them under names no worker has registered, see TaskSchedule.)  Used  *)
(* by the configurations that show what would fail even then.                 *)

FairSpec == Spec /\ \A w \in Workers : WF_vars(Proceed(w))

OperatedSpec ==
    FairSpec /\ WF_vars(\E w \in Workers : retry_failed(w))
             /\ WF_vars(\E w \in Workers : dead_letter_overflow(w))

\* A failed event leaves that status: delivered on a retry, dead-lettered, or
\* without subscribers.  False where a target is refused for good.
FailedIsResolved ==
    \A e \in Events : (status[e] = "failed") ~> (status[e] # "failed")

\* README.md:208, events are "persisted, then delivered to matching
\* subscriptions": a stored event does not stay "pending".  False after a crash.
StoredIsDispatched ==
    \A e \in Events : (status[e] = "pending") ~> (status[e] # "pending")
=============================================================================
