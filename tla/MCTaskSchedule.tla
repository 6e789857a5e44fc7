-------------------------- MODULE MCTaskSchedule ---------------------------
(* Instances of TaskSchedule for TLC.                                      *)
EXTENDS TaskSchedule

CONSTANTS w1, w2

\* All five entries of the schedule, and one of them.
AllEntries == DOMAIN beat_schedule
RetryEntry == {"retry"}

\* The manual tasks of docs/operations.md that touch webhooks and tokens.
DispatchByHand == {"agentforge.dispatch_webhook"}
SomeByHand == {"agentforge.dispatch_webhook", "agentforge.refresh_single_token"}
=============================================================================
