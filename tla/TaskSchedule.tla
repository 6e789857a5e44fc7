---------------------------- MODULE TaskSchedule ----------------------------
(***************************************************************************)
(* The Celery application of src/tasks: beat sends the scheduled messages  *)
(* to the Redis queue, operators send others by hand, and worker processes *)
(* take, run and acknowledge them.  A message is acknowledged when its     *)
(* task has ended (task_acks_late) and goes back to the queue when the     *)
(* worker process is lost (task_reject_on_worker_lost).                    *)
(***************************************************************************)
EXTENDS Naturals, FiniteSets

CONSTANTS
    Entries,        \* beat_schedule entries that become due
    ByHand,         \* tasks operators send (docs/operations.md, Manual tasks)
    Processes,      \* worker processes
    MaxSends,       \* bound: messages sent for one task
    MaxLosses,      \* bound: worker processes lost
    NoTask          \* no task

\* The task each beat entry names.
beat_schedule ==
    [refresh |-> "tasks.token_tasks.refresh_ending_tokens_task",
     retry   |-> "tasks.webhook_tasks.retry_webhooks_task",
     bury    |-> "tasks.webhook_tasks.dead_letter_task",
     states  |-> "tasks.maintenance_tasks.cleanup_expired_states_task",
     rotate  |-> "tasks.maintenance_tasks.rotate_expired_credentials_task"]

\* The names the async_task decorators register.
registered ==
    {"agentforge.refresh_ending_tokens", "agentforge.refresh_single_token",
     "agentforge.retry_webhooks", "agentforge.dead_letter",
     "agentforge.dispatch_webhook", "agentforge.cleanup_expired_states",
     "agentforge.rotate_expired_credentials",
     "agentforge.cleanup_expired_credentials"}

ASSUME EntryAssumption == Entries \subseteq DOMAIN beat_schedule
ASSUME ByHandAssumption == ByHand \subseteq registered
ASSUME ProcessesAssumption == IsFiniteSet(Processes)
ASSUME SendAssumption == MaxSends \in Nat /\ MaxLosses \in Nat

Tasks == {beat_schedule[e] : e \in Entries} \cup ByHand

ASSUME NoTaskAssumption == NoTask \notin Tasks

VARIABLES
    sent,           \* messages sent so far, for each task (bounded by MaxSends)
    queue,          \* messages waiting in the queue, for each task
    running,        \* the task each worker process runs, or NoTask
    ended,          \* runs that ended and were acknowledged, for each task
    discarded,      \* messages thrown away as unregistered, for each task
    losses          \* worker processes lost so far (bounded by MaxLosses)

taskVars == <<sent, queue, running, ended, discarded, losses>>

TaskTypeOK ==
    /\ sent \in [Tasks -> Nat]
    /\ queue \in [Tasks -> Nat]
    /\ running \in [Processes -> (Tasks \cap registered) \cup {NoTask}]
    /\ ended \in [Tasks -> Nat]
    /\ discarded \in [Tasks -> Nat]
    /\ losses \in Nat

Nothing == [t \in Tasks |-> 0]

TaskInit ==
    /\ sent = Nothing
    /\ queue = Nothing
    /\ running = [w \in Processes |-> NoTask]
    /\ ended = Nothing
    /\ discarded = Nothing
    /\ losses = 0

-----------------------------------------------------------------------------

\* Beat when an entry of the schedule is due, or an operator.
Send(t) ==
    /\ sent[t] < MaxSends
    /\ sent' = [sent EXCEPT ![t] = @ + 1]
    /\ queue' = [queue EXCEPT ![t] = @ + 1]
    /\ UNCHANGED <<running, ended, discarded, losses>>

Beat(e) == Send(beat_schedule[e])
Manual(t) == Send(t)

Runnable(t) == t \in registered

\* A free worker process takes a message and runs the task (async_task).
Take(w, t) ==
    /\ running[w] = NoTask
    /\ queue[t] > 0
    /\ Runnable(t)
    /\ queue' = [queue EXCEPT ![t] = @ - 1]
    /\ running' = [running EXCEPT ![w] = t]
    /\ UNCHANGED <<sent, ended, discarded, losses>>

\* "Received unregistered task": logged, rejected without requeue, gone.
Discard(t) ==
    /\ queue[t] > 0
    /\ ~Runnable(t)
    /\ queue' = [queue EXCEPT ![t] = @ - 1]
    /\ discarded' = [discarded EXCEPT ![t] = @ + 1]
    /\ UNCHANGED <<sent, running, ended, losses>>

\* The task returned or raised: acknowledged in both cases, never retried.
Finish(w) ==
    /\ running[w] # NoTask
    /\ ended' = [ended EXCEPT ![running[w]] = @ + 1]
    /\ running' = [running EXCEPT ![w] = NoTask]
    /\ UNCHANGED <<sent, queue, discarded, losses>>

\* The queue once a worker process that ran t is lost.
AckedEarly(t) == queue
Requeued(t) == [queue EXCEPT ![t] = @ + 1]

WorkerLost(w) ==
    /\ running[w] # NoTask
    /\ losses < MaxLosses
    /\ losses' = losses + 1
    /\ queue' = Requeued(running[w])
    /\ running' = [running EXCEPT ![w] = NoTask]
    /\ UNCHANGED <<sent, ended, discarded>>

TaskNext ==
    \/ \E e \in Entries : Beat(e)
    \/ \E t \in ByHand : Manual(t)
    \/ \E t \in Tasks : Discard(t)
    \/ \E w \in Processes : Finish(w) \/ WorkerLost(w) \/ \E t \in Tasks : Take(w, t)

TaskSpec == TaskInit /\ [][TaskNext]_taskVars

\* Beat keeps sending, some worker process is up and takes every kind of message
\* in turn (the queue is first in, first out), and tasks end.
TaskFairSpec ==
    /\ TaskSpec
    /\ \A e \in Entries : WF_taskVars(Beat(e))
    /\ \A t \in Tasks : WF_taskVars(Discard(t)) /\ SF_taskVars(\E w \in Processes : Take(w, t))
    /\ \A w \in Processes : WF_taskVars(Finish(w))

-----------------------------------------------------------------------------
(* Properties.                                                             *)

\* Losing worker processes loses no work: every message sent is waiting, being
\* run, has ended, or was discarded, and none is counted twice.
NothingLost ==
    \A t \in Tasks :
        sent[t] = queue[t] + Cardinality({w \in Processes : running[w] = t})
                    + ended[t] + discarded[t]

\* A message sent for a registered task is run to its end, even if the process
\* that took it first is lost.
SentIsRun ==
    \A t \in Tasks \cap registered : (sent[t] > 0) ~> (ended[t] > 0)

\* docs/operations.md:34-40: each beat entry runs its task.
ScheduledIsRun == \A e \in Entries : <>(ended[beat_schedule[e]] > 0)
=============================================================================
