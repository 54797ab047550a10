------------------------------ MODULE TaskQueue ------------------------------
(***************************************************************************)
(* The asynq task queue, as internal/queue uses it (the library is not in  *)
(* the repository).  A task enqueued without options is retried at most    *)
(* MaxRetry times, is deleted from Redis once its handler succeeds         *)
(* (retention zero), and is archived when its retries are exhausted or its *)
(* handler returns asynq.SkipRetry.  An archived task is purged much later.*)
(* Delivery is at least once: the task of a worker that died, or that lost *)
(* its lease, is handed out again and costs one retry.                     *)
(*                                                                         *)
(* The operators below are the queue's own steps; a module that composes   *)
(* them says who takes them and when.                                      *)
(***************************************************************************)
EXTENDS Naturals

CONSTANTS
  Tasks,     \* tasks that may ever be enqueued
  MaxRetry   \* retries asynq grants a task (its default, 25)

ASSUME MaxRetryAssumption == MaxRetry \in Nat

VARIABLES
  task,      \* where the queue has each task
  retried    \* retries each task has used

queueVars == <<task, retried>>

TaskStates ==
  {"none", "pending", "active", "retry", "archived", "completed", "purged"}

\* The states in which Redis still holds a record of the task.
Recorded == {"pending", "active", "retry", "archived"}

\* The states from which no attempt of the task ever starts again.
Settled == {"archived", "completed", "purged"}

TaskQueueTypeOK ==
  /\ task \in [Tasks -> TaskStates]
  /\ retried \in [Tasks -> 0 .. MaxRetry]

TaskQueueInit ==
  /\ task = [t \in Tasks |-> "none"]
  /\ retried = [t \in Tasks |-> 0]

Move(t, from, to) ==
  /\ task[t] = from
  /\ task' = [task EXCEPT ![t] = to]

EnqueueTask(t) ==
  /\ Move(t, "none", "pending")
  /\ UNCHANGED retried

DequeueTask(t) ==
  /\ Move(t, "pending", "active")
  /\ UNCHANGED retried

\* The handler returned nil: the record is deleted.
CompleteTask(t) ==
  /\ Move(t, "active", "completed")
  /\ UNCHANGED retried

\* Mutant of RetryOrArchive: retries are counted but never exhausted.
RetryAlways(t) ==
  /\ Move(t, "active", "retry")
  /\ retried' = [retried EXCEPT ![t] = @ + 1]

\* The handler returned an error, or the attempt is lost: one retry is used,
\* or the task is archived when none is left.
RetryOrArchive(t) ==
  \/ /\ retried[t] < MaxRetry
     /\ Move(t, "active", "retry")
     /\ retried' = [retried EXCEPT ![t] = @ + 1]
  \/ /\ retried[t] = MaxRetry
     /\ Move(t, "active", "archived")
     /\ UNCHANGED retried

\* The handler returned an error that joins asynq.SkipRetry.
ArchiveTask(t) ==
  /\ Move(t, "active", "archived")
  /\ UNCHANGED retried

\* A server that shuts down before the handler ends puts the task back.
RequeueTask(t) ==
  /\ Move(t, "active", "pending")
  /\ UNCHANGED retried

\* RetryDelayFunc's delay, n * 30s, is over.
PromoteTask(t) ==
  /\ Move(t, "retry", "pending")
  /\ UNCHANGED retried

\* The archive drops its oldest tasks.
PurgeTask(t) ==
  /\ Move(t, "archived", "purged")
  /\ UNCHANGED retried
=============================================================================
