----------------------------- MODULE JobHandlers -----------------------------
(***************************************************************************)
(* The worker's task handlers (internal/queue/handler.go) over the task    *)
(* queue, the rate limiter, the reports table and the rows that track      *)
(* generation jobs, together with the web handler that enqueues a report   *)
(* (internal/web/reports.go).  Every call a handler makes to Redis or      *)
(* Postgres is a step of its own, because another worker, the web server   *)
(* or a crash can come between any two of them.                            *)
(*                                                                         *)
(* A worker here is one asynq goroutine.  A fault is a crash, a lost       *)
(* lease, a shutdown that outlasts its grace period, or a call whose       *)
(* effect or reply is lost; there are at most MaxFaults of them.           *)
(***************************************************************************)
EXTENDS TaskQueue, RateLimiter, FiniteSets

CONSTANTS
  Workers,
  ReportTasks,  \* tasks of type report:*; the others are ingestion:*
  WebTasks,     \* report tasks enqueued by ReportsHandler.Generate
  TenantOf,     \* the tenant in each task's payload
  MaxFaults,    \* bound on faults
  NoTask        \* the job of an idle worker

ASSUME TasksAssumption ==
  /\ ReportTasks \subseteq Tasks
  /\ WebTasks \subseteq ReportTasks
  /\ TenantOf \in [Tasks -> Tenants]
  /\ NoTask \notin Tasks
ASSUME WorkersAssumption == IsFiniteSet(Workers)
ASSUME MaxFaultsAssumption == MaxFaults \in Nat

VARIABLES
  pc,         \* the next call of each worker's handler
  job,        \* the task each worker handles
  live,       \* whether the context of the attempt is still valid
  verdict,    \* what the handler will return
  web,        \* progress of ReportsHandler.Generate for each web task
  row,        \* report_generation_jobs.status, "none" when there is no row
  reports,    \* number of reports stored for each task
  deliveries, \* delivery:email tasks waiting, per report task
  delivered,  \* delivery:email tasks that completed
  leaked,     \* history: slots whose decrement was lost, per tenant
  faults      \* history: faults so far

handlerVars == <<pc, job, live, verdict>>
trackVars   == <<web, row>>
outputVars  == <<reports, deliveries, delivered>>
vars == <<task, retried, active, pc, job, live, verdict, web, row,
          reports, deliveries, delivered, leaked, faults>>

PCs == {"idle", "acquire", "running", "work", "persist", "deliver",
        "failed", "succeeded", "release", "ack"}
Statuses == {"queued", "running", "succeeded", "failed"}

TypeOK ==
  /\ TaskQueueTypeOK
  /\ RateLimiterTypeOK
  /\ pc \in [Workers -> PCs]
  /\ job \in [Workers -> Tasks \cup {NoTask}]
  /\ live \in [Workers -> BOOLEAN]
  /\ verdict \in [Workers -> {"ok", "retry", "skip"}]
  /\ web \in [Tasks -> {"idle", "enqueued", "tracked", "lost"}]
  /\ row \in [Tasks -> Statuses \cup {"none"}]
  /\ reports \in [Tasks -> Nat]
  /\ deliveries \in [Tasks -> Nat]
  /\ delivered \in [Tasks -> Nat]
  /\ leaked \in [Tenants -> Nat]
  /\ faults \in 0 .. MaxFaults

Init ==
  /\ TaskQueueInit
  /\ RateLimiterInit
  /\ pc = [w \in Workers |-> "idle"]
  /\ job = [w \in Workers |-> NoTask]
  /\ live = [w \in Workers |-> TRUE]
  /\ verdict = [w \in Workers |-> "ok"]
  /\ web = [t \in Tasks |-> "idle"]
  /\ row = [t \in Tasks |-> "none"]
  /\ reports = [t \in Tasks |-> 0]
  /\ deliveries = [t \in Tasks |-> 0]
  /\ delivered = [t \in Tasks |-> 0]
  /\ leaked = [n \in Tenants |-> 0]
  /\ faults = 0

Fault ==
  /\ faults < MaxFaults
  /\ faults' = faults + 1

Goto(w, from, to) ==
  /\ pc[w] = from
  /\ pc' = [pc EXCEPT ![w] = to]
  /\ UNCHANGED <<job, live>>

\* The worker has no attempt in hand any more.
Idle(w) ==
  /\ pc' = [pc EXCEPT ![w] = "idle"]
  /\ job' = [job EXCEPT ![w] = NoTask]
  /\ live' = [live EXCEPT ![w] = TRUE]
  /\ verdict' = [verdict EXCEPT ![w] = "ok"]

Return(w, result) == verdict' = [verdict EXCEPT ![w] = result]

TenantAt(w) == TenantOf[job[w]]

Leak(n) == leaked' = [leaked EXCEPT ![n] = @ + 1]

(***************************************************************************)
(* Enqueueing.                                                             *)
(***************************************************************************)

\* Generate's Enqueue: from here on a worker may take the task.
Generate(t) ==
  /\ t \in WebTasks
  /\ EnqueueTask(t)
  /\ web' = [web EXCEPT ![t] = "enqueued"]
  /\ UNCHANGED <<active, row, leaked, faults>>
  /\ UNCHANGED <<handlerVars, outputVars>>

\* Generate's TrackGenerationJob: the INSERT, whose status defaults to queued.
TrackGenerationJob(t) ==
  /\ web[t] = "enqueued"
  /\ web' = [web EXCEPT ![t] = "tracked"]
  /\ row' = [row EXCEPT ![t] = "queued"]
  /\ UNCHANGED <<active, leaked, faults>>
  /\ UNCHANGED <<queueVars, handlerVars, outputVars>>

\* The INSERT fails, or the web server dies before it: the error is logged.
TrackingLost(t) ==
  /\ web[t] = "enqueued"
  /\ Fault
  /\ web' = [web EXCEPT ![t] = "lost"]
  /\ UNCHANGED <<active, row, leaked>>
  /\ UNCHANGED <<queueVars, handlerVars, outputVars>>

\* The scheduler's tasks, and the ingestion tasks, have no tracking row.
Schedule(t) ==
  /\ t \notin WebTasks
  /\ EnqueueTask(t)
  /\ UNCHANGED <<active, leaked, faults>>
  /\ UNCHANGED <<handlerVars, trackVars, outputVars>>

(***************************************************************************)
(* The rate limiter, around both handlers.                                 *)
(***************************************************************************)

Dequeue(w, t) ==
  /\ pc[w] = "idle"
  /\ DequeueTask(t)
  /\ pc' = [pc EXCEPT ![w] = "acquire"]
  /\ job' = [job EXCEPT ![w] = t]
  /\ UNCHANGED <<live, verdict, active, leaked, faults>>
  /\ UNCHANGED <<trackVars, outputVars>>

Acquire(w) ==
  /\ Goto(w, "acquire", IF job[w] \in ReportTasks THEN "running" ELSE "work")
  /\ live[w]
  /\ GrantSlot(TenantAt(w))
  /\ UNCHANGED <<verdict, leaked, faults>>
  /\ UNCHANGED <<queueVars, trackVars, outputVars>>

\* Mutant of AcquireRefused: Release is deferred before Acquire is checked.
AcquireRefusedReleases(w) ==
  /\ Goto(w, "acquire", "release")
  /\ live[w]
  /\ RefuseSlot(TenantAt(w))
  /\ Return(w, "retry")
  /\ UNCHANGED <<leaked, faults>>
  /\ UNCHANGED <<queueVars, trackVars, outputVars>>

\* Mutant of AcquireRefused: the handler waits for a slot.
AcquireRefusedWaits(w) ==
  /\ Goto(w, "acquire", "acquire")
  /\ live[w]
  /\ RefuseSlot(TenantAt(w))
  /\ UNCHANGED <<verdict, leaked, faults>>
  /\ UNCHANGED <<queueVars, trackVars, outputVars>>

\* Acquire's error is returned before Release is deferred: it uses a retry.
AcquireRefused(w) ==
  /\ Goto(w, "acquire", "ack")
  /\ live[w]
  /\ RefuseSlot(TenantAt(w))
  /\ Return(w, "retry")
  /\ UNCHANGED <<leaked, faults>>
  /\ UNCHANGED <<queueVars, trackVars, outputVars>>

\* Acquire fails in Redis: its script did not run, or ran and the reply is
\* lost, in which case nobody will ever decrement.  A dead context never
\* reaches Redis and needs no further fault.
AcquireFails(w) ==
  /\ Goto(w, "acquire", "ack")
  /\ \/ ~live[w] /\ UNCHANGED <<active, leaked, faults>>
     \/ live[w] /\ Fault /\ UNCHANGED <<active, leaked>>
     \/ live[w] /\ Fault /\ GrantSlot(TenantAt(w)) /\ Leak(TenantAt(w))
  /\ Return(w, "retry")
  /\ UNCHANGED <<queueVars, trackVars, outputVars>>

Release(w) ==
  /\ Goto(w, "release", "ack")
  /\ live[w]
  /\ FreeSlot(TenantAt(w))
  /\ UNCHANGED <<verdict, leaked, faults>>
  /\ UNCHANGED <<queueVars, trackVars, outputVars>>

\* Release discards the script's error, so the slot stays counted.
ReleaseLost(w) ==
  /\ Goto(w, "release", "ack")
  /\ IF live[w] THEN Fault ELSE UNCHANGED faults
  /\ Leak(TenantAt(w))
  /\ UNCHANGED <<verdict, active>>
  /\ UNCHANGED <<queueVars, trackVars, outputVars>>

(***************************************************************************)
(* ReportHandler.ProcessTask between Acquire and Release.                  *)
(***************************************************************************)

\* UPDATE ... WHERE task_id: no row, no effect, and no look at the old status.
MarkJob(t, status) ==
  row' = [row EXCEPT ![t] = IF @ = "none" THEN @ ELSE status]

\* trackJob is best effort: with a dead context, or on an error of the
\* database, the row keeps its status and the handler goes on.
TrackJob(w, status) ==
  \/ live[w] /\ MarkJob(job[w], status) /\ UNCHANGED faults
  \/ live[w] /\ Fault /\ UNCHANGED row
  \/ ~live[w] /\ UNCHANGED <<row, faults>>

TrackRunning(w) ==
  /\ Goto(w, "running", "work")
  /\ TrackJob(w, "running")
  /\ UNCHANGED <<verdict, active, web, leaked>>
  /\ UNCHANGED <<queueVars, outputVars>>

\* GenerateReport returns a report.
GenerateReport(w) ==
  /\ Goto(w, "work", "persist")
  /\ live[w]
  /\ job[w] \in ReportTasks
  /\ UNCHANGED <<verdict, active, leaked, faults>>
  /\ UNCHANGED <<queueVars, trackVars, outputVars>>

\* GenerateReport returns an error: budget, provider, tools, timeout.
GenerateReportFails(w) ==
  /\ Goto(w, "work", "failed")
  /\ job[w] \in ReportTasks
  /\ UNCHANGED <<verdict, active, leaked, faults>>
  /\ UNCHANGED <<queueVars, trackVars, outputVars>>

\* ReportService.Create: one INSERT.
CreateReport(w) ==
  /\ Goto(w, "persist", "deliver")
  /\ live[w]
  /\ reports' = [reports EXCEPT ![job[w]] = @ + 1]
  /\ UNCHANGED <<verdict, active, leaked, faults>>
  /\ UNCHANGED <<queueVars, trackVars, deliveries, delivered>>

\* Mutant of CreateReportFails: no return after Create's error.
CreateReportFailsContinues(w) ==
  /\ Goto(w, "persist", "deliver")
  /\ UNCHANGED <<verdict, active, leaked, reports, faults>>
  /\ UNCHANGED <<queueVars, trackVars, deliveries, delivered>>

\* Create returns an error: the INSERT failed, or committed and its reply is
\* lost.
CreateReportFails(w) ==
  /\ Goto(w, "persist", "failed")
  /\ \/ UNCHANGED <<reports, faults>>
     \/ /\ live[w]
        /\ Fault
        /\ reports' = [reports EXCEPT ![job[w]] = @ + 1]
  /\ UNCHANGED <<verdict, active, leaked>>
  /\ UNCHANGED <<queueVars, trackVars, deliveries, delivered>>

TrackFailed(w) ==
  /\ Goto(w, "failed", "release")
  /\ TrackJob(w, "failed")
  /\ Return(w, "retry")
  /\ UNCHANGED <<active, web, leaked>>
  /\ UNCHANGED <<queueVars, outputVars>>

\* The delivery task is enqueued; a failure to do so is only logged.
EnqueueDelivery(w) ==
  /\ Goto(w, "deliver", "succeeded")
  /\ \/ live[w] /\ deliveries' = [deliveries EXCEPT ![job[w]] = @ + 1]
                /\ UNCHANGED faults
     \/ live[w] /\ Fault /\ UNCHANGED deliveries
     \/ ~live[w] /\ UNCHANGED <<deliveries, faults>>
  /\ UNCHANGED <<verdict, active, leaked, reports, delivered>>
  /\ UNCHANGED <<queueVars, trackVars>>

\* Mutant of TrackSucceeded: an earlier error is returned instead of nil.
TrackSucceededReturnsError(w) ==
  /\ Goto(w, "succeeded", "release")
  /\ TrackJob(w, "succeeded")
  /\ Return(w, "retry")
  /\ UNCHANGED <<active, web, leaked>>
  /\ UNCHANGED <<queueVars, outputVars>>

\* Mutant of TrackSucceeded: the outcome is not recorded.
TrackSucceededForgotten(w) ==
  /\ Goto(w, "succeeded", "release")
  /\ Return(w, "ok")
  /\ UNCHANGED <<active, leaked, faults>>
  /\ UNCHANGED <<queueVars, trackVars, outputVars>>

TrackSucceeded(w) ==
  /\ Goto(w, "succeeded", "release")
  /\ TrackJob(w, "succeeded")
  /\ Return(w, "ok")
  /\ UNCHANGED <<active, web, leaked>>
  /\ UNCHANGED <<queueVars, outputVars>>

(***************************************************************************)
(* IngestHandler.ProcessTask between Acquire and Release: ErrResolution-   *)
(* Failed is joined with SkipRetry, any other error is retried.            *)
(***************************************************************************)
Ingest(w) ==
  /\ Goto(w, "work", "release")
  /\ job[w] \in Tasks \ ReportTasks
  /\ \/ live[w] /\ Return(w, "ok")
     \/ Return(w, "skip")
     \/ Return(w, "retry")
  /\ UNCHANGED <<active, leaked, faults>>
  /\ UNCHANGED <<queueVars, trackVars, outputVars>>

(***************************************************************************)
(* The queue's answer to the handler, and the attempts that are lost.      *)
(***************************************************************************)

\* The result of an attempt whose context is dead is discarded.
Acknowledge(w) ==
  /\ pc[w] = "ack"
  /\ IF live[w]
     THEN \/ verdict[w] = "ok" /\ CompleteTask(job[w])
          \/ verdict[w] = "retry" /\ RetryOrArchive(job[w])
          \/ verdict[w] = "skip" /\ ArchiveTask(job[w])
     ELSE UNCHANGED queueVars
  /\ Idle(w)
  /\ UNCHANGED <<active, leaked, faults>>
  /\ UNCHANGED <<trackVars, outputVars>>

\* The handler holds a slot from Acquire's success to the end of Release.
HoldsSlot(w) == pc[w] \notin {"idle", "acquire", "ack"}

LeakHeldSlot(w) ==
  IF HoldsSlot(w) THEN Leak(TenantAt(w)) ELSE UNCHANGED leaked

\* The process dies: no deferred call runs, and the task stays active.
Crash(w) ==
  /\ pc[w] # "idle"
  /\ Fault
  /\ LeakHeldSlot(w)
  /\ Idle(w)
  /\ UNCHANGED active
  /\ UNCHANGED <<queueVars, trackVars, outputVars>>

\* WorkerServer.Stop when the handler outlasts asynq's grace period: the task
\* is put back and the process exits.
ShutdownAborts(w) ==
  /\ pc[w] # "idle"
  /\ live[w]
  /\ Fault
  /\ LeakHeldSlot(w)
  /\ RequeueTask(job[w])
  /\ Idle(w)
  /\ UNCHANGED active
  /\ UNCHANGED <<trackVars, outputVars>>

\* The lease expires or the task's deadline passes: the context is cancelled
\* but the handler runs on.
LoseLease(w) ==
  /\ pc[w] # "idle"
  /\ live[w]
  /\ Fault
  /\ live' = [live EXCEPT ![w] = FALSE]
  /\ UNCHANGED <<pc, job, verdict, active, leaked>>
  /\ UNCHANGED <<queueVars, trackVars, outputVars>>

Attended(t) == \E w \in Workers : pc[w] # "idle" /\ job[w] = t /\ live[w]

\* The recoverer hands out again a task whose attempt is lost.
Recover(t) ==
  /\ ~Attended(t)
  /\ RetryOrArchive(t)
  /\ UNCHANGED <<active, leaked, faults>>
  /\ UNCHANGED <<handlerVars, trackVars, outputVars>>

Promote(t) ==
  /\ PromoteTask(t)
  /\ UNCHANGED <<active, leaked, faults>>
  /\ UNCHANGED <<handlerVars, trackVars, outputVars>>

Purge(t) ==
  /\ PurgeTask(t)
  /\ UNCHANGED <<active, leaked, faults>>
  /\ UNCHANGED <<handlerVars, trackVars, outputVars>>

(***************************************************************************)
(* DeliveryHandler.ProcessTask.  It takes no slot.  The report it fetches  *)
(* always exists, because no caller deletes reports.                       *)
(***************************************************************************)

\* The payload ReportHandler builds has no RecipientEmail, and the handler
\* then returns nil without calling the DeliveryService.
DeliverReport(t) ==
  /\ deliveries[t] > 0
  /\ deliveries' = [deliveries EXCEPT ![t] = @ - 1]
  /\ delivered' = [delivered EXCEPT ![t] = @ + 1]
  /\ UNCHANGED <<active, reports, leaked, faults>>
  /\ UNCHANGED <<queueVars, handlerVars, trackVars>>

Handle(w) ==
  \/ Acquire(w) \/ AcquireRefused(w) \/ AcquireFails(w)
  \/ TrackRunning(w) \/ GenerateReport(w) \/ GenerateReportFails(w)
  \/ CreateReport(w) \/ CreateReportFails(w)
  \/ TrackFailed(w) \/ EnqueueDelivery(w) \/ TrackSucceeded(w)
  \/ Ingest(w)
  \/ Release(w) \/ ReleaseLost(w) \/ Acknowledge(w)

Next ==
  \/ \E t \in Tasks :
       \/ Generate(t) \/ TrackGenerationJob(t) \/ TrackingLost(t)
       \/ Schedule(t) \/ Recover(t) \/ Promote(t) \/ Purge(t)
       \/ DeliverReport(t)
       \/ \E w \in Workers : Dequeue(w, t)
  \/ \E w \in Workers :
       Handle(w) \/ Crash(w) \/ ShutdownAborts(w) \/ LoseLease(w)

Spec == Init /\ [][Next]_vars

\* A worker that is running finishes its handler, an idle one takes a task,
\* and the queue's janitors run.  Nothing makes a fault, a purge or a request
\* happen.
Fairness ==
  /\ \A w \in Workers : WF_vars(Handle(w))
  /\ \A t \in Tasks :
       /\ WF_vars(\E w \in Workers : Dequeue(w, t))
       /\ WF_vars(Recover(t))
       /\ WF_vars(Promote(t))
       /\ WF_vars(TrackGenerationJob(t))
       /\ WF_vars(DeliverReport(t))

FairSpec == Spec /\ Fairness

(***************************************************************************)
(* What users and operators rely on.                                       *)
(***************************************************************************)

Holders(n) == {w \in Workers : HoldsSlot(w) /\ TenantAt(w) = n}

Slots == INSTANCE SlotPool
           WITH Clients <- Workers,
                holders <- [n \in Tenants |-> Holders(n)],
                lost <- leaked

\* The handlers and the Redis counter implement the pool of slots: every step
\* takes a free slot, gives one back, loses one, or leaves the pool alone.
RefinesSlotPool == Slots!Spec

\* A tenant never has more than MaxActive attempts between Acquire and
\* Release, whatever crashes, lost leases and lost replies do to the counter.
SlotBound ==
  \A n \in Tenants : Cardinality(Holders(n)) <= MaxActive

\* The counter is exactly the attempts that hold a slot plus the decrements
\* that were lost: no error path of a handler keeps or returns a slot twice.
SlotAccounting ==
  \A n \in Tenants : active[n] = Cardinality(Holders(n)) + leaked[n]

\* Neither the queue nor the tracking row claims the success of a report that was
\* not stored, and its delivery is enqueued at most once per stored report, even
\* when an attempt that stored and enqueued is lost and repeated.
SuccessHasReport ==
  /\ \A t \in ReportTasks :
       task[t] = "completed" \/ row[t] = "succeeded" => reports[t] > 0
  /\ \A t \in Tasks : deliveries[t] + delivered[t] <= reports[t]

\* A task stores a second report only after a fault cost it an attempt that
\* had stored one: retries alone never duplicate a report.
DuplicatesPaid ==
  \A t \in Tasks : reports[t] <= 1 + faults

\* Without a fault, no completed job is left recorded as running or failed,
\* although its row may say failed between two attempts.
CleanCompletionRecorded ==
  faults = 0 =>
    \A t \in Tasks : task[t] = "completed" => row[t] \notin {"running", "failed"}

\* mapTaskState: what the inspector says of a task Redis still records.
LiveStatus(t) ==
  CASE task[t] \in {"pending", "retry"} -> "queued"
    [] task[t] = "active" -> "running"
    [] task[t] = "archived" -> "failed"

\* Mutant of ShownStatus: a recorded outcome wins over the live state.
ShownStatusRowFirst(t) ==
  IF row[t] = "none" THEN "none"
  ELSE IF row[t] \in {"succeeded", "failed"} THEN row[t]
  ELSE IF task[t] \in Recorded THEN LiveStatus(t) ELSE row[t]

\* MapGenerationActivity: the live state, when there is one, overrides the
\* row; a job without a row is not shown.
ShownStatus(t) ==
  IF row[t] = "none" THEN "none"
  ELSE IF task[t] \in Recorded THEN LiveStatus(t) ELSE row[t]

\* Once the activity panel shows a job as succeeded it never shows anything
\* else, although rows go back from succeeded to running when the attempt
\* that recorded the success is lost before the queue hears of it.
ShownSuccessIsFinal ==
  [][\A t \in WebTasks :
       ShownStatus(t) = "succeeded" => ShownStatus(t)' = "succeeded"]_vars

\* Every task that was enqueued is eventually completed or archived: no
\* leaked slot, lost lease or dead worker leaves it in the queue for ever.
EveryTaskSettles ==
  \A t \in Tasks : task[t] = "pending" ~> task[t] \in Settled

\* sql/migrations/009: status and error are the durable fallback once the
\* queue record expires, so the row of a job the queue is done with tells how
\* it ended.
OutcomeIsDurable ==
  \A t \in WebTasks :
    web[t] = "tracked" =>
      /\ task[t] = "completed" => row[t] = "succeeded"
      /\ task[t] = "archived" => row[t] = "failed"
=============================================================================
