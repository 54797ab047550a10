----------------------------- MODULE Lifecycle -----------------------------
(***************************************************************************)
(* How the two processes build what they own, clean up when a step fails,  *)
(* and shut down (internal/server, internal/worker, cmd/server,            *)
(* cmd/worker).  A resource is open from its constructor to its Close; the *)
(* task server, the collector's loop, the scheduler and the HTTP server    *)
(* are open while they run, and work begins as soon as they do, while the  *)
(* rest is still being built.                                              *)
(***************************************************************************)
EXTENDS Naturals, Sequences, SequencesExt

CONSTANTS
  MaxWork  \* bound on requests and tasks begun

VARIABLES
  process,    \* "server" or "worker"
  phase,      \* "building", "running", "stopping" or "down"
  built,      \* steps of New that are done
  open,       \* what is open
  todo,       \* what is still to be released, in order
  closes,     \* calls of Close and Shutdown main has made
  working,    \* activities with a request, task or write in progress
  abandoned,  \* activities whose work a timed out shutdown left running
  begunWork

lifecycleVars ==
  <<process, phase, built, open, todo, closes, working, abandoned, begunWork>>

ServerSteps == <<"pool", "reader", "queue", "inspector", "objects", "crypto", "http">>

WorkerSteps ==
  <<"pool", "reader", "emitter", "objects", "crypto", "limiter", "queue",
    "tasks", "collector", "loop", "scheduler">>

StepsOf(p) == IF p = "server" THEN ServerSteps ELSE WorkerSteps

Resources == Range(ServerSteps) \cup Range(WorkerSteps)

Activities == {"http", "tasks", "loop"}

LifecycleTypeOK ==
  /\ process \in {"server", "worker"}
  /\ phase \in {"building", "running", "stopping", "down"}
  /\ built \in 0 .. Len(StepsOf(process))
  /\ open \subseteq Resources
  /\ todo \in Seq(Resources)
  /\ working \subseteq Activities /\ abandoned \subseteq working
  /\ {closes, begunWork} \subseteq Nat

LifecycleInit ==
  /\ process \in {"server", "worker"}
  /\ phase = "building" /\ built = 0
  /\ open = {} /\ todo = <<>> /\ closes = 0
  /\ working = {} /\ abandoned = {} /\ begunWork = 0

-----------------------------------------------------------------------------
\* The object store and the cipher have nothing to close; the limiter's
\* constructor and the start of the collector's goroutine cannot fail.
Unclosable == {"objects", "crypto"}
NeverFails == {"limiter", "loop"}

\* The pool is closed by NewPool itself when its ping fails.
NewPool == <<>>

\* buildServices, then New: what is released when a step of the server fails.
BuildServicesCleanup(step) ==
  CASE step = "reader" -> <<"pool">>
    [] step = "queue" -> <<"reader", "pool">>
    [] step = "inspector" -> <<"queue", "reader", "pool">>

ServerCleanup(step) ==
  CASE step = "pool" -> NewPool
    [] step \in {"reader", "queue", "inspector"} -> BuildServicesCleanup(step)
    [] step \in {"objects", "crypto"} -> <<"reader", "queue", "inspector", "pool">>

\* The nested cleanups of worker.New.
CleanupWithEmitter == <<"emitter", "reader", "pool">>
CleanupWithRateLimiter == <<"limiter">> \o CleanupWithEmitter
CleanupWithQueue == <<"queue">> \o CleanupWithRateLimiter

WorkerCleanup(step) ==
  CASE step = "pool" -> NewPool
    [] step = "reader" -> <<"pool">>
    [] step = "emitter" -> <<"reader", "pool">>
    [] step \in {"objects", "crypto"} -> CleanupWithEmitter
    [] step = "queue" -> CleanupWithRateLimiter
    [] step = "tasks" -> CleanupWithQueue
    [] step = "collector" -> <<"tasks">> \o CleanupWithQueue
    [] step = "scheduler" -> <<"loop", "collector", "tasks">> \o CleanupWithQueue

CleanupOf(step) ==
  IF process = "server" THEN ServerCleanup(step) ELSE WorkerCleanup(step)

CloseServer == <<"reader", "queue", "inspector", "pool">>

\* Mutant of CloseWorker: the queue is closed before the tasks that use it.
XCloseQueueFirst ==
  <<"loop", "scheduler", "queue", "tasks", "collector", "limiter", "emitter",
    "reader", "pool">>

CloseWorker ==
  <<"loop", "scheduler", "tasks", "collector", "queue", "limiter", "emitter",
    "reader", "pool">>

-----------------------------------------------------------------------------
\* One step of New; for the server, the last is Start, in a goroutine of main.
Build ==
  LET step == StepsOf(process)[built + 1] IN
  /\ phase = "building"
  /\ built' = built + 1
  /\ open' = IF step \in Unclosable THEN open ELSE open \cup {step}
  /\ phase' = IF built + 1 = Len(StepsOf(process)) THEN "running" ELSE "building"
  /\ UNCHANGED <<process, todo, closes, working, abandoned, begunWork>>

BuildFails ==
  LET step == StepsOf(process)[built + 1] IN
  /\ phase = "building"
  /\ step \notin NeverFails \cup {"http"}
  /\ todo' = CleanupOf(step)
  /\ phase' = "stopping"
  /\ UNCHANGED <<process, built, open, closes, working, abandoned, begunWork>>

\* Start returns an error, the port being taken: main's deferred Close runs.
StartFails ==
  /\ process = "server"
  /\ phase = "building" /\ StepsOf(process)[built + 1] = "http"
  /\ todo' = CloseServer /\ closes' = 2
  /\ phase' = "stopping"
  /\ UNCHANGED <<process, built, open, working, abandoned, begunWork>>

\* SIGTERM: Shutdown stops the HTTP server and closes the rest.
Signal ==
  /\ phase = "running"
  /\ todo' = IF process = "server" THEN <<"http">> \o CloseServer ELSE CloseWorker
  /\ closes' = 1
  /\ phase' = "stopping"
  /\ UNCHANGED <<process, built, open, working, abandoned, begunWork>>

\* The deferred Close after Shutdown: closeOnce makes it do nothing.
CloseAgain ==
  /\ phase = "down" /\ closes = 1
  /\ closes' = 2
  /\ UNCHANGED <<process, phase, built, open, todo, working, abandoned, begunWork>>

\* Close, Stop, Shutdown or cancel-and-wait: an activity ends when its work is
\* done, and HTTP and task servers when their time to shut down is over, which
\* leaves the work running.
Release ==
  LET r == Head(todo) IN
  /\ phase = "stopping" /\ todo # <<>>
  /\ \/ r \notin working /\ UNCHANGED abandoned
     \/ /\ r \in working \cap {"http", "tasks"}
        /\ abandoned' = abandoned \cup {r}
  /\ open' = open \ {r}
  /\ todo' = Tail(todo)
  /\ UNCHANGED <<process, phase, built, closes, working, begunWork>>

Released ==
  /\ phase = "stopping" /\ todo = <<>>
  /\ phase' = "down"
  /\ UNCHANGED <<process, built, open, todo, closes, working, abandoned, begunWork>>

-----------------------------------------------------------------------------
BeginWork(a) ==
  /\ a \in open /\ a \notin working
  /\ begunWork < MaxWork
  /\ begunWork' = begunWork + 1
  /\ working' = working \cup {a}
  /\ UNCHANGED <<process, phase, built, open, todo, closes, abandoned>>

EndWork(a) ==
  /\ a \in working
  /\ working' = working \ {a} /\ abandoned' = abandoned \ {a}
  /\ UNCHANGED <<process, phase, built, open, todo, closes, begunWork>>

LifecycleNext ==
  \/ Build \/ BuildFails \/ StartFails \/ Signal \/ CloseAgain
  \/ Release \/ Released
  \/ \E a \in Activities : BeginWork(a) \/ EndWork(a)

LifecycleSpec == LifecycleInit /\ [][LifecycleNext]_lifecycleVars

-----------------------------------------------------------------------------
\* What an activity uses while it works.
UsedBy(a) ==
  CASE a = "http" -> {"pool", "reader", "queue", "inspector"}
    [] a = "tasks" -> {"pool", "reader", "emitter", "queue", "limiter"}
    [] a = "loop" -> {"pool", "collector"}

\* Whatever step fails and whenever the signal comes, a process that is down
\* has closed all it opened; it closes nothing twice and nothing it has not
\* opened, and nothing that a request, a task or the collector is using, unless
\* a shutdown gave up waiting for it.
NothingLeaked ==
  /\ phase = "down" => open = {}
  /\ Range(todo) \subseteq open /\ IsInjective(todo)
  /\ \A a \in working \ abandoned : UsedBy(a) \subseteq open
=============================================================================
