-------------------------- MODULE JobHandlersProofs --------------------------
(***************************************************************************)
(* Proofs about JobHandlers, for every set of workers, tasks and tenants   *)
(* and every limit, retry count and number of faults.                      *)
(***************************************************************************)
EXTENDS JobHandlers, FiniteSetTheorems, TLAPS

(***************************************************************************)
(* Types.  The job of a busy worker is a task, which TypeOK alone does not *)
(* say and the tenant of its slot needs.                                   *)
(***************************************************************************)
BusyHasTask == \A w \in Workers : pc[w] # "idle" => job[w] \in Tasks

IType == TypeOK /\ BusyHasTask

\* The steps of a handler, and those of everything else, preserve the types.
LEMMA HandleType ==
  ASSUME IType, NEW w \in Workers, Handle(w)
  PROVE  IType'
<1> USE TasksAssumption, MaxActiveAssumption, MaxRetryAssumption,
        MaxFaultsAssumption
    DEF IType, TypeOK, BusyHasTask, TaskQueueTypeOK, RateLimiterTypeOK,
        handlerVars, trackVars, outputVars, queueVars, Goto, Return, Fault,
        TenantAt, Leak, PCs, Statuses, TaskStates
<1>1. CASE Acquire(w)
  BY <1>1 DEF Acquire, GrantSlot
<1>2. CASE AcquireRefused(w)
  BY <1>2 DEF AcquireRefused, RefuseSlot
<1>3. CASE AcquireFails(w)
  BY <1>3 DEF AcquireFails, GrantSlot
<1>4. CASE TrackRunning(w)
  BY <1>4 DEF TrackRunning, TrackJob, MarkJob
<1>5. CASE GenerateReport(w)
  BY <1>5 DEF GenerateReport
<1>6. CASE GenerateReportFails(w)
  BY <1>6 DEF GenerateReportFails
<1>7. CASE CreateReport(w)
  BY <1>7 DEF CreateReport
<1>8. CASE CreateReportFails(w)
  BY <1>8 DEF CreateReportFails
<1>9. CASE TrackFailed(w)
  BY <1>9 DEF TrackFailed, TrackJob, MarkJob
<1>10. CASE EnqueueDelivery(w)
  BY <1>10 DEF EnqueueDelivery
<1>11. CASE TrackSucceeded(w)
  BY <1>11 DEF TrackSucceeded, TrackJob, MarkJob
<1>12. CASE Ingest(w)
  BY <1>12 DEF Ingest
<1>13. CASE Release(w)
  BY <1>13 DEF Release, FreeSlot
<1>14. CASE ReleaseLost(w)
  BY <1>14 DEF ReleaseLost
<1>15. CASE Acknowledge(w)
  BY <1>15 DEF Acknowledge, Idle, CompleteTask, RetryOrArchive, ArchiveTask, Move
<1>. QED
  BY <1>1, <1>2, <1>3, <1>4, <1>5, <1>6, <1>7, <1>8, <1>9, <1>10, <1>11,
     <1>12, <1>13, <1>14, <1>15 DEF Handle

LEMMA OtherType ==
  ASSUME IType, Next, \A w \in Workers : ~Handle(w)
  PROVE  IType'
<1> USE TasksAssumption, MaxActiveAssumption, MaxRetryAssumption,
        MaxFaultsAssumption
    DEF IType, TypeOK, BusyHasTask, TaskQueueTypeOK, RateLimiterTypeOK,
        handlerVars, trackVars, outputVars, queueVars, Goto, Return, Fault,
        TenantAt, Leak, PCs, Statuses, TaskStates, Move
<1>1. ASSUME NEW t \in Tasks, Generate(t)
      PROVE  IType'
  BY <1>1 DEF Generate, EnqueueTask
<1>2. ASSUME NEW t \in Tasks, TrackGenerationJob(t)
      PROVE  IType'
  BY <1>2 DEF TrackGenerationJob
<1>3. ASSUME NEW t \in Tasks, TrackingLost(t)
      PROVE  IType'
  BY <1>3 DEF TrackingLost
<1>4. ASSUME NEW t \in Tasks, Schedule(t)
      PROVE  IType'
  BY <1>4 DEF Schedule, EnqueueTask
<1>5. ASSUME NEW t \in Tasks, Recover(t)
      PROVE  IType'
  BY <1>5 DEF Recover, RetryOrArchive
<1>6. ASSUME NEW t \in Tasks, Promote(t)
      PROVE  IType'
  BY <1>6 DEF Promote, PromoteTask
<1>7. ASSUME NEW t \in Tasks, Purge(t)
      PROVE  IType'
  BY <1>7 DEF Purge, PurgeTask
<1>8. ASSUME NEW t \in Tasks, DeliverReport(t)
      PROVE  IType'
  BY <1>8 DEF DeliverReport
<1>9. ASSUME NEW t \in Tasks, NEW w \in Workers, Dequeue(w, t)
      PROVE  IType'
  BY <1>9 DEF Dequeue, DequeueTask
<1>10. ASSUME NEW w \in Workers, Crash(w)
       PROVE  IType'
  BY <1>10 DEF Crash, LeakHeldSlot, HoldsSlot, Idle
<1>11. ASSUME NEW w \in Workers, ShutdownAborts(w)
       PROVE  IType'
  BY <1>11 DEF ShutdownAborts, LeakHeldSlot, HoldsSlot, Idle, RequeueTask
<1>12. ASSUME NEW w \in Workers, LoseLease(w)
       PROVE  IType'
  BY <1>12 DEF LoseLease
<1>. QED
  BY <1>1, <1>2, <1>3, <1>4, <1>5, <1>6, <1>7, <1>8, <1>9, <1>10, <1>11,
     <1>12 DEF Next

LEMMA TypeInit == Init => IType
BY TasksAssumption, MaxRetryAssumption, MaxFaultsAssumption
   DEF Init, TaskQueueInit, RateLimiterInit, IType, TypeOK, BusyHasTask,
       TaskQueueTypeOK, RateLimiterTypeOK, PCs, Statuses, TaskStates

LEMMA TypeInvariant == Spec => []IType
<1>1. IType /\ [Next]_vars => IType'
  <2> SUFFICES ASSUME IType, [Next]_vars PROVE IType'
    OBVIOUS
  <2>1. CASE \E w \in Workers : Handle(w)
    BY <2>1, HandleType
  <2>2. CASE Next /\ \A w \in Workers : ~Handle(w)
    BY <2>2, OtherType
  <2>3. CASE UNCHANGED vars
    BY <2>3 DEF vars, IType, TypeOK, BusyHasTask, TaskQueueTypeOK,
                RateLimiterTypeOK
  <2>. QED
    BY <2>1, <2>2, <2>3
<1>. QED
  BY <1>1, TypeInit, PTL DEF Spec

\* Every variable of the workers keeps its type, whatever the environment does.
THEOREM TypeCorrect == Spec => []TypeOK
BY TypeInvariant, PTL DEF IType

(***************************************************************************)
(* Slots.  Seen from the rate limiter a step does one of five things; both *)
(* the accounting of slots and the refinement of SlotPool follow from that *)
(* case distinction alone.                                                 *)
(***************************************************************************)
OthersKeep(n) == \A m \in Tenants \ {n} : Holders(m)' = Holders(m)

Untouched ==
  /\ \A n \in Tenants : Holders(n)' = Holders(n)
  /\ UNCHANGED <<active, leaked>>

Enters(w, n) ==
  /\ \A m \in Tenants : w \notin Holders(m)
  /\ Holders(n)' = Holders(n) \cup {w}
  /\ OthersKeep(n)
  /\ GrantSlot(n)
  /\ UNCHANGED leaked

Leaves(w, n) ==
  /\ w \in Holders(n)
  /\ Holders(n)' = Holders(n) \ {w}
  /\ OthersKeep(n)
  /\ FreeSlot(n)
  /\ UNCHANGED leaked

Abandons(w, n) ==
  /\ w \in Holders(n)
  /\ Holders(n)' = Holders(n) \ {w}
  /\ OthersKeep(n)
  /\ Leak(n)
  /\ UNCHANGED active

Squanders(n) ==
  /\ \A m \in Tenants : Holders(m)' = Holders(m)
  /\ GrantSlot(n)
  /\ Leak(n)

SlotStep ==
  \/ Untouched
  \/ \E n \in Tenants :
       \/ Squanders(n)
       \/ \E w \in Workers : Enters(w, n) \/ Leaves(w, n) \/ Abandons(w, n)

\* A handler that moves between two steps with the same claim to a slot keeps
\* the holders as they are.
LEMMA SamePlace ==
  ASSUME IType, NEW w \in Workers, NEW from, NEW to, Goto(w, from, to),
         (from \in {"idle", "acquire", "ack"}) = (to \in {"idle", "acquire", "ack"})
  PROVE  \A n \in Tenants : Holders(n)' = Holders(n)
BY DEF Goto, Holders, HoldsSlot, TenantAt, IType, TypeOK

LEMMA Departure ==
  ASSUME IType, NEW w \in Workers, NEW n \in Tenants, n = TenantAt(w),
         pc[w] \notin {"idle", "acquire", "ack"},
         \/ Goto(w, "release", "ack")
         \/ Idle(w)
  PROVE  /\ w \in Holders(n)
         /\ Holders(n)' = Holders(n) \ {w}
         /\ OthersKeep(n)
<1> USE DEF Holders, HoldsSlot, TenantAt, IType, TypeOK, OthersKeep
<1>1. w \in Holders(n)
  OBVIOUS
<1>2. \A v \in Workers \ {w} : pc'[v] = pc[v] /\ job'[v] = job[v]
  BY DEF Goto, Idle
<1>3. pc'[w] \in {"idle", "ack"}
  BY DEF Goto, Idle
<1>4. Holders(n)' = Holders(n) \ {w}
  BY <1>2, <1>3
<1>5. ASSUME NEW m \in Tenants \ {n}
      PROVE  Holders(m)' = Holders(m)
  <2>1. w \notin Holders(m) /\ w \notin Holders(m)'
    BY <1>3
  <2>2. \A v \in Workers \ {w} : v \in Holders(m)' <=> v \in Holders(m)
    BY <1>2
  <2>. QED
    BY <2>1, <2>2
<1>. QED
  BY <1>1, <1>4, <1>5

\* An attempt that held no slot and ends leaves the holders as they are.
LEMMA NoDeparture ==
  ASSUME IType, NEW w \in Workers,
         pc[w] \in {"idle", "acquire", "ack"}, Idle(w)
  PROVE  \A n \in Tenants : Holders(n)' = Holders(n)
<1>1. \A v \in Workers \ {w} : pc'[v] = pc[v] /\ job'[v] = job[v]
  BY DEF Idle, IType, TypeOK
<1>2. pc'[w] = "idle"
  BY DEF Idle, IType, TypeOK
<1>. QED
  BY <1>1, <1>2 DEF Holders, HoldsSlot, TenantAt

LEMMA HandleSlotStep ==
  ASSUME IType, NEW w \in Workers, Handle(w)
  PROVE  SlotStep
<1> USE DEF SlotStep, Untouched
<1>1. CASE Acquire(w)
  <2>1. PICK n \in Tenants : n = TenantAt(w)
    BY <1>1, TasksAssumption
       DEF Acquire, Goto, TenantAt, IType, TypeOK, BusyHasTask
  <2>2. Enters(w, n)
    BY <1>1, <2>1 DEF Acquire, Goto, TenantAt, Enters, Holders, HoldsSlot,
                      OthersKeep, IType, TypeOK
  <2>. QED
    BY <2>2
<1>2. CASE AcquireRefused(w)
  BY <1>2, SamePlace DEF AcquireRefused, RefuseSlot
<1>3. CASE AcquireFails(w)
  <2>1. TenantAt(w) \in Tenants
    BY <1>3, TasksAssumption DEF AcquireFails, Goto, TenantAt, IType, BusyHasTask
  <2>2. \A n \in Tenants : Holders(n)' = Holders(n)
    BY <1>3, SamePlace DEF AcquireFails
  <2>. QED
    BY <1>3, <2>1, <2>2 DEF AcquireFails, Squanders
<1>4. CASE TrackRunning(w)
  BY <1>4, SamePlace DEF TrackRunning
<1>5. CASE GenerateReport(w)
  BY <1>5, SamePlace DEF GenerateReport
<1>6. CASE GenerateReportFails(w)
  BY <1>6, SamePlace DEF GenerateReportFails
<1>7. CASE CreateReport(w)
  BY <1>7, SamePlace DEF CreateReport
<1>8. CASE CreateReportFails(w)
  BY <1>8, SamePlace DEF CreateReportFails
<1>9. CASE TrackFailed(w)
  BY <1>9, SamePlace DEF TrackFailed
<1>10. CASE EnqueueDelivery(w)
  BY <1>10, SamePlace DEF EnqueueDelivery
<1>11. CASE TrackSucceeded(w)
  BY <1>11, SamePlace DEF TrackSucceeded
<1>12. CASE Ingest(w)
  BY <1>12, SamePlace DEF Ingest
<1>13. CASE Release(w)
  <2>1. PICK n \in Tenants : n = TenantAt(w)
    BY <1>13, TasksAssumption
       DEF Release, Goto, TenantAt, IType, TypeOK, BusyHasTask
  <2>2. pc[w] = "release"
    BY <1>13 DEF Release, Goto
  <2>3. w \in Holders(n) /\ Holders(n)' = Holders(n) \ {w} /\ OthersKeep(n)
    BY <1>13, <2>1, <2>2, Departure DEF Release
  <2>4. Leaves(w, n)
    BY <1>13, <2>1, <2>3 DEF Release, Leaves
  <2>. QED
    BY <2>4
<1>14. CASE ReleaseLost(w)
  <2>1. PICK n \in Tenants : n = TenantAt(w)
    BY <1>14, TasksAssumption
       DEF ReleaseLost, Goto, TenantAt, IType, TypeOK, BusyHasTask
  <2>2. pc[w] = "release"
    BY <1>14 DEF ReleaseLost, Goto
  <2>3. w \in Holders(n) /\ Holders(n)' = Holders(n) \ {w} /\ OthersKeep(n)
    BY <1>14, <2>1, <2>2, Departure DEF ReleaseLost
  <2>4. Abandons(w, n)
    BY <1>14, <2>1, <2>3 DEF ReleaseLost, Abandons
  <2>. QED
    BY <2>4
<1>15. CASE Acknowledge(w)
  BY <1>15, NoDeparture DEF Acknowledge
<1>. QED
  BY <1>1, <1>2, <1>3, <1>4, <1>5, <1>6, <1>7, <1>8, <1>9, <1>10, <1>11,
     <1>12, <1>13, <1>14, <1>15 DEF Handle

LEMMA OtherSlotStep ==
  ASSUME IType, Next, \A w \in Workers : ~Handle(w)
  PROVE  SlotStep
<1> USE DEF SlotStep, Untouched
<1>1. ASSUME NEW t \in Tasks,
             \/ Generate(t) \/ TrackGenerationJob(t) \/ TrackingLost(t)
             \/ Schedule(t) \/ Recover(t) \/ Promote(t) \/ Purge(t)
             \/ DeliverReport(t)
      PROVE  SlotStep
  <2>1. UNCHANGED <<pc, job, active, leaked>>
    BY <1>1 DEF Generate, TrackGenerationJob, TrackingLost, Schedule, Recover,
                Promote, Purge, DeliverReport, handlerVars
  <2>. QED
    BY <2>1 DEF Holders, HoldsSlot, TenantAt
<1>2. ASSUME NEW t \in Tasks, NEW w \in Workers, Dequeue(w, t)
      PROVE  SlotStep
  <2>1. \A v \in Workers \ {w} : pc'[v] = pc[v] /\ job'[v] = job[v]
    BY <1>2 DEF Dequeue, IType, TypeOK
  <2>2. pc[w] = "idle" /\ pc'[w] = "acquire"
    BY <1>2 DEF Dequeue, IType, TypeOK
  <2>3. \A n \in Tenants : Holders(n)' = Holders(n)
    BY <2>1, <2>2 DEF Holders, HoldsSlot, TenantAt
  <2>. QED
    BY <1>2, <2>3 DEF Dequeue
<1>3. ASSUME NEW w \in Workers, Crash(w) \/ ShutdownAborts(w)
      PROVE  SlotStep
  <2>1. Idle(w) /\ LeakHeldSlot(w) /\ UNCHANGED active
    BY <1>3 DEF Crash, ShutdownAborts
  <2>2. CASE HoldsSlot(w)
    <3>1. PICK n \in Tenants : n = TenantAt(w)
      BY <2>2, TasksAssumption
         DEF HoldsSlot, TenantAt, IType, TypeOK, BusyHasTask
    <3>2. w \in Holders(n) /\ Holders(n)' = Holders(n) \ {w} /\ OthersKeep(n)
      BY <2>1, <2>2, <3>1, Departure DEF HoldsSlot
    <3>3. Abandons(w, n)
      BY <2>1, <2>2, <3>1, <3>2 DEF LeakHeldSlot, Abandons
    <3>. QED
      BY <3>3
  <2>3. CASE ~HoldsSlot(w)
    BY <2>1, <2>3, NoDeparture DEF LeakHeldSlot, HoldsSlot
  <2>. QED
    BY <2>2, <2>3
<1>4. ASSUME NEW w \in Workers, LoseLease(w)
      PROVE  SlotStep
  BY <1>4 DEF LoseLease, Holders, HoldsSlot, TenantAt
<1>. QED
  BY <1>1, <1>2, <1>3, <1>4 DEF Next

LEMMA NextSlotStep ==
  ASSUME IType, [Next]_vars
  PROVE  SlotStep
<1>1. CASE \E w \in Workers : Handle(w)
  BY <1>1, HandleSlotStep
<1>2. CASE Next /\ \A w \in Workers : ~Handle(w)
  BY <1>2, OtherSlotStep
<1>3. CASE UNCHANGED vars
  BY <1>3 DEF vars, SlotStep, Untouched, Holders, HoldsSlot, TenantAt
<1>. QED
  BY <1>1, <1>2, <1>3

\* The strengthening that is inductive: the accounting, and the bound that
\* Acquire's script puts on the counter itself.
SlotInv ==
  /\ SlotAccounting
  /\ \A n \in Tenants : active[n] <= MaxActive

LEMMA HoldersFinite ==
  ASSUME NEW n \in Tenants
  PROVE  IsFiniteSet(Holders(n)) /\ Cardinality(Holders(n)) \in Nat
BY WorkersAssumption, FS_Subset, FS_CardinalityType DEF Holders

LEMMA SlotStepInv ==
  ASSUME IType, SlotInv, SlotStep
  PROVE  SlotInv'
<1> USE DEF SlotInv, SlotAccounting
<1>1. CASE Untouched
  BY <1>1 DEF Untouched
<1>2. ASSUME NEW n \in Tenants, Squanders(n)
      PROVE  SlotInv'
  BY <1>2, HoldersFinite, MaxActiveAssumption
     DEF Squanders, GrantSlot, Leak, IType, TypeOK, RateLimiterTypeOK
<1>3. ASSUME NEW n \in Tenants, NEW w \in Workers, Enters(w, n)
      PROVE  SlotInv'
  <2>1. Cardinality(Holders(n)') = Cardinality(Holders(n)) + 1
    BY <1>3, HoldersFinite, FS_AddElement DEF Enters
  <2>2. active'[n] = active[n] + 1 /\ active[n] < MaxActive /\ leaked' = leaked
    BY <1>3 DEF Enters, GrantSlot, IType, TypeOK, RateLimiterTypeOK
  <2>3. \A m \in Tenants \ {n} :
          active'[m] = active[m] /\ Holders(m)' = Holders(m)
    BY <1>3 DEF Enters, OthersKeep, GrantSlot, IType, TypeOK, RateLimiterTypeOK
  <2>4. active \in [Tenants -> Nat] /\ leaked \in [Tenants -> Nat]
    BY DEF IType, TypeOK, RateLimiterTypeOK
  <2>. QED
    BY <2>1, <2>2, <2>3, <2>4, HoldersFinite, MaxActiveAssumption
<1>4. ASSUME NEW n \in Tenants, NEW w \in Workers, Leaves(w, n)
      PROVE  SlotInv'
  <2>1. Cardinality(Holders(n)') = Cardinality(Holders(n)) - 1
    BY <1>4, HoldersFinite, FS_RemoveElement DEF Leaves
  <2>2. Cardinality(Holders(n)') \in Nat
    BY <1>4, HoldersFinite, FS_RemoveElement, FS_CardinalityType DEF Leaves
  <2>3. active \in [Tenants -> Nat] /\ leaked \in [Tenants -> Nat]
    BY DEF IType, TypeOK, RateLimiterTypeOK
  <2>4. /\ active'[n] = IF active[n] > 0 THEN active[n] - 1 ELSE 0
        /\ leaked' = leaked
    BY <1>4, <2>3 DEF Leaves, FreeSlot
  <2>5. \A m \in Tenants \ {n} :
          active'[m] = active[m] /\ Holders(m)' = Holders(m)
    BY <1>4, <2>3 DEF Leaves, OthersKeep, FreeSlot
  <2>. QED
    BY <2>1, <2>2, <2>3, <2>4, <2>5, HoldersFinite, MaxActiveAssumption
<1>5. ASSUME NEW n \in Tenants, NEW w \in Workers, Abandons(w, n)
      PROVE  SlotInv'
  <2>1. Cardinality(Holders(n)') = Cardinality(Holders(n)) - 1
    BY <1>5, HoldersFinite, FS_RemoveElement, ZenonT(30) DEF Abandons
  <2>2. leaked'[n] = leaked[n] + 1 /\ active' = active
    BY <1>5 DEF Abandons, Leak, IType, TypeOK
  <2>3. \A m \in Tenants \ {n} :
          leaked'[m] = leaked[m] /\ Holders(m)' = Holders(m)
    BY <1>5 DEF Abandons, OthersKeep, Leak, IType, TypeOK
  <2>4. active \in [Tenants -> Nat] /\ leaked \in [Tenants -> Nat]
    BY DEF IType, TypeOK, RateLimiterTypeOK
  <2>. QED
    BY <2>1, <2>2, <2>3, <2>4, HoldersFinite, MaxActiveAssumption
<1>. QED
  BY <1>1, <1>2, <1>3, <1>4, <1>5 DEF SlotStep

LEMMA SlotInit == Init => SlotInv
<1> SUFFICES ASSUME Init PROVE SlotInv
  OBVIOUS
<1>1. \A n \in Tenants : Holders(n) = {}
  BY DEF Init, Holders, HoldsSlot
<1>. QED
  BY <1>1, FS_EmptySet, MaxActiveAssumption
     DEF Init, RateLimiterInit, SlotInv, SlotAccounting

LEMMA SlotInvariant == Spec => []SlotInv
<1>1. IType /\ SlotInv /\ [Next]_vars => SlotInv'
  BY NextSlotStep, SlotStepInv
<1>. QED
  BY <1>1, SlotInit, TypeInvariant, PTL DEF Spec

\* The Redis counter equals the attempts that hold a slot plus the decrements
\* that were lost, on every path through both handlers.
THEOREM SlotsAccounted == Spec => []SlotAccounting
BY SlotInvariant, PTL DEF SlotInv

\* No tenant ever has more than MaxActive attempts between Acquire and
\* Release.
THEOREM SlotsBounded == Spec => []SlotBound
<1>1. IType /\ SlotInv => SlotBound
  <2> SUFFICES ASSUME IType, SlotInv, NEW n \in Tenants
               PROVE  Cardinality(Holders(n)) <= MaxActive
    BY DEF SlotBound
  <2>1. leaked[n] \in Nat
    BY DEF IType, TypeOK
  <2>. QED
    BY <2>1, HoldersFinite, MaxActiveAssumption DEF SlotInv, SlotAccounting
<1>. QED
  BY <1>1, SlotInvariant, TypeInvariant, PTL

(***************************************************************************)
(* The handlers and the counter implement SlotPool.                        *)
(***************************************************************************)
\* SlotPool brings its own copy of the operators of FiniteSets.
LEMMA SameCardinality ==
  ASSUME NEW S
  PROVE  Slots!Cardinality(S) = Cardinality(S)
BY DEF Slots!Cardinality, Cardinality

LEMMA SlotPoolInit == Init => Slots!Init
BY DEF Init, Slots!Init, Holders, HoldsSlot

\* What a step does to the holders, as the function SlotPool sees.
LEMMA SlotPoolStep ==
  ASSUME IType, SlotInv, SlotStep
  PROVE  [Slots!Next]_Slots!vars
<1> DEFINE H == [n \in Tenants |-> Holders(n)]
<1> USE DEF Slots!vars
<1>1. CASE Untouched
  BY <1>1 DEF Untouched
<1>2. ASSUME NEW n \in Tenants, GrantSlot(n)
      PROVE  Slots!SomeFree(n)
  BY <1>2, SameCardinality
     DEF GrantSlot, SlotInv, SlotAccounting, Slots!SomeFree
<1>3. ASSUME NEW n \in Tenants, Squanders(n)
      PROVE  Slots!Waste(n)
  BY <1>2, <1>3 DEF Squanders, Leak, Slots!Waste
<1>4. ASSUME NEW n \in Tenants, NEW w \in Workers, Enters(w, n)
      PROVE  Slots!Take(n, w)
  <2>1. H' = [H EXCEPT ![n] = @ \cup {w}]
    BY <1>4 DEF Enters, OthersKeep
  <2>2. w \notin UNION {H[m] : m \in Tenants}
    BY <1>4 DEF Enters
  <2>. QED
    BY <1>2, <1>4, <2>1, <2>2 DEF Enters, Slots!Take
<1>5. ASSUME NEW n \in Tenants, NEW w \in Workers, Leaves(w, n)
      PROVE  Slots!GiveBack(n, w)
  <2>1. H' = [H EXCEPT ![n] = @ \ {w}]
    BY <1>5 DEF Leaves, OthersKeep
  <2>. QED
    BY <1>5, <2>1 DEF Leaves, Slots!GiveBack
<1>6. ASSUME NEW n \in Tenants, NEW w \in Workers, Abandons(w, n)
      PROVE  Slots!Lose(n, w)
  <2>1. H' = [H EXCEPT ![n] = @ \ {w}]
    BY <1>6 DEF Abandons, OthersKeep
  <2>. QED
    BY <1>6, <2>1 DEF Abandons, Leak, Slots!Lose
<1>. QED
  BY <1>1, <1>3, <1>4, <1>5, <1>6 DEF SlotStep, Slots!Next

\* Whatever the workers, the queue and the faults do, the tenants see a pool
\* of MaxActive slots in which only a free slot is ever taken.
THEOREM SlotPoolRefinement == Spec => RefinesSlotPool
<1>1. IType /\ SlotInv /\ [Next]_vars => [Slots!Next]_Slots!vars
  BY NextSlotStep, SlotPoolStep
<1>. QED
  BY <1>1, SlotPoolInit, SlotInvariant, TypeInvariant, PTL
     DEF Spec, RefinesSlotPool, Slots!Spec

-----------------------------------------------------------------------------
(***************************************************************************)
(* What the handlers leave behind: reports, deliveries and the rows that   *)
(* track generation jobs.                                                  *)
(*                                                                         *)
(* All these results rest on the lease: of the workers that handle one     *)
(* task at most one has a live context, and only while the queue holds     *)
(* the task as active (LeaseInv).  So nobody else stores a report, or      *)
(* records an outcome that counts, while a worker goes from CreateReport   *)
(* to its acknowledgement (Succeeding).                                    *)
(***************************************************************************)
Attends(w, t) == pc[w] # "idle" /\ job[w] = t /\ live[w]

LeaseInv ==
  \A w \in Workers, t \in Tasks : Attends(w, t) =>
    /\ task[t] = "active"
    /\ \A v \in Workers : Attends(v, t) => v = w

\* The attempt has stored its report, or has ingested its source, and is to
\* return nil.
Succeeding(w) ==
  \/ pc[w] \in {"deliver", "succeeded"}
  \/ pc[w] \in {"release", "ack"} /\ verdict[w] = "ok"

\* A report attempt that succeeds has stored a report.
StoredInv ==
  /\ \A w \in Workers : Succeeding(w) /\ job[w] \in ReportTasks => reports[job[w]] > 0
  /\ \A t \in ReportTasks :
       task[t] = "completed" \/ row[t] = "succeeded" => reports[t] > 0

\* The reports of a task that are about to be delivered.
Delivering(t) == {w \in Workers : pc[w] = "deliver" /\ job[w] = t}

BackedInv ==
  \A t \in Tasks :
    deliveries[t] + delivered[t] + Cardinality(Delivering(t)) <= reports[t]

\* Every report of a task but the one of its success was paid for by a fault.
Successful(t) == task[t] = "completed" \/ \E w \in Workers : Attends(w, t) /\ Succeeding(w)

PaidInv ==
  \A t \in Tasks :
    reports[t] <= faults \/ (reports[t] <= faults + 1 /\ Successful(t))

\* Only the tasks of the web handler have rows, from the INSERT on.
RowsInv ==
  \A t \in Tasks :
    /\ web[t] # "idle" => t \in WebTasks /\ task[t] # "none"
    /\ row[t] # "none" => web[t] = "tracked"

WellRecorded(t) == row[t] \notin {"running", "failed"}

\* As long as there is no fault every attempt is live, and the row of one that
\* ends well says so.
RecordedInv ==
  faults = 0 =>
    /\ \A w \in Workers : live[w]
    /\ \A w \in Workers, t \in Tasks :
         job[w] = t /\ pc[w] \in {"release", "ack"} /\ verdict[w] = "ok" => WellRecorded(t)
    /\ \A t \in Tasks : task[t] = "completed" => WellRecorded(t)

(***************************************************************************)
(* The lease.                                                              *)
(***************************************************************************)

\* A step that gives no worker an attempt and takes no task away from one.
LEMMA LeaseStays ==
  ASSUME LeaseInv,
         \A w \in Workers, t \in Tasks : Attends(w, t)' => Attends(w, t) /\ task'[t] = task[t]
  PROVE  LeaseInv'
BY DEF LeaseInv

\* The end of an attempt: its task is given back by nobody else.
LEMMA LeaseEnds ==
  ASSUME IType, LeaseInv, NEW w \in Workers, Idle(w),
         \/ UNCHANGED task
         \/ live[w] /\ pc[w] # "idle" /\ \A t \in Tasks \ {job[w]} : task'[t] = task[t]
  PROVE  LeaseInv'
PROOF
<1>1. \A v \in Workers, t \in Tasks : Attends(v, t)' => v # w /\ Attends(v, t)
  BY DEF Idle, Attends, IType, TypeOK
<1>2. \A v \in Workers, t \in Tasks : Attends(v, t)' => task'[t] = task[t]
  <2> SUFFICES ASSUME NEW v \in Workers, NEW t \in Tasks, Attends(v, t)'
               PROVE  task'[t] = task[t]
    OBVIOUS
  <2>1. v # w /\ Attends(v, t)
    BY <1>1
  <2>2. CASE t = job[w] /\ live[w] /\ pc[w] # "idle"
    BY <2>1, <2>2 DEF LeaseInv, Attends
  <2> QED  BY <2>2
<1> QED  BY <1>1, <1>2, LeaseStays

LEMMA LeaseStep ==
  ASSUME IType, LeaseInv, [Next]_vars
  PROVE  LeaseInv'
PROOF
<1>1. ASSUME UNCHANGED <<task, pc, job, live>>
      PROVE  LeaseInv'
  BY <1>1, LeaseStays DEF Attends
<1>2. ASSUME NEW w \in Workers, NEW from \in PCs \ {"idle"}, NEW to, Goto(w, from, to),
             UNCHANGED task
      PROVE  LeaseInv'
  <2>1. \A v \in Workers, t \in Tasks : Attends(v, t)' => Attends(v, t)
    BY <1>2 DEF Goto, Attends, IType, TypeOK
  <2> QED  BY <1>2, <2>1, LeaseStays
<1>3. ASSUME NEW w \in Workers, Handle(w), ~ Acknowledge(w)
      PROVE  LeaseInv'
  <2>1. UNCHANGED task /\ \E from \in PCs \ {"idle"}, to \in PCs : Goto(w, from, to)
    BY <1>3 DEF Handle, Acquire, AcquireRefused, AcquireFails, TrackRunning, GenerateReport,
       GenerateReportFails, CreateReport, CreateReportFails, TrackFailed, EnqueueDelivery,
       TrackSucceeded, Ingest, Release, ReleaseLost, queueVars, PCs
  <2> QED  BY <1>2, <2>1
<1>4. ASSUME NEW w \in Workers, Acknowledge(w)
      PROVE  LeaseInv'
  <2>1. Idle(w) /\ pc[w] # "idle" /\ job[w] \in Tasks
    BY <1>4 DEF Acknowledge, IType, BusyHasTask
  <2>2. CASE ~ live[w]
    BY <1>4, <2>1, <2>2, LeaseEnds DEF Acknowledge, queueVars
  <2>3. CASE live[w]
    <3>1. \A t \in Tasks \ {job[w]} : task'[t] = task[t]
      BY <1>4, <2>3 DEF Acknowledge, CompleteTask, RetryOrArchive, ArchiveTask, Move, IType,
                        TypeOK, TaskQueueTypeOK
    <3> QED  BY <2>1, <2>3, <3>1, LeaseEnds
  <2> QED  BY <2>2, <2>3
<1>5. ASSUME NEW t \in Tasks, TrackGenerationJob(t) \/ TrackingLost(t) \/ DeliverReport(t)
      PROVE  LeaseInv'
  BY <1>1, <1>5 DEF TrackGenerationJob, TrackingLost, DeliverReport, queueVars, handlerVars
<1>6. ASSUME NEW t \in Tasks, ~ Attended(t), UNCHANGED <<pc, job, live>>,
             \A s \in Tasks \ {t} : task'[s] = task[s]
      PROVE  LeaseInv'
  <2>1. \A w \in Workers, s \in Tasks : Attends(w, s)' => Attends(w, s) /\ s # t
    BY <1>6 DEF Attended, Attends
  <2> QED  BY <1>6, <2>1, LeaseStays
<1>7. ASSUME NEW t \in Tasks, task[t] # "active" PROVE ~ Attended(t)
  BY <1>7 DEF Attended, LeaseInv, Attends
<1>8. ASSUME NEW t \in Tasks,
             Generate(t) \/ Schedule(t) \/ Recover(t) \/ Promote(t) \/ Purge(t)
      PROVE  LeaseInv'
  <2>1. /\ UNCHANGED <<pc, job, live>>
        /\ \A s \in Tasks \ {t} : task'[s] = task[s]
        /\ task[t] # "active" \/ ~ Attended(t)
    BY <1>8 DEF Generate, Schedule, Recover, Promote, Purge, EnqueueTask, RetryOrArchive,
       PromoteTask, PurgeTask, Move, handlerVars, IType, TypeOK, TaskQueueTypeOK
  <2> QED  BY <1>6, <1>7, <2>1
<1>9. ASSUME NEW t \in Tasks, NEW w \in Workers, Dequeue(w, t)
      PROVE  LeaseInv'
  <2>1. task[t] = "pending" /\ task'[t] = "active" /\ pc[w] = "idle"
        /\ \A s \in Tasks \ {t} : task'[s] = task[s]
    BY <1>9 DEF Dequeue, DequeueTask, Move, IType, TypeOK, TaskQueueTypeOK
  <2>2. \A v \in Workers, s \in Tasks : Attends(v, s)' =>
          \/ v = w /\ s = t
          \/ v # w /\ Attends(v, s)
    BY <1>9 DEF Dequeue, Attends, IType, TypeOK
  <2>3. \A v \in Workers : ~ Attends(v, t)
    BY <2>1 DEF LeaseInv
  <2> QED  BY <2>1, <2>2, <2>3 DEF LeaseInv
<1>10. ASSUME NEW w \in Workers, Crash(w)
       PROVE  LeaseInv'
  BY <1>10, LeaseEnds DEF Crash, queueVars
<1>11. ASSUME NEW w \in Workers, ShutdownAborts(w)
       PROVE  LeaseInv'
  <2>1. /\ Idle(w) /\ live[w] /\ pc[w] # "idle"
        /\ \A t \in Tasks \ {job[w]} : task'[t] = task[t]
    BY <1>11 DEF ShutdownAborts, RequeueTask, Move, IType, TypeOK, TaskQueueTypeOK
  <2> QED  BY <2>1, LeaseEnds
<1>12. ASSUME NEW w \in Workers, LoseLease(w)
       PROVE  LeaseInv'
  <2>1. \A v \in Workers, t \in Tasks : Attends(v, t)' => Attends(v, t)
    BY <1>12 DEF LoseLease, Attends, IType, TypeOK
  <2> QED  BY <1>12, <2>1, LeaseStays DEF LoseLease, queueVars
<1>13. CASE UNCHANGED vars
  BY <1>1, <1>13 DEF vars
<1> QED
  BY <1>3, <1>4, <1>5, <1>8, <1>9, <1>10, <1>11, <1>12, <1>13 DEF Next

(***************************************************************************)
(* What is stored.                                                         *)
(***************************************************************************)

\* What a step does to the attempt of worker w: it may start to succeed only by
\* storing a report, or by ingesting.
LEMMA SucceedsStored ==
  ASSUME IType, StoredInv, NEW w \in Workers, Handle(w)
  PROVE  /\ \A t \in Tasks : reports'[t] >= reports[t]
         /\ Succeeding(w)' /\ job'[w] \in ReportTasks => reports'[job'[w]] > 0
         /\ \A v \in Workers \ {w} : job'[v] = job[v] /\ (Succeeding(v)' <=> Succeeding(v))
PROOF
<1> USE DEF IType, TypeOK, BusyHasTask, StoredInv, Succeeding, Goto, Return, PCs
<1>1. CASE Acquire(w)
  BY <1>1 DEF Acquire, outputVars
<1>2. CASE AcquireRefused(w)
  BY <1>2 DEF AcquireRefused, outputVars
<1>3. CASE AcquireFails(w)
  BY <1>3 DEF AcquireFails, outputVars
<1>4. CASE TrackRunning(w)
  BY <1>4 DEF TrackRunning, outputVars
<1>5. CASE GenerateReport(w)
  BY <1>5 DEF GenerateReport, outputVars
<1>6. CASE GenerateReportFails(w)
  BY <1>6 DEF GenerateReportFails, outputVars
<1>7. CASE CreateReport(w)
  BY <1>7 DEF CreateReport
<1>8. CASE CreateReportFails(w)
  BY <1>8 DEF CreateReportFails
<1>9. CASE TrackFailed(w)
  BY <1>9 DEF TrackFailed, outputVars
<1>10. CASE EnqueueDelivery(w)
  BY <1>10 DEF EnqueueDelivery
<1>11. CASE TrackSucceeded(w)
  BY <1>11 DEF TrackSucceeded, outputVars
<1>12. CASE Ingest(w)
  BY <1>12 DEF Ingest, outputVars
<1>13. CASE Release(w)
  BY <1>13 DEF Release, outputVars
<1>14. CASE ReleaseLost(w)
  BY <1>14 DEF ReleaseLost, outputVars
<1>15. CASE Acknowledge(w)
  BY <1>15 DEF Acknowledge, Idle, outputVars
<1> QED
  BY <1>1, <1>2, <1>3, <1>4, <1>5, <1>6, <1>7, <1>8, <1>9, <1>10, <1>11, <1>12, <1>13,
     <1>14, <1>15 DEF Handle

\* A task is completed, and its row says succeeded, by an attempt that succeeds.
LEMMA OutcomeStored ==
  ASSUME IType, NEW w \in Workers, Handle(w), NEW t \in Tasks,
         \/ task'[t] = "completed" /\ task[t] # "completed"
         \/ row'[t] = "succeeded" /\ row[t] # "succeeded"
  PROVE  job[w] = t /\ Succeeding(w) /\ pc[w] # "idle" /\ reports' = reports
PROOF
<1> USE DEF IType, TypeOK, TaskQueueTypeOK
<1>1. CASE task'[t] # task[t]
  <2>1. Acknowledge(w)
    BY <1>1 DEF Handle, Acquire, AcquireRefused, AcquireFails, TrackRunning, GenerateReport,
       GenerateReportFails, CreateReport, CreateReportFails, TrackFailed, EnqueueDelivery,
       TrackSucceeded, Ingest, Release, ReleaseLost, queueVars
  <2>2. row' = row /\ reports' = reports /\ pc[w] = "ack"
    BY <2>1 DEF Acknowledge, trackVars, outputVars
  <2>3. CompleteTask(job[w]) /\ verdict[w] = "ok"
    BY <1>1, <2>1, <2>2 DEF Acknowledge, RetryOrArchive, ArchiveTask, Move, queueVars
  <2> QED  BY <1>1, <2>2, <2>3 DEF CompleteTask, Move, Succeeding
<1>2. CASE row'[t] = "succeeded" /\ row[t] # "succeeded"
  <2>1. TrackRunning(w) \/ TrackFailed(w) \/ TrackSucceeded(w)
    BY <1>2 DEF Handle, Acquire, AcquireRefused, AcquireFails, GenerateReport,
       GenerateReportFails, CreateReport, CreateReportFails, EnqueueDelivery,
       Ingest, Release, ReleaseLost, Acknowledge, trackVars
  <2>2. TrackSucceeded(w) /\ MarkJob(job[w], "succeeded")
    BY <1>2, <2>1 DEF TrackRunning, TrackFailed, TrackSucceeded, TrackJob, MarkJob
  <2> QED  BY <1>2, <2>2 DEF TrackSucceeded, MarkJob, Goto, Succeeding, outputVars
<1> QED  BY <1>1, <1>2

LEMMA StoredStep ==
  ASSUME IType, StoredInv, [Next]_vars
  PROVE  StoredInv'
PROOF
<1>1. ASSUME UNCHANGED reports,
             \A w \in Workers : Succeeding(w)' => Succeeding(w) /\ job'[w] = job[w],
             \A t \in ReportTasks :
               task'[t] = "completed" \/ row'[t] = "succeeded" =>
                 task[t] = "completed" \/ row[t] = "succeeded"
      PROVE  StoredInv'
  BY <1>1 DEF StoredInv
<1>2. ASSUME NEW w \in Workers, Handle(w)
      PROVE  StoredInv'
  <2>1. \A v \in Workers : Succeeding(v)' /\ job'[v] \in ReportTasks => reports'[job'[v]] > 0
    <3> SUFFICES ASSUME NEW v \in Workers, Succeeding(v)', job'[v] \in ReportTasks
                 PROVE  reports'[job'[v]] > 0
      OBVIOUS
    <3>1. CASE v = w
      BY <1>2, <3>1, SucceedsStored
    <3>2. CASE v # w
      <4>1. job'[v] = job[v] /\ reports[job[v]] > 0
        BY <1>2, <3>2, SucceedsStored DEF StoredInv
      <4>2. reports'[job[v]] >= reports[job[v]] /\ reports' \in [Tasks -> Nat]
            /\ reports \in [Tasks -> Nat] /\ job[v] \in Tasks
        BY <1>2, <4>1, SucceedsStored, HandleType, TasksAssumption DEF IType, TypeOK
      <4> QED  BY <4>1, <4>2
    <3> QED  BY <3>1, <3>2
  <2>2. ASSUME NEW t \in ReportTasks, task'[t] = "completed" \/ row'[t] = "succeeded"
        PROVE  reports'[t] > 0
    <3>1. t \in Tasks /\ reports[t] \in Nat /\ reports'[t] \in Nat
      BY <1>2, HandleType, TasksAssumption DEF IType, TypeOK
    <3>2. CASE task[t] = "completed" \/ row[t] = "succeeded"
      <4>1. reports[t] > 0 /\ reports'[t] >= reports[t]
        BY <1>2, <3>1, <3>2, SucceedsStored DEF StoredInv
      <4> QED  BY <3>1, <4>1
    <3>3. CASE ~ (task[t] = "completed" \/ row[t] = "succeeded")
      BY <1>2, <2>2, <3>1, <3>3, OutcomeStored DEF StoredInv
    <3> QED  BY <3>2, <3>3
  <2> QED  BY <2>1, <2>2 DEF StoredInv
<1>3. ASSUME NEW t \in Tasks,
             \/ Generate(t) \/ TrackGenerationJob(t) \/ TrackingLost(t)
             \/ Schedule(t) \/ Recover(t) \/ Promote(t) \/ Purge(t)
             \/ DeliverReport(t)
      PROVE  StoredInv'
  <2>1. UNCHANGED <<pc, job, verdict, reports>>
    BY <1>3 DEF Generate, TrackGenerationJob, TrackingLost, Schedule, Recover,
                Promote, Purge, DeliverReport, handlerVars, outputVars
  <2>2. \A s \in ReportTasks :
          /\ task'[s] = "completed" => task[s] = "completed"
          /\ row'[s] = "succeeded" => row[s] = "succeeded"
    BY <1>3, TasksAssumption DEF Generate, TrackGenerationJob, TrackingLost, Schedule, Recover,
       Promote, Purge, DeliverReport, trackVars, queueVars, EnqueueTask, RetryOrArchive,
       PromoteTask, PurgeTask, Move, IType, TypeOK, TaskQueueTypeOK
  <2> QED  BY <1>1, <2>1, <2>2 DEF Succeeding
<1>4. ASSUME NEW t \in Tasks, NEW w \in Workers, Dequeue(w, t)
      PROVE  StoredInv'
  <2>1. UNCHANGED <<reports, row, verdict>>
    BY <1>4 DEF Dequeue, outputVars, trackVars
  <2>2. \A v \in Workers : Succeeding(v)' => Succeeding(v) /\ job'[v] = job[v]
    BY <1>4 DEF Dequeue, Succeeding, IType, TypeOK
  <2>3. \A s \in ReportTasks : task'[s] = "completed" => task[s] = "completed"
    BY <1>4, TasksAssumption DEF Dequeue, DequeueTask, Move, IType, TypeOK, TaskQueueTypeOK
  <2> QED  BY <1>1, <2>1, <2>2, <2>3
<1>5. ASSUME NEW w \in Workers, Crash(w) \/ ShutdownAborts(w)
      PROVE  StoredInv'
  <2>1. UNCHANGED <<reports, row>> /\ Idle(w)
    BY <1>5 DEF Crash, ShutdownAborts, outputVars, trackVars
  <2>2. \A v \in Workers : Succeeding(v)' => Succeeding(v) /\ job'[v] = job[v]
    BY <2>1 DEF Idle, Succeeding, IType, TypeOK
  <2>3. \A s \in ReportTasks : task'[s] = "completed" => task[s] = "completed"
    BY <1>5, TasksAssumption DEF Crash, ShutdownAborts, queueVars, RequeueTask, Move, IType,
       TypeOK, TaskQueueTypeOK
  <2> QED  BY <1>1, <2>1, <2>2, <2>3
<1>6. ASSUME NEW w \in Workers, LoseLease(w)
      PROVE  StoredInv'
  BY <1>1, <1>6 DEF LoseLease, Succeeding, queueVars, trackVars, outputVars
<1>7. CASE UNCHANGED vars
  BY <1>1, <1>7 DEF vars, Succeeding
<1> QED  BY <1>2, <1>3, <1>4, <1>5, <1>6, <1>7 DEF Next

(***************************************************************************)
(* Deliveries.                                                             *)
(***************************************************************************)

LEMMA DeliveringFinite ==
  ASSUME NEW t
  PROVE  IsFiniteSet(Delivering(t)) /\ Cardinality(Delivering(t)) \in Nat
BY WorkersAssumption, FS_Subset, FS_CardinalityType DEF Delivering

\* A step that leaves the deliveries of a task alone and moves no attempt of it
\* to its delivery.
LEMMA BackedStays ==
  ASSUME NEW t \in Tasks, TypeOK, TypeOK',
         deliveries[t] + delivered[t] + Cardinality(Delivering(t)) <= reports[t],
         Delivering(t)' \subseteq Delivering(t),
         deliveries'[t] + delivered'[t] = deliveries[t] + delivered[t],
         reports'[t] >= reports[t]
  PROVE  deliveries'[t] + delivered'[t] + Cardinality(Delivering(t)') <= reports'[t]
PROOF
<1>1. /\ Cardinality(Delivering(t)) \in Nat /\ Cardinality(Delivering(t)') \in Nat
      /\ Cardinality(Delivering(t)') <= Cardinality(Delivering(t))
  BY DeliveringFinite, FS_Subset, FS_CardinalityType
<1>2. /\ deliveries[t] \in Nat /\ delivered[t] \in Nat /\ reports[t] \in Nat
      /\ deliveries'[t] \in Nat /\ delivered'[t] \in Nat /\ reports'[t] \in Nat
  BY DEF TypeOK
<1> QED  BY <1>1, <1>2

LEMMA BackedStep ==
  ASSUME IType, BackedInv, [Next]_vars
  PROVE  BackedInv'
PROOF
<1>1. IType' /\ TypeOK /\ TypeOK'
  BY HandleType, OtherType DEF IType, vars, TypeOK, BusyHasTask, TaskQueueTypeOK,
                               RateLimiterTypeOK
<1>2. ASSUME \A t \in Tasks : Delivering(t)' \subseteq Delivering(t),
             \A t \in Tasks : deliveries'[t] + delivered'[t] = deliveries[t] + delivered[t],
             \A t \in Tasks : reports'[t] >= reports[t]
      PROVE  BackedInv'
  BY <1>1, <1>2, BackedStays DEF BackedInv
<1>3. \A t \in Tasks : reports[t] \in Nat /\ deliveries[t] \in Nat /\ delivered[t] \in Nat
  BY <1>1 DEF TypeOK
<1>4. ASSUME UNCHANGED <<deliveries, delivered>>,
             reports' = reports \/ (\A t \in Tasks : reports'[t] >= reports[t]),
             \A w \in Workers : pc'[w] = "deliver" => pc[w] = "deliver" /\ job'[w] = job[w]
      PROVE  BackedInv'
  <2>1. \A t \in Tasks : Delivering(t)' \subseteq Delivering(t)
    BY <1>4 DEF Delivering
  <2> QED  BY <1>2, <1>3, <1>4, <2>1
<1>5. ASSUME NEW w \in Workers, CreateReport(w)
      PROVE  BackedInv'
  <2> SUFFICES ASSUME NEW t \in Tasks
               PROVE  deliveries'[t] + delivered'[t] + Cardinality(Delivering(t)') <= reports'[t]
    BY DEF BackedInv
  <2>1. pc[w] = "persist" /\ UNCHANGED <<deliveries, delivered, job>>
        /\ pc' = [pc EXCEPT ![w] = "deliver"]
        /\ reports' = [reports EXCEPT ![job[w]] = @ + 1]
    BY <1>5 DEF CreateReport, Goto
  <2>2. CASE t = job[w]
    <3>1. Delivering(t)' = Delivering(t) \cup {w} /\ w \notin Delivering(t)
      BY <1>1, <2>1, <2>2 DEF Delivering, TypeOK
    <3>2. Cardinality(Delivering(t)') = Cardinality(Delivering(t)) + 1
      BY <3>1, DeliveringFinite, FS_AddElement
    <3>3. reports'[t] = reports[t] + 1
      BY <1>1, <2>1, <2>2 DEF TypeOK
    <3> QED  BY <1>3, <2>1, <3>2, <3>3, DeliveringFinite DEF BackedInv
  <2>3. CASE t # job[w]
    <3>1. Delivering(t)' = Delivering(t)
      BY <1>1, <2>1, <2>3 DEF Delivering, TypeOK
    <3>2. reports'[t] = reports[t]
      BY <1>1, <2>1, <2>3 DEF TypeOK
    <3> QED  BY <2>1, <3>1, <3>2 DEF BackedInv
  <2> QED  BY <2>2, <2>3
<1>6. ASSUME NEW w \in Workers, EnqueueDelivery(w)
      PROVE  BackedInv'
  <2> SUFFICES ASSUME NEW t \in Tasks
               PROVE  deliveries'[t] + delivered'[t] + Cardinality(Delivering(t)') <= reports'[t]
    BY DEF BackedInv
  <2>1. pc[w] = "deliver" /\ UNCHANGED <<reports, delivered, job>>
        /\ pc' = [pc EXCEPT ![w] = "succeeded"]
        /\ \/ deliveries' = deliveries
           \/ deliveries' = [deliveries EXCEPT ![job[w]] = @ + 1]
    BY <1>6 DEF EnqueueDelivery, Goto
  <2>2. CASE t = job[w]
    <3>1. Delivering(t)' = Delivering(t) \ {w} /\ w \in Delivering(t)
      BY <1>1, <2>1, <2>2 DEF Delivering, TypeOK
    <3>2. Cardinality(Delivering(t)') = Cardinality(Delivering(t)) - 1
      BY <3>1, DeliveringFinite, FS_RemoveElement
    <3>3. deliveries'[t] = deliveries[t] \/ deliveries'[t] = deliveries[t] + 1
      BY <1>1, <2>1, <2>2 DEF TypeOK
    <3> QED  BY <1>3, <2>1, <3>2, <3>3, DeliveringFinite DEF BackedInv
  <2>3. CASE t # job[w]
    <3>1. Delivering(t)' = Delivering(t)
      BY <1>1, <2>1, <2>3 DEF Delivering, TypeOK
    <3>2. deliveries'[t] = deliveries[t]
      BY <1>1, <2>1, <2>3 DEF TypeOK
    <3> QED  BY <2>1, <3>1, <3>2 DEF BackedInv
  <2> QED  BY <2>2, <2>3
<1>7. ASSUME NEW w \in Workers, Handle(w), ~ CreateReport(w), ~ EnqueueDelivery(w)
      PROVE  BackedInv'
  <2>1. UNCHANGED <<deliveries, delivered>>
    BY <1>7 DEF Handle, Acquire, AcquireRefused, AcquireFails, TrackRunning, GenerateReport,
       GenerateReportFails, CreateReportFails, TrackFailed, TrackSucceeded, Ingest, Release,
       ReleaseLost, Acknowledge, outputVars
  <2>2. reports' = reports \/ (\A t \in Tasks : reports'[t] >= reports[t])
    BY <1>1, <1>7 DEF Handle, Acquire, AcquireRefused, AcquireFails, TrackRunning,
       GenerateReport, GenerateReportFails, CreateReportFails, TrackFailed, TrackSucceeded,
       Ingest, Release, ReleaseLost, Acknowledge, outputVars, TypeOK
  <2>3. \A v \in Workers : pc'[v] = "deliver" => pc[v] = "deliver" /\ job'[v] = job[v]
    BY <1>1, <1>7 DEF Handle, Acquire, AcquireRefused, AcquireFails, TrackRunning,
       GenerateReport, GenerateReportFails, CreateReportFails, TrackFailed, TrackSucceeded,
       Ingest, Release, ReleaseLost, Acknowledge, Goto, Idle, TypeOK
  <2> QED  BY <1>4, <2>1, <2>2, <2>3
<1>8. ASSUME NEW t \in Tasks, DeliverReport(t)
      PROVE  BackedInv'
  <2>1. \A s \in Tasks : deliveries'[s] + delivered'[s] = deliveries[s] + delivered[s]
    BY <1>1, <1>3, <1>8 DEF DeliverReport, TypeOK
  <2>2. UNCHANGED <<pc, job, reports>>
    BY <1>8 DEF DeliverReport, handlerVars
  <2> QED  BY <1>2, <1>3, <2>1, <2>2 DEF Delivering
<1>9. ASSUME NEW t \in Tasks,
             \/ Generate(t) \/ TrackGenerationJob(t) \/ TrackingLost(t)
             \/ Schedule(t) \/ Recover(t) \/ Promote(t) \/ Purge(t)
      PROVE  BackedInv'
  BY <1>4, <1>9 DEF Generate, TrackGenerationJob, TrackingLost, Schedule, Recover,
     Promote, Purge, handlerVars, outputVars
<1>10. ASSUME NEW t \in Tasks, NEW w \in Workers, Dequeue(w, t)
       PROVE  BackedInv'
  BY <1>1, <1>4, <1>10 DEF Dequeue, outputVars, TypeOK
<1>11. ASSUME NEW w \in Workers, Crash(w) \/ ShutdownAborts(w) \/ LoseLease(w)
       PROVE  BackedInv'
  BY <1>1, <1>4, <1>11 DEF Crash, ShutdownAborts, LoseLease, Idle, outputVars, TypeOK
<1>12. CASE UNCHANGED vars
  BY <1>4, <1>12 DEF vars
<1> QED
  BY <1>5, <1>6, <1>7, <1>8, <1>9, <1>10, <1>11, <1>12 DEF Next

(***************************************************************************)
(* Duplicates.                                                             *)
(***************************************************************************)

LEMMA PaidStep ==
  ASSUME IType, LeaseInv, PaidInv, [Next]_vars
  PROVE  PaidInv'
PROOF
<1> USE DEF Succeeding
<1>1. /\ faults \in Nat /\ reports \in [Tasks -> Nat] /\ task \in [Tasks -> TaskStates]
      /\ pc \in [Workers -> PCs] /\ job \in [Workers -> Tasks \cup {NoTask}]
      /\ live \in [Workers -> BOOLEAN] /\ verdict \in [Workers -> {"ok", "retry", "skip"}]
      /\ \A w \in Workers : pc[w] # "idle" => job[w] \in Tasks
  BY MaxFaultsAssumption DEF IType, TypeOK, TaskQueueTypeOK, BusyHasTask
<1>2. ASSUME UNCHANGED reports, Fault
      PROVE  PaidInv'
  BY <1>1, <1>2 DEF PaidInv, Fault
<1>3. ASSUME UNCHANGED <<reports, faults>>,
             \A t \in Tasks : Successful(t) => Successful(t)'
      PROVE  PaidInv'
  BY <1>3 DEF PaidInv
<1>4. ASSUME NEW w \in Workers, pc[w] = "persist", live[w]
      PROVE  reports[job[w]] <= faults
  <2>1. job[w] \in Tasks /\ Attends(w, job[w])
    BY <1>1, <1>4 DEF Attends
  <2>2. ~ Successful(job[w])
    BY <1>4, <2>1 DEF LeaseInv, Successful
  <2> QED  BY <2>1, <2>2 DEF PaidInv
<1>5. ASSUME NEW w \in Workers, CreateReport(w)
      PROVE  PaidInv'
  <2>1. /\ pc[w] = "persist" /\ live[w] /\ pc' = [pc EXCEPT ![w] = "deliver"]
        /\ UNCHANGED <<job, live, verdict, faults, task>>
        /\ reports' = [reports EXCEPT ![job[w]] = @ + 1]
    BY <1>5 DEF CreateReport, Goto, queueVars
  <2>2. job[w] \in Tasks /\ reports[job[w]] <= faults
    BY <1>1, <1>4, <2>1
  <2>3. Successful(job[w])'
    BY <1>1, <2>1 DEF Successful, Attends
  <2>4. \A t \in Tasks \ {job[w]} : Successful(t) => Successful(t)'
    BY <1>1, <2>1 DEF Successful, Attends
  <2>5. reports'[job[w]] <= faults' + 1
    BY <1>1, <2>1, <2>2
  <2>6. \A t \in Tasks \ {job[w]} : reports'[t] = reports[t]
    BY <1>1, <2>1
  <2>7. job' = job /\ faults' = faults
    BY <2>1
  <2> QED  BY <2>3, <2>4, <2>5, <2>6, <2>7 DEF PaidInv
<1>6. ASSUME NEW w \in Workers, CreateReportFails(w)
      PROVE  PaidInv'
  <2>1. /\ pc[w] = "persist" /\ pc' = [pc EXCEPT ![w] = "failed"]
        /\ UNCHANGED <<job, live, verdict, task>>
    BY <1>6 DEF CreateReportFails, Goto, queueVars
  <2>2. CASE UNCHANGED <<reports, faults>>
    <3>1. \A t \in Tasks : Successful(t) => Successful(t)'
      BY <1>1, <2>1 DEF Successful, Attends
    <3> QED  BY <1>3, <2>2, <3>1
  <2>3. CASE live[w] /\ Fault /\ reports' = [reports EXCEPT ![job[w]] = @ + 1]
    <3>1. job[w] \in Tasks /\ reports[job[w]] <= faults
      BY <1>1, <1>4, <2>1, <2>3
    <3>2. faults' = faults + 1 /\ reports'[job[w]] <= faults'
      BY <1>1, <2>3, <3>1 DEF Fault
    <3>3. \A t \in Tasks \ {job[w]} : reports'[t] = reports[t] /\ reports[t] \in Nat
      BY <1>1, <2>3
    <3>4. \A t \in Tasks : reports'[t] <= faults'
      BY <1>1, <3>2, <3>3 DEF PaidInv
    <3> QED  BY <3>4 DEF PaidInv
  <2> QED  BY <1>6, <2>2, <2>3 DEF CreateReportFails
<1>7. ASSUME NEW w \in Workers, Acknowledge(w)
      PROVE  PaidInv'
  <2>1. /\ pc[w] = "ack" /\ Idle(w) /\ UNCHANGED <<reports, faults>>
        /\ UNCHANGED task \/ (live[w] /\ \A t \in Tasks \ {job[w]} : task'[t] = task[t])
    BY <1>1, <1>7 DEF Acknowledge, outputVars, queueVars, CompleteTask, RetryOrArchive,
                      ArchiveTask, Move
  <2> SUFFICES ASSUME NEW t \in Tasks, Successful(t) PROVE Successful(t)'
    BY <1>3, <2>1
  <2>2. CASE task[t] = "completed"
    <3>1. task'[t] = "completed"
      BY <1>1, <1>7, <2>2 DEF Acknowledge, queueVars, CompleteTask, RetryOrArchive,
                              ArchiveTask, Move
    <3> QED  BY <3>1 DEF Successful
  <2>3. CASE \E v \in Workers \ {w} : Attends(v, t) /\ Succeeding(v)
    BY <1>1, <2>1, <2>3 DEF Idle, Attends, Successful
  <2>4. CASE Attends(w, t) /\ Succeeding(w)
    <3>1. live[w] /\ job[w] = t /\ verdict[w] = "ok"
      BY <2>1, <2>4 DEF Attends
    <3>2. CompleteTask(t)
      BY <1>7, <3>1 DEF Acknowledge
    <3> QED  BY <1>1, <3>2 DEF CompleteTask, Move, Successful
  <2> QED  BY <2>2, <2>3, <2>4 DEF Successful
<1>8. ASSUME NEW w \in Workers, Handle(w), ~ CreateReport(w), ~ CreateReportFails(w),
             ~ Acknowledge(w)
      PROVE  PaidInv'
  <2>1. UNCHANGED <<reports, task, job, live>>
    BY <1>8 DEF Handle, Acquire, AcquireRefused, AcquireFails, TrackRunning, GenerateReport,
       GenerateReportFails, TrackFailed, EnqueueDelivery, TrackSucceeded, Ingest, Release,
       ReleaseLost, Goto, queueVars, outputVars
  <2>2. faults' = faults \/ Fault
    BY <1>8 DEF Handle, Acquire, AcquireRefused, AcquireFails, TrackRunning, TrackJob,
       GenerateReport, GenerateReportFails, TrackFailed, EnqueueDelivery, TrackSucceeded,
       Ingest, Release, ReleaseLost
  <2>3. \A v \in Workers : Succeeding(v) => Succeeding(v)'
    BY <1>1, <1>8 DEF Handle, Acquire, AcquireRefused, AcquireFails, TrackRunning,
       GenerateReport, GenerateReportFails, TrackFailed, EnqueueDelivery, TrackSucceeded,
       Ingest, Release, ReleaseLost, Goto, Return
  <2>4. \A v \in Workers, t \in Tasks : Attends(v, t) /\ Succeeding(v) => Attends(v, t)'
    BY <2>1, <2>3 DEF Attends
  <2>5. \A t \in Tasks : Successful(t) => Successful(t)'
    BY <2>1, <2>3, <2>4 DEF Successful
  <2> QED  BY <1>2, <1>3, <2>1, <2>2, <2>5
<1>9. ASSUME NEW t \in Tasks,
             \/ Generate(t) \/ TrackGenerationJob(t) \/ TrackingLost(t)
             \/ Schedule(t) \/ Recover(t) \/ Promote(t) \/ Purge(t)
             \/ DeliverReport(t)
      PROVE  PaidInv'
  <2>1. UNCHANGED <<reports, pc, job, live, verdict>> /\ (faults' = faults \/ Fault)
    BY <1>9 DEF Generate, TrackGenerationJob, TrackingLost, Schedule, Recover, Promote,
       Purge, DeliverReport, handlerVars, outputVars
  <2>2. \A s \in Tasks : task[s] = "completed" => task'[s] = "completed"
    BY <1>1, <1>9 DEF Generate, TrackGenerationJob, TrackingLost, Schedule, Recover,
       Promote, Purge, DeliverReport, queueVars, EnqueueTask, RetryOrArchive, PromoteTask,
       PurgeTask, Move
  <2>3. \A s \in Tasks : Successful(s) => Successful(s)'
    BY <2>1, <2>2 DEF Successful, Attends
  <2> QED  BY <1>2, <1>3, <2>1, <2>3
<1>10. ASSUME NEW t \in Tasks, NEW w \in Workers, Dequeue(w, t)
       PROVE  PaidInv'
  <2>1. UNCHANGED <<reports, faults>>
    BY <1>10 DEF Dequeue, outputVars
  <2>2. \A s \in Tasks : task[s] = "completed" => task'[s] = "completed"
    BY <1>1, <1>10 DEF Dequeue, DequeueTask, Move
  <2>3. \A v \in Workers, s \in Tasks :
          Attends(v, s) /\ Succeeding(v) => Attends(v, s)' /\ Succeeding(v)'
    BY <1>1, <1>10 DEF Dequeue, Attends
  <2>4. \A s \in Tasks : Successful(s) => Successful(s)'
    BY <2>2, <2>3 DEF Successful
  <2> QED  BY <1>3, <2>1, <2>4
<1>11. ASSUME NEW w \in Workers, Crash(w) \/ ShutdownAborts(w) \/ LoseLease(w)
       PROVE  PaidInv'
  BY <1>2, <1>11 DEF Crash, ShutdownAborts, LoseLease, outputVars
<1>12. CASE UNCHANGED vars
  BY <1>3, <1>12 DEF vars, Successful, Attends
<1> QED
  BY <1>5, <1>6, <1>7, <1>8, <1>9, <1>10, <1>11, <1>12 DEF Next

(***************************************************************************)
(* Rows.                                                                   *)
(***************************************************************************)

\* A handler writes the row of its own task, while it attends the task, and never
\* makes one.
LEMMA HandlerRows ==
  ASSUME IType, NEW w \in Workers, Handle(w)
  PROVE  /\ web' = web
         /\ \A t \in Tasks : row[t] = "none" => row'[t] = "none"
         /\ \A t \in Tasks : task[t] # "none" => task'[t] # "none"
         /\ \A t \in Tasks : row'[t] # row[t] => Attends(w, t) /\ t \in Tasks
PROOF
<1> USE DEF IType, TypeOK, TaskQueueTypeOK
<1>1. CASE TrackRunning(w) \/ TrackFailed(w) \/ TrackSucceeded(w)
  <2>1. web' = web /\ task' = task /\ pc[w] # "idle"
    BY <1>1 DEF TrackRunning, TrackFailed, TrackSucceeded, Goto, queueVars
  <2>2. \/ row' = row
        \/ live[w] /\ \E status \in Statuses : MarkJob(job[w], status)
    BY <1>1 DEF TrackRunning, TrackFailed, TrackSucceeded, TrackJob, Statuses
  <2> QED  BY <2>1, <2>2 DEF MarkJob, Attends
<1>2. CASE ~ (TrackRunning(w) \/ TrackFailed(w) \/ TrackSucceeded(w))
  <2>1. UNCHANGED trackVars
    BY <1>2 DEF Handle, Acquire, AcquireRefused, AcquireFails, GenerateReport,
       GenerateReportFails, CreateReport, CreateReportFails, EnqueueDelivery,
       Ingest, Release, ReleaseLost, Acknowledge
  <2>2. task' = task \/ Acknowledge(w)
    BY <1>2 DEF Handle, Acquire, AcquireRefused, AcquireFails, GenerateReport,
       GenerateReportFails, CreateReport, CreateReportFails, EnqueueDelivery,
       Ingest, Release, ReleaseLost, queueVars
  <2>3. \A t \in Tasks : task[t] # "none" => task'[t] # "none"
    BY <2>2 DEF Acknowledge, CompleteTask, RetryOrArchive, ArchiveTask, Move, queueVars
  <2> QED  BY <2>1, <2>3 DEF trackVars
<1> QED  BY <1>1, <1>2

LEMMA RowsStep ==
  ASSUME IType, RowsInv, [Next]_vars
  PROVE  RowsInv'
PROOF
<1> USE DEF IType, TypeOK, TaskQueueTypeOK
<1>1. ASSUME \A t \in Tasks : web'[t] = web[t],
             \A t \in Tasks : row[t] = "none" => row'[t] = "none",
             \A t \in Tasks : task[t] # "none" => task'[t] # "none"
      PROVE  RowsInv'
  BY <1>1 DEF RowsInv
<1>2. ASSUME NEW w \in Workers, Handle(w)
      PROVE  RowsInv'
  BY <1>1, <1>2, HandlerRows
<1>3. ASSUME NEW t \in Tasks, Generate(t) \/ TrackGenerationJob(t) \/ TrackingLost(t)
      PROVE  RowsInv'
  BY <1>3 DEF RowsInv, Generate, TrackGenerationJob, TrackingLost, EnqueueTask, Move,
     queueVars, Statuses
<1>4. ASSUME NEW t \in Tasks,
             \/ Schedule(t) \/ Recover(t) \/ Promote(t) \/ Purge(t) \/ DeliverReport(t)
             \/ \E w \in Workers : Dequeue(w, t)
      PROVE  RowsInv'
  <2>1. UNCHANGED trackVars
    BY <1>4 DEF Schedule, Recover, Promote, Purge, DeliverReport, Dequeue
  <2>2. \A s \in Tasks : task[s] # "none" => task'[s] # "none"
    BY <1>4 DEF Schedule, Recover, Promote, Purge, DeliverReport, Dequeue, EnqueueTask,
       RetryOrArchive, PromoteTask, PurgeTask, DequeueTask, Move, queueVars
  <2> QED  BY <1>1, <2>1, <2>2 DEF trackVars
<1>5. ASSUME NEW w \in Workers, Crash(w) \/ ShutdownAborts(w) \/ LoseLease(w)
      PROVE  RowsInv'
  <2>1. UNCHANGED trackVars
    BY <1>5 DEF Crash, ShutdownAborts, LoseLease
  <2>2. \A s \in Tasks : task[s] # "none" => task'[s] # "none"
    BY <1>5 DEF Crash, ShutdownAborts, LoseLease, RequeueTask, Move, queueVars
  <2> QED  BY <1>1, <2>1, <2>2 DEF trackVars
<1>6. CASE UNCHANGED vars
  BY <1>1, <1>6 DEF vars
<1> QED  BY <1>2, <1>3, <1>4, <1>5, <1>6 DEF Next

LEMMA RecordedStep ==
  ASSUME IType, LeaseInv, RowsInv, RecordedInv, [Next]_vars
  PROVE  RecordedInv'
PROOF
<1> USE DEF WellRecorded
<1>1. /\ faults \in Nat /\ task \in [Tasks -> TaskStates]
      /\ row \in [Tasks -> Statuses \cup {"none"}]
      /\ pc \in [Workers -> PCs] /\ job \in [Workers -> Tasks \cup {NoTask}]
      /\ live \in [Workers -> BOOLEAN] /\ verdict \in [Workers -> {"ok", "retry", "skip"}]
      /\ \A w \in Workers : pc[w] # "idle" => job[w] \in Tasks
  BY MaxFaultsAssumption DEF IType, TypeOK, TaskQueueTypeOK, BusyHasTask
<1>2. ASSUME Fault PROVE RecordedInv'
  BY <1>1, <1>2 DEF Fault, RecordedInv
<1>3. ASSUME UNCHANGED <<row, faults>>,
             \A w \in Workers : live[w] => live'[w],
             \A w \in Workers : pc'[w] \in {"release", "ack"} /\ verdict'[w] = "ok" =>
               /\ pc[w] \in {"release", "ack"} /\ verdict[w] = "ok" /\ job'[w] = job[w],
             \A t \in Tasks : task'[t] = "completed" => task[t] = "completed"
      PROVE  RecordedInv'
  BY <1>3 DEF RecordedInv
<1>4. ASSUME NEW w \in Workers, Handle(w), UNCHANGED <<row, faults>>,
             ~ TrackSucceeded(w), ~ Ingest(w), ~ Acknowledge(w)
      PROVE  RecordedInv'
  <2>1. UNCHANGED <<task, job, live>>
    BY <1>4 DEF Handle, Acquire, AcquireRefused, AcquireFails, TrackRunning, GenerateReport,
       GenerateReportFails, CreateReport, CreateReportFails, TrackFailed, EnqueueDelivery,
       Release, ReleaseLost, Goto, queueVars
  <2>2. \A v \in Workers : pc'[v] \in {"release", "ack"} /\ verdict'[v] = "ok" =>
          pc[v] \in {"release", "ack"} /\ verdict[v] = "ok"
    BY <1>1, <1>4 DEF Handle, Acquire, AcquireRefused, AcquireFails, TrackRunning,
       GenerateReport, GenerateReportFails, CreateReport, CreateReportFails, TrackFailed,
       EnqueueDelivery, Release, ReleaseLost, Goto, Return
  <2> QED  BY <1>3, <1>4, <2>1, <2>2
<1>5. ASSUME NEW w \in Workers, Ingest(w)
      PROVE  RecordedInv'
  <2>1. /\ UNCHANGED <<task, job, live, row, faults>> /\ job[w] \in Tasks \ ReportTasks
        /\ \A v \in Workers \ {w} : pc'[v] = pc[v] /\ verdict'[v] = verdict[v]
    BY <1>1, <1>5 DEF Ingest, Goto, Return, queueVars, trackVars
  <2>2. row[job[w]] = "none"
    BY <2>1, TasksAssumption DEF RowsInv
  <2> QED  BY <2>1, <2>2 DEF RecordedInv
<1>6. ASSUME NEW w \in Workers, Acknowledge(w)
      PROVE  RecordedInv'
  <2>1. UNCHANGED <<row, faults>> /\ pc[w] = "ack" /\ Idle(w)
    BY <1>6 DEF Acknowledge, trackVars
  <2>2. \A t \in Tasks : task'[t] = "completed" =>
          task[t] = "completed" \/ (job[w] = t /\ verdict[w] = "ok")
    BY <1>1, <1>6 DEF Acknowledge, CompleteTask, RetryOrArchive, ArchiveTask, Move, queueVars
  <2>3. /\ \A v \in Workers : live[v] => live'[v]
        /\ \A v \in Workers \ {w} :
             pc'[v] = pc[v] /\ verdict'[v] = verdict[v] /\ job'[v] = job[v]
    BY <1>1, <2>1 DEF Idle
  <2>4. pc'[w] = "idle"
    BY <1>1, <2>1 DEF Idle
  <2> QED  BY <2>1, <2>2, <2>3, <2>4 DEF RecordedInv
<1>7. ASSUME NEW w \in Workers, TrackRunning(w) \/ TrackFailed(w) \/ TrackSucceeded(w),
             ~ Fault
      PROVE  RecordedInv'
  <2> SUFFICES ASSUME faults' = 0 PROVE RecordedInv'
    BY DEF RecordedInv
  <2>1. /\ UNCHANGED <<task, job, live, faults>> /\ pc[w] \in {"running", "failed", "succeeded"}
        /\ \A v \in Workers \ {w} : pc'[v] = pc[v] /\ verdict'[v] = verdict[v]
    BY <1>1, <1>7 DEF TrackRunning, TrackFailed, TrackSucceeded, TrackJob, Goto, Return,
                      queueVars
  <2>2. \A v \in Workers : live[v]
    BY <2>1 DEF RecordedInv
  <2>3. job[w] \in Tasks /\ Attends(w, job[w])
    BY <1>1, <2>1, <2>2 DEF Attends
  <2>4. /\ task[job[w]] = "active"
        /\ \A v \in Workers \ {w} : pc[v] # "idle" => job[v] # job[w]
    BY <2>2, <2>3 DEF LeaseInv, Attends
  <2>5. \A t \in Tasks \ {job[w]} : row'[t] = row[t]
    BY <1>1, <1>7 DEF TrackRunning, TrackFailed, TrackSucceeded, TrackJob, MarkJob
  <2>6. ASSUME pc'[w] \in {"release", "ack"}, verdict'[w] = "ok"
        PROVE  row'[job[w]] \notin {"running", "failed"}
    <3>1. TrackSucceeded(w)
      BY <1>1, <1>7, <2>6 DEF TrackRunning, TrackFailed, Goto, Return
    <3>2. MarkJob(job[w], "succeeded")
      BY <1>7, <2>2, <3>1 DEF TrackSucceeded, TrackJob
    <3> QED  BY <1>1, <2>3, <3>2 DEF MarkJob
  <2> QED  BY <2>1, <2>2, <2>3, <2>4, <2>5, <2>6 DEF RecordedInv
<1>8. ASSUME NEW w \in Workers, Handle(w)
      PROVE  RecordedInv'
  <2>1. Fault \/ faults' = faults
    BY <1>8 DEF Handle, Acquire, AcquireRefused, AcquireFails, TrackRunning, TrackJob,
       GenerateReport, GenerateReportFails, CreateReport, CreateReportFails, TrackFailed,
       EnqueueDelivery, TrackSucceeded, Ingest, Release, ReleaseLost, Acknowledge
  <2>2. row' = row \/ TrackRunning(w) \/ TrackFailed(w) \/ TrackSucceeded(w)
    BY <1>8 DEF Handle, Acquire, AcquireRefused, AcquireFails,
       GenerateReport, GenerateReportFails, CreateReport, CreateReportFails,
       EnqueueDelivery, Ingest, Release, ReleaseLost, Acknowledge, trackVars
  <2> QED  BY <1>2, <1>4, <1>5, <1>6, <1>7, <1>8, <2>1, <2>2
<1>9. ASSUME NEW t \in Tasks, TrackGenerationJob(t)
      PROVE  RecordedInv'
  <2>1. /\ UNCHANGED <<task, pc, job, live, verdict, faults>>
        /\ row' = [row EXCEPT ![t] = "queued"]
    BY <1>9 DEF TrackGenerationJob, queueVars, handlerVars
  <2>2. \A s \in Tasks : WellRecorded(s) => WellRecorded(s)'
    BY <1>1, <2>1
  <2> QED  BY <2>1, <2>2 DEF RecordedInv
<1>10. ASSUME NEW t \in Tasks,
             \/ Generate(t) \/ TrackingLost(t) \/ Schedule(t) \/ Recover(t)
             \/ Promote(t) \/ Purge(t) \/ DeliverReport(t)
      PROVE  RecordedInv'
  <2>1. /\ UNCHANGED <<pc, job, live, verdict>>
        /\ Fault \/ UNCHANGED <<row, faults>>
    BY <1>10 DEF Generate, TrackingLost, Schedule, Recover, Promote, Purge, DeliverReport,
                handlerVars, trackVars
  <2>2. \A s \in Tasks : task'[s] = "completed" => task[s] = "completed"
    BY <1>1, <1>10 DEF Generate, TrackingLost, Schedule, Recover, Promote, Purge,
       DeliverReport, queueVars, EnqueueTask, RetryOrArchive, PromoteTask, PurgeTask, Move
  <2> QED  BY <1>2, <1>3, <2>1, <2>2
<1>11. ASSUME NEW t \in Tasks, NEW w \in Workers, Dequeue(w, t)
       PROVE  RecordedInv'
  <2>1. UNCHANGED <<row, faults, live, verdict>>
    BY <1>11 DEF Dequeue, trackVars
  <2>2. \A s \in Tasks : task'[s] = "completed" => task[s] = "completed"
    BY <1>1, <1>11 DEF Dequeue, DequeueTask, Move
  <2>3. \A v \in Workers : pc'[v] \in {"release", "ack"} =>
          pc[v] = pc'[v] /\ job'[v] = job[v]
    BY <1>1, <1>11 DEF Dequeue
  <2> QED  BY <1>3, <2>1, <2>2, <2>3
<1>12. ASSUME NEW w \in Workers, Crash(w) \/ ShutdownAborts(w) \/ LoseLease(w)
       PROVE  RecordedInv'
  BY <1>2, <1>12 DEF Crash, ShutdownAborts, LoseLease
<1>13. CASE UNCHANGED vars
  BY <1>3, <1>13 DEF vars
<1> QED
  BY <1>8, <1>9, <1>10, <1>11, <1>12, <1>13 DEF Next

\* The row of a settled task is final, and so is what the panel shows of it.
LEMMA ShownStep ==
  ASSUME IType, LeaseInv, RowsInv, [Next]_vars, NEW t \in WebTasks,
         ShownStatus(t) = "succeeded"
  PROVE  ShownStatus(t)' = "succeeded"
PROOF
<1>1. t \in Tasks /\ task \in [Tasks -> TaskStates] /\ row \in [Tasks -> Statuses \cup {"none"}]
  BY TasksAssumption DEF IType, TypeOK, TaskQueueTypeOK
<1>2. task[t] \notin Recorded /\ row[t] = "succeeded"
  <2>1. task[t] \in Recorded => LiveStatus(t) # "succeeded"
    BY DEF Recorded, LiveStatus
  <2> QED  BY <2>1 DEF ShownStatus
<1>3. task[t] \in {"completed", "purged"} /\ web[t] = "tracked"
  BY <1>1, <1>2 DEF RowsInv, Recorded, TaskStates
<1>4. task'[t] = task[t] /\ row'[t] = row[t]
  <2>1. ASSUME NEW w \in Workers, Handle(w)
        PROVE  task'[t] = task[t] /\ row'[t] = row[t]
    <3>1. row'[t] = row[t]
      BY <1>1, <1>3, <2>1, HandlerRows DEF LeaseInv
    <3>2. task'[t] = task[t]
      BY <1>1, <1>3, <2>1 DEF Handle, Acquire, AcquireRefused, AcquireFails, TrackRunning,
         GenerateReport, GenerateReportFails, CreateReport, CreateReportFails, TrackFailed,
         EnqueueDelivery, TrackSucceeded, Ingest, Release, ReleaseLost, Acknowledge,
         CompleteTask, RetryOrArchive, ArchiveTask, Move, queueVars
    <3> QED  BY <3>1, <3>2
  <2>2. ASSUME NEW s \in Tasks,
               \/ Generate(s) \/ TrackGenerationJob(s) \/ TrackingLost(s) \/ Schedule(s)
               \/ Recover(s) \/ Promote(s) \/ Purge(s) \/ DeliverReport(s)
               \/ \E w \in Workers : Dequeue(w, s)
        PROVE  task'[t] = task[t] /\ row'[t] = row[t]
    BY <1>1, <1>3, <2>2 DEF Generate, TrackGenerationJob, TrackingLost, Schedule, Recover,
       Promote, Purge, DeliverReport, Dequeue, EnqueueTask, RetryOrArchive, PromoteTask,
       PurgeTask, DequeueTask, Move, queueVars, trackVars
  <2>3. ASSUME NEW w \in Workers, Crash(w) \/ ShutdownAborts(w) \/ LoseLease(w)
        PROVE  task'[t] = task[t] /\ row'[t] = row[t]
    BY <1>1, <1>3, <2>3 DEF Crash, ShutdownAborts, LoseLease, RequeueTask, Move, queueVars,
       trackVars
  <2>4. CASE UNCHANGED vars
    BY <2>4 DEF vars
  <2> QED  BY <2>1, <2>2, <2>3, <2>4 DEF Next
<1> QED  BY <1>2, <1>4 DEF ShownStatus

(***************************************************************************)
(* The results.                                                            *)
(***************************************************************************)
OutcomeInv ==
  LeaseInv /\ StoredInv /\ BackedInv /\ PaidInv /\ RowsInv /\ RecordedInv

LEMMA OutcomeInit == Init => OutcomeInv
PROOF
<1> SUFFICES ASSUME Init PROVE OutcomeInv
  OBVIOUS
<1> USE TasksAssumption DEF Init, TaskQueueInit
<1>1. LeaseInv /\ StoredInv /\ RowsInv
  BY DEF LeaseInv, Attends, StoredInv, Succeeding, RowsInv
<1>2. BackedInv
  <2> SUFFICES ASSUME NEW t \in Tasks
               PROVE  deliveries[t] + delivered[t] + Cardinality(Delivering(t)) <= reports[t]
    BY DEF BackedInv
  <2>1. Delivering(t) = {}
    BY DEF Delivering
  <2>2. Cardinality(Delivering(t)) = 0
    BY <2>1, FS_EmptySet
  <2>3. deliveries[t] = 0 /\ delivered[t] = 0 /\ reports[t] = 0
    OBVIOUS
  <2> QED  BY <2>2, <2>3
<1>3. PaidInv /\ RecordedInv
  BY DEF PaidInv, RecordedInv, WellRecorded
<1> QED  BY <1>1, <1>2, <1>3 DEF OutcomeInv

LEMMA OutcomeInvariant == Spec => []OutcomeInv
PROOF
<1>1. IType /\ OutcomeInv /\ [Next]_vars => OutcomeInv'
  BY LeaseStep, StoredStep, BackedStep, PaidStep, RowsStep, RecordedStep DEF OutcomeInv
<1> QED  BY <1>1, OutcomeInit, TypeInvariant, PTL DEF Spec

\* Neither the queue nor the tracking row claims the success of a report that was
\* not stored, and no report is delivered twice, whatever attempts are lost and
\* repeated (ReportHandler.ProcessTask).
THEOREM SuccessStored == Spec => []SuccessHasReport
PROOF
<1>1. IType /\ OutcomeInv => SuccessHasReport
  <2> SUFFICES ASSUME IType, OutcomeInv, NEW t \in Tasks
               PROVE  deliveries[t] + delivered[t] <= reports[t]
    BY DEF SuccessHasReport, OutcomeInv, StoredInv
  <2>1. /\ deliveries[t] \in Nat /\ delivered[t] \in Nat /\ reports[t] \in Nat
        /\ Cardinality(Delivering(t)) \in Nat
    BY DeliveringFinite DEF IType, TypeOK
  <2> QED  BY <2>1 DEF OutcomeInv, BackedInv
<1> QED  BY <1>1, OutcomeInvariant, TypeInvariant, PTL

\* A task stores a second report only after a fault: retries alone never
\* duplicate one, for any number of workers and retries.
THEOREM DuplicatesArePaid == Spec => []DuplicatesPaid
PROOF
<1>1. IType /\ OutcomeInv => DuplicatesPaid
  <2> SUFFICES ASSUME IType, OutcomeInv, NEW t \in Tasks
               PROVE  reports[t] <= 1 + faults
    BY DEF DuplicatesPaid
  <2>1. reports[t] \in Nat /\ faults \in Nat
    BY MaxFaultsAssumption DEF IType, TypeOK
  <2> QED  BY <2>1 DEF OutcomeInv, PaidInv
<1> QED  BY <1>1, OutcomeInvariant, TypeInvariant, PTL

\* Without a fault no completed job stays recorded as running or failed,
\* although trackJob writes whatever the row was and the INSERT of the row may
\* come after the handler's first writes.
THEOREM CleanCompletions == Spec => []CleanCompletionRecorded
PROOF
<1>1. OutcomeInv => CleanCompletionRecorded
  BY DEF OutcomeInv, RecordedInv, WellRecorded, CleanCompletionRecorded
<1> QED  BY <1>1, OutcomeInvariant, PTL

\* A success shown in the activity panel is never taken back.
THEOREM ShownSuccessStays == Spec => ShownSuccessIsFinal
PROOF
<1>1. IType /\ OutcomeInv /\ [Next]_vars =>
        [\A t \in WebTasks :
           ShownStatus(t) = "succeeded" => ShownStatus(t)' = "succeeded"]_vars
  BY ShownStep DEF OutcomeInv
<1> QED  BY <1>1, OutcomeInvariant, TypeInvariant, PTL DEF Spec, ShownSuccessIsFinal
=============================================================================
