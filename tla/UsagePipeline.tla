---------------------------- MODULE UsagePipeline ----------------------------
(***************************************************************************)
(* How usage travels from the code that incurs cost to Postgres: EmitUsage *)
(* increments the counters of the day and pushes the event on the flush    *)
(* queue in one Redis pipeline (internal/usage/redis_emitter.go); in every *)
(* worker process one UsageCollector (internal/usage/collector.go) moves   *)
(* the queued events to usage_events and, every hour, adds the counters to *)
(* usage_daily.                                                            *)
(*                                                                         *)
(* A collector is one goroutine: it flushes, or rolls up, or does nothing. *)
(* Each of its calls to Redis and to Postgres is a step of its own.        *)
(***************************************************************************)
EXTENDS UsageCounters, FiniteSets, SequencesExt

CONSTANTS
  Events,
  TenantOf,    \* the tenant of each event
  CostOf,      \* the cost each event counts
  Collectors,  \* worker processes; each owns one collector
  MaxQueueLen, \* maxQueueLen, the cap LTRIM puts on the flush queue
  BatchSize,   \* flushBatchSize
  MaxRollups,  \* bound on rollups started
  MaxStops,    \* bound on graceful stops of a worker
  MaxFaults,   \* bound on failed calls and crashes
  Nothing      \* what a collector with no event in hand holds

ASSUME EventsAssumption ==
  /\ TenantOf \in [Events -> Tenants]
  /\ CostOf \in [Events -> Nat \ {0}]
  /\ Nothing \notin Events
ASSUME CollectorsAssumption == IsFiniteSet(Collectors)
ASSUME SizesAssumption ==
  /\ MaxQueueLen \in Nat \ {0}
  /\ BatchSize \in Nat \ {0}
  /\ {MaxRollups, MaxStops, MaxFaults} \subseteq Nat

VARIABLES
  emitted,  \* events EmitUsage was called for
  queue,    \* usage:flush:queue; LPUSH adds at the head, BRPOP takes the tail
  rows,     \* rows of usage_events for each event
  daily,    \* usage_daily.estimated_cost_usd
  pc,       \* what each collector does next
  ctx,      \* its context: live, cancelled, or the one of the final flush
  held,     \* the event it has popped
  inserted, \* events inserted in this flush
  keys,     \* <<tenant, day>> keys this rollup still has to read
  read,     \* the counter it has read and must still upsert
  used,     \* history: the real cost of each tenant and day
  dropped,  \* history: events a copy of which is gone for good
  rollups, stops, faults  \* history

queueVars     == <<emitted, queue>>
collectorVars == <<pc, ctx, held, inserted, keys, read>>
tableVars     == <<rows, daily>>
boundVars     == <<rollups, stops, faults>>
vars == <<countersVars, queueVars, collectorVars, tableVars, used, dropped,
          boundVars>>

Keys == Tenants \X Days

TypeOK ==
  /\ CountersTypeOK
  /\ emitted \subseteq Events
  /\ queue \in Seq(Events)
  /\ rows \in [Events -> Nat]
  /\ daily \in [Tenants -> [Days -> Nat]]
  /\ pc \in [Collectors ->
       {"idle", "pop", "insert", "requeue", "read", "upsert", "stopped"}]
  /\ ctx \in [Collectors -> {"live", "cancelled", "final"}]
  /\ held \in [Collectors -> Events \cup {Nothing}]
  /\ inserted \in [Collectors -> 0 .. BatchSize]
  /\ keys \in [Collectors -> SUBSET Keys]
  /\ read \in [Collectors -> (Keys \X Nat) \cup {<<>>}]
  /\ used \in [Tenants -> [Days -> Nat]]
  /\ dropped \subseteq Events
  /\ rollups \in 0 .. MaxRollups
  /\ stops \in 0 .. MaxStops
  /\ faults \in 0 .. MaxFaults

\* NewCollector and Start, in every worker.
CollectorsInit ==
  /\ pc = [c \in Collectors |-> "idle"]
  /\ ctx = [c \in Collectors |-> "live"]
  /\ held = [c \in Collectors |-> Nothing]
  /\ inserted = [c \in Collectors |-> 0]
  /\ keys = [c \in Collectors |-> {}]
  /\ read = [c \in Collectors |-> <<>>]

NothingUsed ==
  /\ daily = [n \in Tenants |-> [d \in Days |-> 0]]
  /\ used = [n \in Tenants |-> [d \in Days |-> 0]]
  /\ dropped = {}
  /\ stops = 0
  /\ faults = 0

Init ==
  /\ CountersInit /\ CollectorsInit /\ NothingUsed
  /\ emitted = {}
  /\ queue = <<>>
  /\ rows = [e \in Events |-> 0]
  /\ rollups = 0

Fault ==
  /\ faults < MaxFaults
  /\ faults' = faults + 1
  /\ UNCHANGED <<rollups, stops>>

(***************************************************************************)
(* EmitUsage: one pipeline, not a transaction.                             *)
(***************************************************************************)

\* The cost is incurred whether or not the emission succeeds.
Use(e) ==
  /\ e \notin emitted
  /\ emitted' = emitted \cup {e}
  /\ used' = [used EXCEPT ![TenantOf[e]][today] = @ + CostOf[e]]
  /\ UNCHANGED today

\* LTRIM 0 .. MaxQueueLen - 1 keeps the newest events.
Trimmed(q) == SubSeq(q, 1, IF Len(q) < MaxQueueLen THEN Len(q) ELSE MaxQueueLen)
CutOff(q)  == SubSeq(q, MaxQueueLen + 1, Len(q))

\* Mutant of EmitUsage: the queue is not trimmed.
EmitUsageUntrimmed(e) ==
  /\ Use(e)
  /\ CountCost(TenantOf[e], CostOf[e])
  /\ queue' = <<e>> \o queue
  /\ UNCHANGED <<collectorVars, tableVars, dropped, boundVars>>

EmitUsage(e) ==
  /\ Use(e)
  /\ CountCost(TenantOf[e], CostOf[e])
  /\ queue' = Trimmed(<<e>> \o queue)
  /\ dropped' = dropped \cup ToSet(CutOff(<<e>> \o queue))
  /\ UNCHANGED <<collectorVars, tableVars, boundVars>>

\* The connection breaks after the counters, or before them; every caller
\* ignores the error.
EmitUsageFails(e) ==
  /\ Use(e)
  /\ Fault
  /\ CountCost(TenantOf[e], CostOf[e]) \/ UNCHANGED counter
  /\ dropped' = dropped \cup {e}
  /\ UNCHANGED <<queue, collectorVars, tableVars>>

(***************************************************************************)
(* UsageCollector.flush.                                                   *)
(***************************************************************************)

\* The flush returns; the one on the way out is the last.
EndFlush(c) ==
  /\ pc' = [pc EXCEPT ![c] = IF ctx[c] = "final" THEN "stopped" ELSE "idle"]
  /\ inserted' = [inserted EXCEPT ![c] = 0]

\* The flush ticker, or the final flush after the context is cancelled.
StartFlush(c) ==
  /\ pc[c] = "idle"
  /\ pc' = [pc EXCEPT ![c] = "pop"]
  /\ ctx' = [ctx EXCEPT ![c] = IF @ = "cancelled" THEN "final" ELSE @]
  /\ UNCHANGED <<held, inserted, keys, read>>
  /\ UNCHANGED <<countersVars, queueVars, tableVars, used, dropped, boundVars>>

\* Mutant of Pop: the event is read but stays in the queue (LRANGE).
PopPeeks(c) ==
  /\ pc[c] = "pop"
  /\ ctx[c] # "cancelled"
  /\ inserted[c] < BatchSize
  /\ queue # <<>>
  /\ held' = [held EXCEPT ![c] = Last(queue)]
  /\ pc' = [pc EXCEPT ![c] = "insert"]
  /\ UNCHANGED <<emitted, queue, ctx, inserted, keys, read>>
  /\ UNCHANGED <<countersVars, tableVars, used, dropped, boundVars>>

\* Mutant of Pop: the batch has no limit.
PopUnlimited(c) ==
  /\ pc[c] = "pop"
  /\ ctx[c] # "cancelled"
  /\ queue # <<>>
  /\ held' = [held EXCEPT ![c] = Last(queue)]
  /\ queue' = Front(queue)
  /\ pc' = [pc EXCEPT ![c] = "insert"]
  /\ UNCHANGED <<emitted, ctx, inserted, keys, read>>
  /\ UNCHANGED <<countersVars, tableVars, used, dropped, boundVars>>

\* BRPOP.
Pop(c) ==
  /\ pc[c] = "pop"
  /\ ctx[c] # "cancelled"
  /\ inserted[c] < BatchSize
  /\ queue # <<>>
  /\ held' = [held EXCEPT ![c] = Last(queue)]
  /\ queue' = Front(queue)
  /\ pc' = [pc EXCEPT ![c] = "insert"]
  /\ UNCHANGED <<emitted, ctx, inserted, keys, read>>
  /\ UNCHANGED <<countersVars, tableVars, used, dropped, boundVars>>

\* The batch is full, BRPOP times out, or the context is cancelled.
FlushDone(c) ==
  /\ pc[c] = "pop"
  /\ inserted[c] = BatchSize \/ queue = <<>> \/ ctx[c] = "cancelled"
  /\ EndFlush(c)
  /\ UNCHANGED <<ctx, held, keys, read>>
  /\ UNCHANGED <<countersVars, queueVars, tableVars, used, dropped, boundVars>>

Insert(c) ==
  /\ pc[c] = "insert"
  /\ ctx[c] # "cancelled"
  /\ rows' = [rows EXCEPT ![held[c]] = @ + 1]
  /\ inserted' = [inserted EXCEPT ![c] = @ + 1]
  /\ held' = [held EXCEPT ![c] = Nothing]
  /\ pc' = [pc EXCEPT ![c] = "pop"]
  /\ UNCHANGED <<ctx, keys, read, daily>>
  /\ UNCHANGED <<countersVars, queueVars, used, dropped, boundVars>>

\* The INSERT fails, or commits and its reply is lost; with a cancelled
\* context it always fails.
InsertFails(c) ==
  /\ pc[c] = "insert"
  /\ \/ ctx[c] = "cancelled" /\ UNCHANGED <<rows, boundVars>>
     \/ Fault /\ UNCHANGED rows
     \/ Fault /\ rows' = [rows EXCEPT ![held[c]] = @ + 1]
  /\ pc' = [pc EXCEPT ![c] = "requeue"]
  /\ UNCHANGED <<ctx, held, inserted, keys, read, daily>>
  /\ UNCHANGED <<countersVars, queueVars, used, dropped>>

\* Mutant of Requeue: the flush ends without pushing the event back.
RequeueForgotten(c) ==
  /\ pc[c] = "requeue"
  /\ ctx[c] # "cancelled"
  /\ held' = [held EXCEPT ![c] = Nothing]
  /\ EndFlush(c)
  /\ UNCHANGED <<emitted, queue, ctx, keys, read>>
  /\ UNCHANGED <<countersVars, tableVars, used, dropped, boundVars>>

\* LPUSH without LTRIM: the oldest event becomes the newest, and the queue
\* may pass its cap.
Requeue(c) ==
  /\ pc[c] = "requeue"
  /\ ctx[c] # "cancelled"
  /\ queue' = <<held[c]>> \o queue
  /\ held' = [held EXCEPT ![c] = Nothing]
  /\ EndFlush(c)
  /\ UNCHANGED <<emitted, ctx, keys, read>>
  /\ UNCHANGED <<countersVars, tableVars, used, dropped, boundVars>>

\* LPUSH fails too, as it must with a cancelled context; nobody looks.
RequeueFails(c) ==
  /\ pc[c] = "requeue"
  /\ IF ctx[c] = "cancelled" THEN UNCHANGED boundVars ELSE Fault
  /\ dropped' = dropped \cup {held[c]}
  /\ held' = [held EXCEPT ![c] = Nothing]
  /\ EndFlush(c)
  /\ UNCHANGED <<ctx, keys, read>>
  /\ UNCHANGED <<countersVars, queueVars, tableVars, used>>

(***************************************************************************)
(* UsageCollector.rollup.                                                  *)
(***************************************************************************)

\* The rollup ticker; SCAN returns the hashes there are.
StartRollup(c) ==
  /\ pc[c] = "idle"
  /\ ctx[c] = "live"
  /\ rollups < MaxRollups
  /\ rollups' = rollups + 1
  /\ pc' = [pc EXCEPT ![c] = "read"]
  /\ keys' = [keys EXCEPT ![c] = {k \in Keys : counter[k[1]][k[2]] > 0}]
  /\ UNCHANGED <<ctx, held, inserted, read, stops, faults>>
  /\ UNCHANGED <<countersVars, queueVars, tableVars, used, dropped>>

\* HGETALL; a hash that expired since the SCAN has no fields and is skipped.
ReadCounter(c) ==
  /\ pc[c] = "read"
  /\ ctx[c] = "live"
  /\ \E k \in keys[c] :
       /\ keys' = [keys EXCEPT ![c] = @ \ {k}]
       /\ IF counter[k[1]][k[2]] > 0
          THEN /\ read' = [read EXCEPT ![c] = <<k, counter[k[1]][k[2]]>>]
               /\ pc' = [pc EXCEPT ![c] = "upsert"]
          ELSE UNCHANGED <<read, pc>>
  /\ UNCHANGED <<ctx, held, inserted>>
  /\ UNCHANGED <<countersVars, queueVars, tableVars, used, dropped, boundVars>>

\* Mutant of UpsertDaily: the row is dated with the day of the rollup.
UpsertDailyToday(c) ==
  /\ pc[c] = "upsert"
  /\ ctx[c] = "live"
  /\ daily' = [daily EXCEPT ![read[c][1][1]][today] = @ + read[c][2]]
  /\ read' = [read EXCEPT ![c] = <<>>]
  /\ pc' = [pc EXCEPT ![c] = "read"]
  /\ UNCHANGED <<ctx, held, inserted, keys, rows>>
  /\ UNCHANGED <<countersVars, queueVars, used, dropped, boundVars>>

\* UpsertUsageDaily adds what it is given to the row there is.
UpsertDaily(c) ==
  /\ pc[c] = "upsert"
  /\ ctx[c] = "live"
  /\ daily' = [daily EXCEPT ![read[c][1][1]][read[c][1][2]] = @ + read[c][2]]
  /\ read' = [read EXCEPT ![c] = <<>>]
  /\ pc' = [pc EXCEPT ![c] = "read"]
  /\ UNCHANGED <<ctx, held, inserted, keys, rows>>
  /\ UNCHANGED <<countersVars, queueVars, used, dropped, boundVars>>

\* The upsert fails: the key waits for the next hour.
UpsertFails(c) ==
  /\ pc[c] = "upsert"
  /\ IF ctx[c] = "cancelled" THEN UNCHANGED boundVars ELSE Fault
  /\ read' = [read EXCEPT ![c] = <<>>]
  /\ pc' = [pc EXCEPT ![c] = "read"]
  /\ UNCHANGED <<ctx, held, inserted, keys>>
  /\ UNCHANGED <<countersVars, queueVars, tableVars, used, dropped>>

\* No key is left, or the context is cancelled and every call fails.
RollupDone(c) ==
  /\ pc[c] = "read"
  /\ keys[c] = {} \/ ctx[c] = "cancelled"
  /\ pc' = [pc EXCEPT ![c] = "idle"]
  /\ keys' = [keys EXCEPT ![c] = {}]
  /\ UNCHANGED <<ctx, held, inserted, read>>
  /\ UNCHANGED <<countersVars, queueVars, tableVars, used, dropped, boundVars>>

(***************************************************************************)
(* The worker process around the collector.                                *)
(***************************************************************************)

\* Worker.Close: collectorCancel.
Stop(c) ==
  /\ ctx[c] = "live"
  /\ pc[c] # "stopped"
  /\ stops < MaxStops
  /\ stops' = stops + 1
  /\ ctx' = [ctx EXCEPT ![c] = "cancelled"]
  /\ UNCHANGED <<pc, held, inserted, keys, read, rollups, faults>>
  /\ UNCHANGED <<countersVars, queueVars, tableVars, used, dropped>>

\* The process dies: what it holds is gone.
Crash(c) ==
  /\ pc[c] # "stopped"
  /\ Fault
  /\ dropped' = IF held[c] = Nothing THEN dropped ELSE dropped \cup {held[c]}
  /\ held' = [held EXCEPT ![c] = Nothing]
  /\ pc' = [pc EXCEPT ![c] = "stopped"]
  /\ inserted' = [inserted EXCEPT ![c] = 0]
  /\ keys' = [keys EXCEPT ![c] = {}]
  /\ read' = [read EXCEPT ![c] = <<>>]
  /\ UNCHANGED ctx
  /\ UNCHANGED <<countersVars, queueVars, tableVars, used>>

\* A worker process starts: NewCollector and Start.
Restart(c) ==
  /\ pc[c] = "stopped"
  /\ pc' = [pc EXCEPT ![c] = "idle"]
  /\ ctx' = [ctx EXCEPT ![c] = "live"]
  /\ UNCHANGED <<held, inserted, keys, read>>
  /\ UNCHANGED <<countersVars, queueVars, tableVars, used, dropped, boundVars>>

Midnight ==
  /\ NextDay
  /\ UNCHANGED <<queueVars, collectorVars, tableVars, used, dropped, boundVars>>

Expire(n, d) ==
  /\ ExpireKey(n, d)
  /\ UNCHANGED <<queueVars, collectorVars, tableVars, used, dropped, boundVars>>

Flush(c) ==
  \/ Pop(c) \/ FlushDone(c) \/ Insert(c) \/ InsertFails(c)
  \/ Requeue(c) \/ RequeueFails(c)

Rollup(c) ==
  \/ ReadCounter(c) \/ UpsertDaily(c) \/ UpsertFails(c) \/ RollupDone(c)

Next ==
  \/ \E e \in Events : EmitUsage(e) \/ EmitUsageFails(e)
  \/ \E c \in Collectors :
       \/ StartFlush(c) \/ Flush(c)
       \/ StartRollup(c) \/ Rollup(c)
       \/ Stop(c) \/ Crash(c) \/ Restart(c)
  \/ Midnight
  \/ \E n \in Tenants, d \in Days : Expire(n, d)

Spec == Init /\ [][Next]_vars

\* A collector goes on with the flush or rollup it is in, and its flush
\* ticker keeps firing: a select with two ready tickers takes either, so the
\* flush is never passed over for ever.
Fairness ==
  \A c \in Collectors :
    /\ WF_vars(Flush(c))
    /\ WF_vars(Rollup(c))
    /\ SF_vars(StartFlush(c))

FairSpec == Spec /\ Fairness

(***************************************************************************)
(* What billing and the operators rely on.                                 *)
(***************************************************************************)

\* The copies of an event on their way to usage_events.
InFlight(e) ==
  Cardinality({i \in DOMAIN queue : queue[i] = e})
    + Cardinality({c \in Collectors : held[c] = e})

\* The flush loses nothing silently: an event that was emitted is queued, in a
\* collector's hands or in usage_events, unless the cap, a crash, a failed
\* call or a cancelled context cost it.
AuditConserved ==
  \A e \in emitted \ dropped : InFlight(e) + rows[e] > 0

\* An event reaches usage_events once, or once more for each fault: only an
\* INSERT whose reply is lost is repeated.
AuditNotDuplicated ==
  \A e \in Events : InFlight(e) + rows[e] <= 1 + faults

\* The requeue bypasses the cap, but only by the one event each collector
\* may hold.
QueueBounded == Len(queue) <= MaxQueueLen + Cardinality(Collectors)

\* A rollup books a cost on the day it was used, also when midnight or an
\* expiry comes between its SCAN and its upserts: a day without usage has no
\* row, and no rollup adds more than the day's usage.
BilledOnDayOfUse ==
  \A n \in Tenants : \A d \in Days : daily[n][d] <= rollups * used[n][d]

\* An event that waits is eventually recorded or dropped, unless every worker
\* is down: the batch size, the requeue to the newest end and the rollups
\* never leave it behind for ever.
EventuallyAudited ==
  \A e \in Events :
    e \in ToSet(queue) ~>
      rows[e] > 0 \/ e \in dropped \/ \A c \in Collectors : pc[c] = "stopped"

\* CONTEXT.md: Usage is the source of truth for billing, it describes what
\* happened: no day is billed for more than was used.
DailyDescribesUsage ==
  \A n \in Tenants : \A d \in Days : daily[n][d] <= used[n][d]
=============================================================================
