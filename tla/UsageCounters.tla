---------------------------- MODULE UsageCounters ----------------------------
(***************************************************************************)
(* The real-time usage counters in Redis: one hash per tenant, day and     *)
(* model, incremented by the emitter (internal/usage/redis_emitter.go) and *)
(* summed by the reader (internal/usage/reader.go).  The model keeps the   *)
(* estimated cost of each tenant's day, all models together.  Every write  *)
(* renews the hash's 48-hour expiry, so the hash of day d, last written    *)
(* during d, goes at some moment of day d + 2.                             *)
(***************************************************************************)
EXTENDS Naturals

CONSTANTS
  Tenants,
  LastDay,  \* bound on the days modelled
  MonthOf   \* the calendar month of each day

Days == 1 .. LastDay

ASSUME DaysAssumption ==
  /\ LastDay \in Nat \ {0}
  /\ MonthOf \in [Days -> Nat]
  /\ \A d, e \in Days : d <= e => MonthOf[d] <= MonthOf[e]

VARIABLES
  today,
  counter  \* estimated_cost_usd of the hash of each tenant and day, 0 if none

countersVars == <<today, counter>>

CountersTypeOK ==
  /\ today \in Days
  /\ counter \in [Tenants -> [Days -> Nat]]

CountersInit ==
  /\ today = 1
  /\ counter = [n \in Tenants |-> [d \in Days |-> 0]]

\* HINCRBYFLOAT on the hash of the day of the emission.
CountCost(n, cost) == counter' = [counter EXCEPT ![n][today] = @ + cost]

\* The hash of a day reaches its time to live.
ExpireKey(n, d) ==
  /\ counter[n][d] > 0
  /\ today >= d + 2
  /\ counter' = [counter EXCEPT ![n][d] = 0]
  /\ UNCHANGED today

\* Midnight: what was last written three days ago has expired by now.
NextDay ==
  /\ today < LastDay
  /\ today' = today + 1
  /\ counter' = [n \in Tenants |->
                   [d \in Days |-> IF d + 2 <= today THEN 0 ELSE counter[n][d]]]

\* GetCurrentUsage keeps only the keys of the current month; at most the
\* hashes of the last three days are still there.
CostOfDay(n, d) ==
  IF d \in Days /\ MonthOf[d] = MonthOf[today] THEN counter[n][d] ELSE 0

MonthToDate(n) ==
  CostOfDay(n, today) + CostOfDay(n, today - 1) + CostOfDay(n, today - 2)
=============================================================================
