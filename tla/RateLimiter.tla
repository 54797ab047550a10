----------------------------- MODULE RateLimiter -----------------------------
(***************************************************************************)
(* The per-tenant concurrency limiter, internal/queue/ratelimit.go: one    *)
(* Redis counter per tenant, changed only by two Lua scripts, each of      *)
(* which Redis runs atomically.  The key has no expiry.                    *)
(***************************************************************************)
EXTENDS Naturals

CONSTANTS
  Tenants,
  MaxActive  \* MAX_ACTIVE_JOBS_PER_TENANT

ASSUME MaxActiveAssumption == MaxActive \in Nat

VARIABLE active  \* tenant:<id>:active_jobs

RateLimiterTypeOK == active \in [Tenants -> Nat]

RateLimiterInit == active = [n \in Tenants |-> 0]

\* Mutant of GrantSlot: the script increments without comparing.
GrantSlotUnchecked(n) ==
  active' = [active EXCEPT ![n] = @ + 1]

\* Acquire's script below the limit: INCR.
GrantSlot(n) ==
  /\ active[n] < MaxActive
  /\ active' = [active EXCEPT ![n] = @ + 1]

\* Acquire's script at the limit: it returns -1 and Acquire an error.
RefuseSlot(n) ==
  /\ active[n] >= MaxActive
  /\ UNCHANGED active

\* Release's script: DECR, never below zero.
FreeSlot(n) ==
  active' = [active EXCEPT ![n] = IF @ > 0 THEN @ - 1 ELSE 0]
=============================================================================
