------------------------------ MODULE SlotPool ------------------------------
(***************************************************************************)
(* What the rate limiter promises its users, without a counter: each       *)
(* tenant has MaxActive slots, a slot is either free, held by one client,  *)
(* or lost for good, and only a free slot can be taken.                    *)
(***************************************************************************)
EXTENDS Naturals, FiniteSets

CONSTANTS Clients, Tenants, MaxActive

VARIABLES
  holders,  \* the clients that hold a slot of each tenant
  lost      \* the slots of each tenant that nobody will ever give back

vars == <<holders, lost>>

Init ==
  /\ holders = [n \in Tenants |-> {}]
  /\ lost = [n \in Tenants |-> 0]

SomeFree(n) == Cardinality(holders[n]) + lost[n] < MaxActive

Take(n, c) ==
  /\ c \notin UNION {holders[m] : m \in Tenants}
  /\ SomeFree(n)
  /\ holders' = [holders EXCEPT ![n] = @ \cup {c}]
  /\ UNCHANGED lost

GiveBack(n, c) ==
  /\ c \in holders[n]
  /\ holders' = [holders EXCEPT ![n] = @ \ {c}]
  /\ UNCHANGED lost

\* A client disappears with its slot.
Lose(n, c) ==
  /\ c \in holders[n]
  /\ holders' = [holders EXCEPT ![n] = @ \ {c}]
  /\ lost' = [lost EXCEPT ![n] = @ + 1]

\* A slot is taken for a client that is told it has none.
Waste(n) ==
  /\ SomeFree(n)
  /\ lost' = [lost EXCEPT ![n] = @ + 1]
  /\ UNCHANGED holders

Next ==
  \E n \in Tenants :
    \/ Waste(n)
    \/ \E c \in Clients : Take(n, c) \/ GiveBack(n, c) \/ Lose(n, c)

Spec == Init /\ [][Next]_vars
=============================================================================
