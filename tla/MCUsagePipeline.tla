--------------------------- MODULE MCUsagePipeline ---------------------------
(***************************************************************************)
(* Small instances of UsagePipeline for TLC.                               *)
(***************************************************************************)
EXTENDS UsagePipeline

CONSTANTS n1, e1, e2, e3, e4, c1, c2

OneMonth == [d \in Days |-> 1]
OneTenant == [e \in Events |-> n1]

CostOne == [e \in Events |-> 1]

\* Sound where every event costs the same.
Interchangeable == Permutations(Collectors) \cup Permutations(Events)

\* The last day: a queue at its cap, events to come, no rollup.
AuditInit ==
  /\ CollectorsInit /\ NothingUsed
  /\ today = LastDay
  /\ counter = [n \in Tenants |-> [d \in Days |-> 0]]
  /\ emitted = {e1}
  /\ queue = <<e1>>
  /\ rows = [e \in Events |-> 0]
  /\ rollups = MaxRollups

\* The first day: the rollups to come, two events recorded long ago, and one that was
\* used and recorded today.
RollupInit ==
  /\ CollectorsInit
  /\ today = 1
  /\ counter = [n \in Tenants |-> [d \in Days |-> IF d = 1 THEN CostOf[e3] ELSE 0]]
  /\ used = counter
  /\ daily = [n \in Tenants |-> [d \in Days |-> 0]]
  /\ emitted = {e1, e2, e3}
  /\ queue = <<>>
  /\ rows = [e \in Events |-> IF e \in emitted THEN 1 ELSE 0]
  /\ dropped = {} /\ rollups = 0 /\ stops = 0 /\ faults = MaxFaults

CollectorSpec == (AuditInit \/ RollupInit) /\ [][Next]_vars /\ Fairness
=============================================================================
