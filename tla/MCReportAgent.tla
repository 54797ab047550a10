---------------------------- MODULE MCReportAgent ----------------------------
(***************************************************************************)
(* Small instances of ReportAgent for TLC.                                 *)
(***************************************************************************)
EXTENDS ReportAgent

CONSTANTS n1, a1, a2, k1, k2

OneTenant == [a \in Agents |-> n1]
BudgetOne == [n \in Tenants |-> 1]
NoBudget == [n \in Tenants |-> 0]
OneMonth == [d \in Days |-> 1]
LastDayNextMonth == [d \in Days |-> IF d = LastDay THEN 2 ELSE 1]

Interchangeable == Permutations(Agents)
=============================================================================
