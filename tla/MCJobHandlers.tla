---------------------------- MODULE MCJobHandlers ----------------------------
(***************************************************************************)
(* Small instances of JobHandlers for TLC.                                 *)
(***************************************************************************)
EXTENDS JobHandlers, TLC

CONSTANTS w1, w2, r1, r2, i1, n1, n2

TwoTenants == [t \in Tasks |-> IF t = r2 THEN n2 ELSE n1]
OneTenant == [t \in Tasks |-> n1]

Interchangeable == Permutations(Workers)
=============================================================================
