--------------------------- MODULE MCKnowledgeStore ---------------------------
(***************************************************************************)
(* Small instances of KnowledgeStore for TLC.                              *)
(***************************************************************************)
EXTENDS KnowledgeStore, TLC

CONSTANTS d1, d2, t1, t2, f1, f2, v1, x1, x2

Interchangeable ==
  Permutations(Documents) \cup Permutations(Tenants) \cup Permutations(Names)
    \cup Permutations(Sessions)
=============================================================================
