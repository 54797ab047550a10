----------------------------- MODULE MCIngestion -----------------------------
(***************************************************************************)
(* Small instances of Ingestion for TLC.                                   *)
(***************************************************************************)
EXTENDS Ingestion, TLC

CONSTANTS s1, s2, t1, f1, f2, c1, c2, w1, w2

Interchangeable ==
  Permutations(Sources) \cup Permutations(Clients) \cup Permutations(Workers)
=============================================================================
