---------------------------- MODULE MCSqlProduce ----------------------------
(* Two sessions, each transaction without savepoints, and one restart. *)
EXTENDS SqlProduce, TLC

CONSTANTS s1, s2

MCSessions == {s1, s2}
SessionSymmetry == Permutations(MCSessions)
=============================================================================
