--------------------------- MODULE MC_ContextTable ---------------------------
(* Instantiates ContextTable for TLC: two application threads, two graph   *)
(* ids, two load_graph calls per thread.                                   *)
EXTENDS ContextTable, TLC

CONSTANTS t1, t2

MC_Threads == {t1, t2}
MC_Ids == 1 .. 2
MC_Symmetry == Permutations(MC_Threads)
=============================================================================
