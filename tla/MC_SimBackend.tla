---------------------------- MODULE MC_SimBackend ----------------------------
(* Instantiates SimBackend for TLC: two application threads, two graph     *)
(* ids, so that a thread's second load reuses an id the other unloaded.    *)
EXTENDS SimBackend, TLC

CONSTANTS t1, t2

MC_Threads == {t1, t2}
MC_Ids == 1 .. 2
MC_Symmetry == Permutations(MC_Threads)
=============================================================================
