----------------------------- MODULE MCTaskPool -----------------------------
(* Instances of TaskPool for TLC.                                          *)
EXTENDS TaskPool, TLC

Symmetry == Permutations(Tasks) \cup Permutations(Posters)
=============================================================================
