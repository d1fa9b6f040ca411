--------------------------- MODULE MCTaskRuntime ---------------------------
(* TaskRuntime on small instances: the constants are in the .cfg files.    *)
EXTENDS TaskRuntime, TLC

Symmetry == Permutations(Runs) \cup Permutations(Sinks)
=============================================================================
