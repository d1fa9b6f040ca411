---------------------------- MODULE MCWorkOrders ---------------------------
(* WorkOrders on small instances: the constants are in the .cfg files.     *)
EXTENDS WorkOrders, TLC

Symmetry == Permutations(Runners)
=============================================================================
