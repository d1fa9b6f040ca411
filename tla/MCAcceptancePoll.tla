-------------------------- MODULE MCAcceptancePoll --------------------------
(* AcceptancePoll on a small instance: the constants are in the .cfg file. *)
EXTENDS AcceptancePoll, TLC

Symmetry == Permutations(Runs)
=============================================================================
