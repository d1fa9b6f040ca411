-------------------------- MODULE MCSharedSeating --------------------------
(* SharedSeating on small instances: m1 is the preferred model.         *)
EXTENDS SharedSeating, TLC

CONSTANTS m1
MCPreference == [m \in Models |-> IF m = m1 THEN 2 ELSE 1]

=============================================================================
