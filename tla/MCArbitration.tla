--------------------------- MODULE MCArbitration ----------------------------
(* Arbitration on a small instance: the order of the names is the reverse  *)
(* of the order in which the models were given.                            *)
EXTENDS Arbitration

MCNameRank == [c \in Models |-> ModelCount - c]
=============================================================================
