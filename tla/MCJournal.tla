----------------------------- MODULE MCJournal -----------------------------
(* Journal on small instances: the constants are values of the cfg.     *)
EXTENDS Journal
=============================================================================
