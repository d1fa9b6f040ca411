---------------------------- MODULE MCToolLoop -----------------------------
(* ToolLoop on small instances: the constants are in the .cfg files.       *)
EXTENDS ToolLoop
=============================================================================
