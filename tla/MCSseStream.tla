---------------------------- MODULE MCSseStream -----------------------------
(* SseStream on a small instance: the constants are in the .cfg file.      *)
EXTENDS SseStream
=============================================================================
