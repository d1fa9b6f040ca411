--------------------------- MODULE TaskLifecycle ---------------------------
(***************************************************************************)
(* What Cortex V5 promises of a task, without coroutines, locks, awaits,   *)
(* copies or telemetry: an ambiguous task is asked about and not executed; *)
(* one execution at a time makes attempts, one after the other; each       *)
(* attempt has its own verdict; and the task is done only on the verdict   *)
(* of its last attempt, and then for good.  TaskRuntime implements this.   *)
(***************************************************************************)
EXTENDS Naturals

VARIABLES
  phase,     \* absent, asking, open, executing or done
  attempts,  \* attempts made
  proven     \* the last attempt passed its verification

vars == <<phase, attempts, proven>>

Init == phase = "absent" /\ attempts = 0 /\ proven = FALSE

Accept ==
  /\ phase = "absent"
  /\ phase' \in {"asking", "open"}
  /\ UNCHANGED <<attempts, proven>>

(* An answer may leave the task ambiguous: then nothing changes.           *)
Clarify ==
  /\ phase = "asking"
  /\ phase' = "open"
  /\ UNCHANGED <<attempts, proven>>

Begin ==
  /\ phase = "open"
  /\ phase' = "executing"
  /\ UNCHANGED <<attempts, proven>>

Attempt ==
  /\ phase = "executing"
  /\ attempts' = attempts + 1
  /\ proven' = FALSE
  /\ UNCHANGED phase

Judge ==
  /\ phase = "executing" /\ attempts > 0
  /\ proven' \in BOOLEAN
  /\ UNCHANGED <<phase, attempts>>

Complete ==
  /\ phase = "executing" /\ proven
  /\ phase' = "done"
  /\ UNCHANGED <<attempts, proven>>

(* Parked, failed, or cut off by a crash.                                  *)
Stop ==
  /\ phase = "executing"
  /\ phase' = "open"
  /\ UNCHANGED <<attempts, proven>>

Next == Accept \/ Clarify \/ Begin \/ Attempt \/ Judge \/ Complete \/ Stop

Spec == Init /\ [][Next]_vars
=============================================================================
