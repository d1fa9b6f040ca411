------------------------- MODULE MCVerificationGate -------------------------
(* VerificationGate on a small instance: a change and a report share a     *)
(* workspace.  Both protect the directory suite with its checker, and unit *)
(* alone, which lies in the directory app beside the solution.             *)
EXTENDS VerificationGate

CONSTANTS change, report, suite, app, checker, unit, solution, check, lint, inline, broken

MCAbove == [p \in Files \cup Dirs |->
  IF p \in Dirs THEN {} ELSE IF p = checker THEN {suite} ELSE {app}]

MCProtected == [t \in Tasks |-> {suite, unit}]

MCCheckerOf == [c \in Commands |-> IF c = lint THEN unit ELSE checker]

ASpec(executable, tool, files, commands, telemetry) ==
  [executable |-> executable, tool |-> tool, files |-> files, commands |-> commands,
   telemetry |-> telemetry]

(* Each kind of evidence a change may bring, alone and with what it lacks. *)
Change(files, commands) == ASpec(TRUE, FALSE, files, commands, TRUE)

MCSpecs == [t \in Tasks |->
  IF t = change
  THEN {Change(<<>>, commands) : commands \in {<<>>, <<check>>, <<lint>>}}
       \cup {Change(<<solution>>, commands) :
               commands \in {<<lint, check>>, <<lint>>, <<inline>>, <<broken>>}}
       \cup {Change(<<Outside>>, <<check>>)}
  ELSE {ASpec(FALSE, FALSE, <<solution>>, <<>>, FALSE), ASpec(FALSE, TRUE, <<>>, <<lint>>, FALSE)}]
=============================================================================
