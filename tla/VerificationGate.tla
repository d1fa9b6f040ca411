-------------------------- MODULE VerificationGate --------------------------
(***************************************************************************)
(* The completion gate (cortex_v5/verification.py), the tools with which   *)
(* models change a workspace and the runner of checker commands            *)
(* (cortex_v5/tools.py, sandbox_runner.py), for tasks that share one       *)
(* workspace.  Each task brings its own protected paths.  A gate looks at  *)
(* the required files, then runs the commands one at a time, in a thread,  *)
(* while the other tasks' models and checkers go on.                       *)
(*                                                                         *)
(* The text of a file is the one the human put there or another.  A clear  *)
(* scope, prompt, acceptance, output and real_input_id are one input: all  *)
(* there or not.                                                           *)
(* Evidence kinds other than artifacts and wiring repeat what their        *)
(* command already showed, and nobody uses the channel for caller evidence.*)
(***************************************************************************)
EXTENDS Integers, Sequences

CONSTANTS Tasks, Files, Commands,
          Dirs,         \* directories below the workspace's root
          Above,        \* file or directory -> the directories it lies below
          Protected,    \* task -> verification.protected_paths
          Specs,        \* task -> the specs it may be submitted with
          CheckerOf,    \* command -> the file it runs
          Parsable,     \* commands shlex can split
          Runnable,     \* commands _execute_verification accepts: a python file
          Wiring,       \* commands whose text counts as wiring evidence
          Outside       \* a required file that is no file below the root

Specifications ==
  [executable : BOOLEAN, tool : BOOLEAN, telemetry : BOOLEAN,
   files : Seq(Files \cup {Outside}), commands : Seq(Commands)]

ASSUME GateAssumption ==
  /\ Above \in [Files \cup Dirs -> SUBSET Dirs]
  /\ \A p \in Files \cup Dirs : \A d \in Above[p] : Above[d] \subseteq Above[p] \ {d}
  /\ Protected \in [Tasks -> SUBSET (Files \cup Dirs)]
  /\ Specs \in [Tasks -> SUBSET Specifications]
  /\ CheckerOf \in [Commands -> Files]
  /\ Runnable \subseteq Parsable /\ Parsable \subseteq Commands /\ Wiring \subseteq Commands
  /\ Outside \notin Files

VARIABLES
  ws,      \* file -> absent, original or changed
  spec,    \* task -> its verification spec
  pc,      \* task -> where it is
  used,    \* task -> successful_tool_calls > 0
  input,   \* task -> what the runtime hands to verify()
  seen,    \* task -> required files looked at: was each there
  exits,   \* task -> commands run: did each succeed
  errors,  \* task -> names of failed checks
  code,    \* task -> what its running checker was compiled from
  ran      \* task -> what its passing checkers were compiled from (history)

vars == <<ws, spec, pc, used, input, seen, exits, errors, code, ran>>

-----------------------------------------------------------------------------
Texts == {"absent", "original", "changed"}

Inputs == [stated : BOOLEAN, delivered : BOOLEAN]

Names == {"stated", "tool_loop_used", "required_file",
          "verification_command_present", "verification_commands_authorized", "command",
          "verification_commands_succeeded", "wiring_or_artifacts", "telemetry"}

Pcs == {"working", "files", "commands", "running", "judged"}

TypeOK ==
  /\ ws \in [Files -> Texts]
  /\ spec \in [Tasks -> Specifications]
  /\ pc \in [Tasks -> Pcs]
  /\ used \in [Tasks -> BOOLEAN]
  /\ input \in [Tasks -> Inputs]
  /\ seen \in [Tasks -> Seq(BOOLEAN)]
  /\ exits \in [Tasks -> Seq(BOOLEAN)]
  /\ errors \in [Tasks -> SUBSET Names]
  /\ code \in [Tasks -> Texts]
  /\ ran \in [Tasks -> SUBSET (Files \X Texts)]
  /\ \A t \in Tasks :
       /\ spec[t] \in Specs[t]
       /\ Len(seen[t]) <= Len(spec[t].files)
       /\ Len(exits[t]) <= Len(spec[t].commands)

-----------------------------------------------------------------------------
All(results) == \A i \in DOMAIN results : results[i]

(* _check appends the name of a check that failed.                         *)
Failing(name, passed) == IF passed THEN {} ELSE {name}

Init ==
  /\ ws \in [Files -> {"absent", "original"}]
  /\ spec \in [Tasks -> UNION {Specs[t] : t \in Tasks}]
  /\ \A t \in Tasks : spec[t] \in Specs[t]
  /\ pc = [t \in Tasks |-> "working"]
  /\ used = [t \in Tasks |-> FALSE]
  /\ input = [t \in Tasks |-> [stated |-> FALSE, delivered |-> FALSE]]
  /\ seen = [t \in Tasks |-> <<>>] /\ exits = [t \in Tasks |-> <<>>]
  /\ errors = [t \in Tasks |-> {}]
  /\ code = [t \in Tasks |-> "absent"]
  /\ ran = [t \in Tasks |-> {}]

-----------------------------------------------------------------------------
(* Mutant of Guarded: only the protected path itself.                      *)
GuardedItself(t, p) == p \in Protected[t]

(* _protected: a protected path and whatever lies below one.  sensitive()  *)
(* in the sandbox of a checker tests a path in the same way.               *)
Guarded(t, p) == p \in Protected[t] \/ Above[p] \cap Protected[t] # {}

(* A successful call of a model's tool; a refused one changes nothing.     *)
Edit(t, f) ==
  /\ pc[t] = "working"
  /\ ~Guarded(t, f)
  /\ ws[f] # "absent"
  /\ ws' = [ws EXCEPT ![f] = "changed"]
  /\ used' = [used EXCEPT ![t] = TRUE]
  /\ UNCHANGED <<spec, pc, input, seen, exits, errors, code, ran>>

Write(t, f) ==
  /\ pc[t] = "working"
  /\ ~Guarded(t, f)
  /\ ws' = [ws EXCEPT ![f] = "changed"]
  /\ used' = [used EXCEPT ![t] = TRUE]
  /\ UNCHANGED <<spec, pc, input, seen, exits, errors, code, ran>>

ReadOrList(t) ==
  /\ pc[t] = "working" /\ ~used[t]
  /\ used' = [used EXCEPT ![t] = TRUE]
  /\ UNCHANGED <<ws, spec, pc, input, seen, exits, errors, code, ran>>

-----------------------------------------------------------------------------
(* verify(): what needs no look at the workspace.                          *)
Verify(t) ==
  /\ pc[t] = "working"
  /\ \E in \in Inputs :
       /\ input' = [input EXCEPT ![t] = in]
       /\ errors' = [errors EXCEPT ![t] =
            Failing("stated", in.stated)
            \cup Failing("tool_loop_used", spec[t].executable \/ spec[t].tool => used[t])
            \cup Failing("telemetry", spec[t].telemetry => in.delivered)]
  /\ seen' = [seen EXCEPT ![t] = <<>>]
  /\ exits' = [exits EXCEPT ![t] = <<>>]
  /\ ran' = [ran EXCEPT ![t] = {}]
  /\ pc' = [pc EXCEPT ![t] = "files"]
  /\ UNCHANGED <<ws, spec, used, code>>

(* _required_file_exists, one file after the other.                        *)
Exists(f) == IF f = Outside THEN FALSE ELSE ws[f] # "absent"

LookAtFile(t) ==
  /\ pc[t] = "files" /\ Len(seen[t]) < Len(spec[t].files)
  /\ LET there == Exists(spec[t].files[Len(seen[t]) + 1])
     IN  /\ seen' = [seen EXCEPT ![t] = Append(@, there)]
         /\ errors' = [errors EXCEPT ![t] = @ \cup Failing("required_file", there)]
  /\ UNCHANGED <<ws, spec, pc, used, input, exits, code, ran>>

CommandsOf(t) == {spec[t].commands[i] : i \in DOMAIN spec[t].commands}

(* authorize_verification splits every command or raises.                  *)
Authorized(t) == CommandsOf(t) \subseteq Parsable

Authorize(t) ==
  /\ pc[t] = "files" /\ Len(seen[t]) = Len(spec[t].files)
  /\ errors' = [errors EXCEPT ![t] = @
       \cup Failing("verification_command_present",
                    spec[t].executable => spec[t].commands # <<>>)
       \cup Failing("verification_commands_authorized", Authorized(t))]
  /\ pc' = [pc EXCEPT ![t] = "commands"]
  /\ UNCHANGED <<ws, spec, used, input, seen, exits, code, ran>>

NextCommand(t) == spec[t].commands[Len(exits[t]) + 1]

MoreCommands(t) == pc[t] = "commands" /\ Len(exits[t]) < Len(spec[t].commands)

MayRun(t) ==
  /\ Authorized(t)
  /\ NextCommand(t) \in Runnable
  /\ ws[CheckerOf[NextCommand(t)]] # "absent"

(* The checker is compiled from what its file says now, then runs.         *)
StartCommand(t) ==
  /\ MoreCommands(t) /\ MayRun(t)
  /\ code' = [code EXCEPT ![t] = ws[CheckerOf[NextCommand(t)]]]
  /\ pc' = [pc EXCEPT ![t] = "running"]
  /\ UNCHANGED <<ws, spec, used, input, seen, exits, errors, ran>>

(* Mutant of Observe: a result is noted where it arises and again after.   *)
ObserveTwice(t, ok) ==
  /\ exits' = [exits EXCEPT ![t] = Append(Append(@, ok), ok)]
  /\ errors' = [errors EXCEPT ![t] = @ \cup Failing("command", ok)]

Observe(t, ok) ==
  /\ exits' = [exits EXCEPT ![t] = Append(@, ok)]
  /\ errors' = [errors EXCEPT ![t] = @ \cup Failing("command", ok)]

RefuseCommand(t) ==
  /\ MoreCommands(t) /\ ~MayRun(t)
  /\ Observe(t, FALSE)
  /\ UNCHANGED <<ws, spec, pc, used, input, seen, code, ran>>

(* The checker and what it imports write, move and remove a file: the      *)
(* sandbox tests the paths a call names.                                   *)
CheckerWrites(t, f) ==
  /\ pc[t] = "running"
  /\ ~Guarded(t, f)
  /\ \E text \in Texts : ws' = [ws EXCEPT ![f] = text]
  /\ UNCHANGED <<spec, pc, used, input, seen, exits, errors, code, ran>>

(* They move a directory away, or another one to its place, and with it    *)
(* the files below, protected or not: the call names the directory alone.  *)
Below(d) == {f \in Files : d \in Above[f]}

CheckerMoves(t, d) ==
  /\ pc[t] = "running"
  /\ ~Guarded(t, d)
  /\ \E texts \in [Below(d) -> Texts] :
       ws' = [f \in Files |-> IF f \in Below(d) THEN texts[f] ELSE ws[f]]
  /\ UNCHANGED <<spec, pc, used, input, seen, exits, errors, code, ran>>

(* It exits with a status, or runs into the timeout.                       *)
FinishCommand(t) ==
  /\ pc[t] = "running"
  /\ \E ok \in BOOLEAN :
       /\ Observe(t, ok)
       /\ ran' = [ran EXCEPT ![t] =
            IF ok THEN @ \cup {<<CheckerOf[NextCommand(t)], code[t]>>} ELSE @]
  /\ pc' = [pc EXCEPT ![t] = "commands"]
  /\ code' = [code EXCEPT ![t] = "absent"]
  /\ UNCHANGED <<ws, spec, used, input, seen>>

(* Evidence of a real seam: the required files taken together, or a        *)
(* command that exercises wiring.                                          *)
Artifacts(t) == seen[t] # <<>> /\ All(seen[t])
WiringShown(t) == \E i \in DOMAIN exits[t] : exits[t][i] /\ spec[t].commands[i] \in Wiring

(* Mutant of FinalErrors: any command that succeeds is evidence.           *)
FinalErrorsLenient(t) ==
  IF ~spec[t].executable THEN {}
  ELSE Failing("verification_commands_succeeded", exits[t] # <<>> /\ All(exits[t]))

FinalErrors(t) ==
  IF ~spec[t].executable THEN {}
  ELSE Failing("verification_commands_succeeded", exits[t] # <<>> /\ All(exits[t]))
       \cup Failing("wiring_or_artifacts", Artifacts(t) \/ WiringShown(t))

Judge(t) ==
  /\ pc[t] = "commands" /\ Len(exits[t]) = Len(spec[t].commands)
  /\ errors' = [errors EXCEPT ![t] = @ \cup FinalErrors(t)]
  /\ pc' = [pc EXCEPT ![t] = "judged"]
  /\ UNCHANGED <<ws, spec, used, input, seen, exits, code, ran>>

Passed(t) == pc[t] = "judged" /\ errors[t] = {}

(* After a failed verification the task is attempted again.                *)
TryAgain(t) ==
  /\ pc[t] = "judged" /\ ~Passed(t)
  /\ pc' = [pc EXCEPT ![t] = "working"]
  /\ errors' = [errors EXCEPT ![t] = {}]
  /\ UNCHANGED <<ws, spec, used, input, seen, exits, code, ran>>

Next ==
  \E t \in Tasks :
    \/ \E f \in Files : Edit(t, f) \/ Write(t, f) \/ CheckerWrites(t, f)
    \/ \E d \in Dirs : CheckerMoves(t, d)
    \/ ReadOrList(t) \/ Verify(t) \/ LookAtFile(t) \/ Authorize(t)
    \/ StartCommand(t) \/ RefuseCommand(t) \/ FinishCommand(t)
    \/ Judge(t) \/ TryAgain(t)

Spec == Init /\ [][Next]_vars

-----------------------------------------------------------------------------
(* What the gate accepts, stated without checks and their order: a clear   *)
(* task with all its texts; every required file seen; every command the    *)
(* human declared run, in order, with success; and of a change, a tool     *)
(* call, a command and evidence of a real seam.                            *)
Acceptable(t) ==
  LET s == spec[t] IN
  /\ input[t].stated
  /\ s.telemetry => input[t].delivered
  /\ seen[t] = [i \in DOMAIN s.files |-> TRUE]
  /\ exits[t] = [i \in DOMAIN s.commands |-> TRUE]
  /\ s.tool \/ s.executable => used[t]
  /\ s.executable =>
       /\ s.commands # <<>>
       /\ s.files # <<>> \/ CommandsOf(t) \cap Wiring # {}

(* "Return a fail-closed verdict": the gate passes what is acceptable and  *)
(* nothing else, for every specification, whatever files and checkers do   *)
(* between its steps.                                                      *)
VerdictExact == \A t \in Tasks : pc[t] = "judged" => (Passed(t) <=> Acceptable(t))

(* A verdict is worth what its checker is worth: if for every task that    *)
(* works in the workspace a checker's file, and every directory above it,  *)
(* is a protected path or lies below one, a passing verdict comes from the *)
(* text the human put there, although models and checkers write and move   *)
(* files while gates run.  (A neighbour that does not protect the file may *)
(* replace it; so may a checker that moves an unprotected directory above  *)
(* it.)                                                                    *)
Sealed(f) ==
  \A u \in Tasks : \A p \in {f} \cup Above[f] : ({p} \cup Above[p]) \cap Protected[u] # {}

GenuineChecker ==
  \A t \in Tasks, f \in Files : Passed(t) /\ Sealed(f) => <<f, "changed">> \notin ran[t]
=============================================================================
