----------------------- MODULE VerificationGateProofs -----------------------
(* What TLAPS proves about VerificationGate, for every set of tasks, files *)
(* and commands and whatever the tasks protect and declare.                *)
EXTENDS VerificationGate, TLAPS

-----------------------------------------------------------------------------
(* Types                                                                   *)

(* _check notes names of checks, and none for a check that passed.         *)
LEMMA FailingNames ==
  ASSUME NEW name \in Names, NEW passed
  PROVE  Failing(name, passed) \subseteq Names
BY DEF Failing

(* A task's specification, seen as a record.                               *)
LEMMA SpecFields ==
  ASSUME TypeOK, NEW t \in Tasks
  PROVE  /\ spec[t].executable \in BOOLEAN
         /\ spec[t].tool \in BOOLEAN
         /\ spec[t].telemetry \in BOOLEAN
         /\ spec[t].files \in Seq(Files \cup {Outside})
         /\ spec[t].commands \in Seq(Commands)
         /\ Len(spec[t].files) \in Nat
         /\ Len(spec[t].commands) \in Nat
BY DEF TypeOK, Specifications

(* Noting a result appends it.                                             *)
LEMMA AppendResult ==
  ASSUME NEW results \in Seq(BOOLEAN), NEW b \in BOOLEAN
  PROVE  /\ Append(results, b) \in Seq(BOOLEAN)
         /\ Len(Append(results, b)) = Len(results) + 1
         /\ All(Append(results, b)) <=> All(results) /\ b
<1>1. /\ Append(results, b) \in Seq(BOOLEAN)
      /\ Len(Append(results, b)) = Len(results) + 1
  OBVIOUS
<1>2. DOMAIN Append(results, b) = DOMAIN results \cup {Len(results) + 1}
  OBVIOUS
<1>3. \A i \in DOMAIN results : Append(results, b)[i] = results[i]
  OBVIOUS
<1>4. Append(results, b)[Len(results) + 1] = b
  OBVIOUS
<1> QED
  BY <1>1, <1>2, <1>3, <1>4, Zenon DEF All

(* FinalErrors are names, too.                                             *)
LEMMA FinalNames ==
  ASSUME NEW t
  PROVE  FinalErrors(t) \subseteq Names
BY DEF FinalErrors, Failing, Names

(* A result appended to one task's results leaves the others alone.        *)
LEMMA ObserveType ==
  ASSUME TypeOK, NEW t \in Tasks, NEW ok \in BOOLEAN, Observe(t, ok),
         Len(exits[t]) < Len(spec[t].commands)
  PROVE  /\ exits' \in [Tasks -> Seq(BOOLEAN)]
         /\ exits'[t] = Append(exits[t], ok)
         /\ \A u \in Tasks \ {t} : exits'[u] = exits[u]
         /\ errors' \in [Tasks -> SUBSET Names]
         /\ errors'[t] = errors[t] \cup Failing("command", ok)
         /\ \A u \in Tasks \ {t} : errors'[u] = errors[u]
         /\ \A u \in Tasks : Len(exits'[u]) <= Len(spec[u].commands)
<1>1. Append(exits[t], ok) \in Seq(BOOLEAN) /\ Len(Append(exits[t], ok)) = Len(exits[t]) + 1
  BY AppendResult DEF TypeOK
<1>2. Failing("command", ok) \subseteq Names
  BY FailingNames DEF Names
<1> QED
  BY <1>1, <1>2, SpecFields DEF TypeOK, Observe

(* The checker of a task's next command is a file.                         *)
LEMMA CheckerIsFile ==
  ASSUME TypeOK, NEW t \in Tasks, Len(exits[t]) < Len(spec[t].commands)
  PROVE  NextCommand(t) \in Commands /\ CheckerOf[NextCommand(t)] \in Files
<1>1. Len(exits[t]) \in Nat
  BY DEF TypeOK
<1>2. Len(exits[t]) + 1 \in 1..Len(spec[t].commands)
  BY <1>1, SpecFields
<1> QED
  BY <1>2, SpecFields, GateAssumption DEF NextCommand

(* Beside TypeOK: a running checker is one of the task's commands, and a   *)
(* task that is not judged yet has its results bounded by its commands.    *)
Underway == \A t \in Tasks : pc[t] = "running" => Len(exits[t]) < Len(spec[t].commands)

LEMMA TypeStep ==
  TypeOK /\ Underway /\ [Next]_vars => TypeOK' /\ Underway'
<1> SUFFICES ASSUME TypeOK, Underway, [Next]_vars PROVE TypeOK' /\ Underway'
  OBVIOUS
<1>1. ASSUME NEW t \in Tasks, NEW f \in Files, Edit(t, f) PROVE TypeOK' /\ Underway'
  BY <1>1 DEF Edit, TypeOK, Underway, Texts, Pcs
<1>2. ASSUME NEW t \in Tasks, NEW f \in Files, Write(t, f) PROVE TypeOK' /\ Underway'
  BY <1>2 DEF Write, TypeOK, Underway, Texts, Pcs
<1>3. ASSUME NEW t \in Tasks, NEW f \in Files, CheckerWrites(t, f) PROVE TypeOK' /\ Underway'
  BY <1>3 DEF CheckerWrites, TypeOK, Underway, Texts
<1>14. ASSUME NEW t \in Tasks, NEW d \in Dirs, CheckerMoves(t, d) PROVE TypeOK' /\ Underway'
  <2>1. PICK texts \in [Below(d) -> Texts] :
          ws' = [f \in Files |-> IF f \in Below(d) THEN texts[f] ELSE ws[f]]
    BY <1>14 DEF CheckerMoves
  <2>2. ws' \in [Files -> Texts]
    BY <2>1 DEF TypeOK
  <2> QED
    BY <1>14, <2>2 DEF CheckerMoves, TypeOK, Underway
<1>4. ASSUME NEW t \in Tasks, ReadOrList(t) PROVE TypeOK' /\ Underway'
  BY <1>4 DEF ReadOrList, TypeOK, Underway
<1>5. ASSUME NEW t \in Tasks, Verify(t) PROVE TypeOK' /\ Underway'
  <2>1. PICK in \in Inputs :
          /\ input' = [input EXCEPT ![t] = in]
          /\ errors' = [errors EXCEPT ![t] =
               Failing("stated", in.stated)
               \cup Failing("tool_loop_used", spec[t].executable \/ spec[t].tool => used[t])
               \cup Failing("telemetry", spec[t].telemetry => in.delivered)]
    BY <1>5 DEF Verify
  <2>2. errors' \in [Tasks -> SUBSET Names]
    BY <2>1, FailingNames DEF TypeOK, Names
  <2> QED
    BY <1>5, <2>1, <2>2, SpecFields DEF Verify, TypeOK, Underway, Pcs
<1>6. ASSUME NEW t \in Tasks, LookAtFile(t) PROVE TypeOK' /\ Underway'
  <2> DEFINE there == Exists(spec[t].files[Len(seen[t]) + 1])
  <2>1. there \in BOOLEAN
    BY DEF Exists
  <2>2. Append(seen[t], there) \in Seq(BOOLEAN) /\ Len(Append(seen[t], there)) = Len(seen[t]) + 1
    BY <2>1, AppendResult DEF TypeOK
  <2>3. errors' \in [Tasks -> SUBSET Names]
    BY <1>6, FailingNames DEF LookAtFile, TypeOK, Names
  <2>4. seen' = [seen EXCEPT ![t] = Append(@, there)]
    BY <1>6 DEF LookAtFile
  <2> HIDE DEF there
  <2> QED
    BY <1>6, <2>1, <2>2, <2>3, <2>4, SpecFields DEF LookAtFile, TypeOK, Underway
<1>7. ASSUME NEW t \in Tasks, Authorize(t) PROVE TypeOK' /\ Underway'
  <2>1. errors' \in [Tasks -> SUBSET Names]
    BY <1>7, FailingNames DEF Authorize, TypeOK, Names
  <2> QED
    BY <1>7, <2>1 DEF Authorize, TypeOK, Underway, Pcs
<1>8. ASSUME NEW t \in Tasks, StartCommand(t) PROVE TypeOK' /\ Underway'
  <2>1. ws[CheckerOf[NextCommand(t)]] \in Texts
    BY <1>8, CheckerIsFile DEF StartCommand, MoreCommands, TypeOK
  <2> QED
    BY <1>8, <2>1 DEF StartCommand, MoreCommands, TypeOK, Underway, Pcs
<1>9. ASSUME NEW t \in Tasks, RefuseCommand(t) PROVE TypeOK' /\ Underway'
  <2>1. Observe(t, FALSE) /\ Len(exits[t]) < Len(spec[t].commands) /\ pc[t] = "commands"
    BY <1>9 DEF RefuseCommand, MoreCommands
  <2> QED
    BY <1>9, <2>1, ObserveType DEF RefuseCommand, TypeOK, Underway
<1>10. ASSUME NEW t \in Tasks, FinishCommand(t) PROVE TypeOK' /\ Underway'
  <2>1. PICK ok \in BOOLEAN :
          /\ Observe(t, ok)
          /\ ran' = [ran EXCEPT ![t] =
               IF ok THEN @ \cup {<<CheckerOf[NextCommand(t)], code[t]>>} ELSE @]
    BY <1>10 DEF FinishCommand
  <2>2. Len(exits[t]) < Len(spec[t].commands)
    BY <1>10 DEF FinishCommand, Underway
  <2>3. <<CheckerOf[NextCommand(t)], code[t]>> \in Files \X Texts
    BY <2>2, CheckerIsFile DEF TypeOK
  <2>4. ran' \in [Tasks -> SUBSET (Files \X Texts)]
    BY <2>1, <2>3 DEF TypeOK
  <2> QED
    BY <1>10, <2>1, <2>2, <2>4, ObserveType DEF FinishCommand, TypeOK, Underway, Pcs, Texts
<1>11. ASSUME NEW t \in Tasks, Judge(t) PROVE TypeOK' /\ Underway'
  BY <1>11, FinalNames DEF Judge, TypeOK, Underway, Pcs
<1>12. ASSUME NEW t \in Tasks, TryAgain(t) PROVE TypeOK' /\ Underway'
  BY <1>12 DEF TryAgain, TypeOK, Underway, Pcs
<1>13. CASE UNCHANGED vars
  BY <1>13 DEF vars, TypeOK, Underway
<1> QED
  BY <1>1, <1>2, <1>3, <1>4, <1>5, <1>6, <1>7, <1>8, <1>9, <1>10, <1>11, <1>12, <1>13,
     <1>14 DEF Next

LEMMA TypeInit == Init => TypeOK /\ Underway
BY GateAssumption DEF Init, TypeOK, Underway, Texts, Pcs, Inputs

(* The gate's state stays well-formed; a required file is looked at and a  *)
(* command is run at most once per verification.                           *)
THEOREM TypeCorrect == Spec => []TypeOK
BY TypeInit, TypeStep, PTL DEF Spec

-----------------------------------------------------------------------------
(* The verdict                                                             *)

(* The checks that need no look at the workspace.                          *)
Asked(t) ==
  /\ input[t].stated
  /\ spec[t].executable \/ spec[t].tool => used[t]
  /\ spec[t].telemetry => input[t].delivered

(* Those on the commands before the first one runs.                        *)
Declared(t) == (spec[t].executable => spec[t].commands # <<>>) /\ Authorized(t)

(* At every phase of a verification no check has failed so far exactly if  *)
(* all that was looked at so far was in order; commands that could not be  *)
(* authorized never succeed.                                               *)
Tally(t) ==
  /\ pc[t] = "files" =>
       /\ exits[t] = <<>>
       /\ errors[t] = {} <=> Asked(t) /\ All(seen[t])
  /\ pc[t] \in {"commands", "running", "judged"} =>
       /\ Len(seen[t]) = Len(spec[t].files)
       /\ ~Authorized(t) => \A i \in DOMAIN exits[t] : ~exits[t][i]
  /\ pc[t] \in {"commands", "running"} =>
       errors[t] = {} <=> Asked(t) /\ All(seen[t]) /\ Declared(t) /\ All(exits[t])
  /\ pc[t] = "running" => Authorized(t)
  /\ pc[t] = "judged" =>
       /\ Len(exits[t]) = Len(spec[t].commands)
       /\ errors[t] = {} <=>
            Asked(t) /\ All(seen[t]) /\ Declared(t) /\ All(exits[t]) /\ FinalErrors(t) = {}

TallyInv == \A t \in Tasks : Tally(t)

(* What Tally(t) reads.                                                    *)
Unmoved(t) ==
  /\ spec'[t] = spec[t] /\ pc'[t] = pc[t] /\ used'[t] = used[t] /\ input'[t] = input[t]
  /\ seen'[t] = seen[t] /\ exits'[t] = exits[t] /\ errors'[t] = errors[t]

LEMMA TallyFrame ==
  ASSUME NEW t \in Tasks, Tally(t), Unmoved(t)
  PROVE  Tally(t)'
BY DEF Tally, Unmoved, Asked, Declared, Authorized, CommandsOf, FinalErrors, Artifacts,
       WiringShown, All, Failing

(* Nothing is noted exactly if the check passed.                           *)
LEMMA FailingEmpty ==
  ASSUME NEW name, NEW passed \in BOOLEAN
  PROVE  Failing(name, passed) = {} <=> passed
BY DEF Failing

(* The new errors of a step that notes one check.                          *)
LEMMA NoteCheck ==
  ASSUME NEW old, NEW name, NEW passed \in BOOLEAN, NEW new,
         new = old \cup Failing(name, passed)
  PROVE  new = {} <=> old = {} /\ passed
BY DEF Failing

(* A sequence of results is all TRUE exactly if it is the constant one.    *)
LEMMA AllTrue ==
  ASSUME NEW results \in Seq(BOOLEAN), NEW S, NEW planned \in Seq(S),
         Len(results) = Len(planned)
  PROVE  results = [i \in DOMAIN planned |-> TRUE] <=> All(results)
<1>1. DOMAIN results = DOMAIN planned
  OBVIOUS
<1>2. \A i \in DOMAIN results : results[i] \in BOOLEAN
  OBVIOUS
<1>3. results = [i \in DOMAIN results |-> results[i]]
  OBVIOUS
<1>4. ASSUME All(results) PROVE results = [i \in DOMAIN planned |-> TRUE]
  <2>1. \A i \in DOMAIN results : results[i] = TRUE
    BY <1>2, <1>4, Zenon DEF All
  <2> QED
    BY <1>1, <1>3, <2>1, Zenon
<1>5. ASSUME results = [i \in DOMAIN planned |-> TRUE] PROVE All(results)
  BY <1>1, <1>5, Zenon DEF All
<1> QED
  BY <1>4, <1>5

(* The result of a command is tallied, whether it ran or was refused.      *)
LEMMA TallyResult ==
  ASSUME TypeOK, NEW t \in Tasks, NEW ok \in BOOLEAN, Tally(t), Observe(t, ok),
         pc[t] \in {"commands", "running"}, Len(exits[t]) < Len(spec[t].commands),
         ok => Authorized(t),
         pc'[t] = "commands", spec' = spec, used' = used, input' = input, seen' = seen
  PROVE  Tally(t)'
<1>1. /\ exits'[t] = Append(exits[t], ok)
      /\ errors'[t] = errors[t] \cup Failing("command", ok)
  BY ObserveType
<1>2. errors'[t] = {} <=> errors[t] = {} /\ ok
  BY <1>1, NoteCheck
<1>3. All(exits'[t]) <=> All(exits[t]) /\ ok
  BY <1>1, AppendResult DEF TypeOK
<1>4. /\ Asked(t)' <=> Asked(t)
      /\ Declared(t)' <=> Declared(t)
      /\ Authorized(t)' <=> Authorized(t)
  BY DEF Asked, Declared, Authorized, CommandsOf
<1>5. ~Authorized(t) => \A i \in DOMAIN exits'[t] : ~exits'[t][i]
  <2>1. SUFFICES ASSUME ~Authorized(t), NEW i \in DOMAIN exits'[t] PROVE ~exits'[t][i]
    OBVIOUS
  <2>2. \A j \in DOMAIN exits[t] : ~exits[t][j]
    BY <2>1 DEF Tally
  <2>3. ok = FALSE
    BY <2>1
  <2> QED
    BY <1>1, <2>1, <2>2, <2>3 DEF TypeOK
<1> QED
  BY <1>1, <1>2, <1>3, <1>4, <1>5 DEF Tally

(* The phases of a verification keep the tally.                            *)
LEMMA TallyStep ==
  TypeOK /\ Underway /\ TallyInv /\ [Next]_vars => TallyInv'
<1> SUFFICES ASSUME TypeOK, Underway, TallyInv, [Next]_vars, NEW u \in Tasks
             PROVE  Tally(u)'
  BY DEF TallyInv
<1>0. Tally(u)
  BY DEF TallyInv
<1>1. ASSUME NEW t \in Tasks, NEW f \in Files, Edit(t, f) PROVE Tally(u)'
  BY <1>1, <1>0, TallyFrame DEF Edit, TypeOK, Unmoved, Tally
<1>2. ASSUME NEW t \in Tasks, NEW f \in Files, Write(t, f) PROVE Tally(u)'
  BY <1>2, <1>0, TallyFrame DEF Write, TypeOK, Unmoved, Tally
<1>3. ASSUME NEW t \in Tasks, NEW f \in Files, CheckerWrites(t, f) PROVE Tally(u)'
  BY <1>3, <1>0, TallyFrame DEF CheckerWrites, Unmoved
<1>14. ASSUME NEW t \in Tasks, NEW d \in Dirs, CheckerMoves(t, d) PROVE Tally(u)'
  BY <1>14, <1>0, TallyFrame DEF CheckerMoves, Unmoved
<1>4. ASSUME NEW t \in Tasks, ReadOrList(t) PROVE Tally(u)'
  BY <1>4, <1>0, TallyFrame DEF ReadOrList, TypeOK, Unmoved, Tally
<1>5. ASSUME NEW t \in Tasks, Verify(t) PROVE Tally(u)'
  <2>1. CASE u # t
    BY <1>5, <2>1, <1>0, TallyFrame DEF Verify, TypeOK, Unmoved
  <2>2. CASE u = t
    <3>1. PICK in \in Inputs :
          /\ input' = [input EXCEPT ![t] = in]
          /\ errors' = [errors EXCEPT ![t] =
               Failing("stated", in.stated)
               \cup Failing("tool_loop_used", spec[t].executable \/ spec[t].tool => used[t])
               \cup Failing("telemetry", spec[t].telemetry => in.delivered)]
      BY <1>5 DEF Verify
    <3>2. input'[t] = in
      BY <3>1 DEF TypeOK
    <3>3. errors'[t] = {} <=>
            /\ in.stated
            /\ spec[t].executable \/ spec[t].tool => used[t]
            /\ spec[t].telemetry => in.delivered
      BY <3>1 DEF TypeOK, Failing
    <3>4. /\ pc'[t] = "files" /\ exits'[t] = <<>> /\ seen'[t] = <<>>
          /\ spec'[t] = spec[t] /\ used'[t] = used[t]
      BY <1>5 DEF Verify, TypeOK
    <3>5. All(seen'[t])
      BY <3>4 DEF All
    <3> QED
      BY <2>2, <3>2, <3>3, <3>4, <3>5 DEF Tally, Asked
  <2> QED
    BY <2>1, <2>2
<1>6. ASSUME NEW t \in Tasks, LookAtFile(t) PROVE Tally(u)'
  <2> DEFINE there == Exists(spec[t].files[Len(seen[t]) + 1])
  <2>1. CASE u # t
    BY <1>6, <2>1, <1>0, TallyFrame DEF LookAtFile, TypeOK, Unmoved
  <2>2. CASE u = t
    <3>1. there \in BOOLEAN
      BY DEF Exists
    <3>2. /\ seen'[t] = Append(seen[t], there)
          /\ errors'[t] = errors[t] \cup Failing("required_file", there)
          /\ pc[t] = "files" /\ pc'[t] = "files" /\ exits'[t] = exits[t]
          /\ spec'[t] = spec[t] /\ used'[t] = used[t] /\ input'[t] = input[t]
      BY <1>6 DEF LookAtFile, TypeOK
    <3> HIDE DEF there
    <3>3. errors'[t] = {} <=> errors[t] = {} /\ there
      BY <3>1, <3>2, NoteCheck
    <3>4. All(seen'[t]) <=> All(seen[t]) /\ there
      BY <3>1, <3>2, AppendResult DEF TypeOK
    <3>5. exits[t] = <<>> /\ (errors[t] = {} <=> Asked(t) /\ All(seen[t]))
      BY <1>0, <2>2, <3>2 DEF Tally
    <3>6. Asked(t)' <=> Asked(t)
      BY <3>2 DEF Asked
    <3> QED
      BY <2>2, <3>2, <3>3, <3>4, <3>5, <3>6 DEF Tally
  <2> QED
    BY <2>1, <2>2
<1>7. ASSUME NEW t \in Tasks, Authorize(t) PROVE Tally(u)'
  <2>1. CASE u # t
    BY <1>7, <2>1, <1>0, TallyFrame DEF Authorize, TypeOK, Unmoved
  <2>2. CASE u = t
    <3>1. /\ pc[t] = "files" /\ pc'[t] = "commands" /\ Len(seen[t]) = Len(spec[t].files)
          /\ spec'[t] = spec[t] /\ used'[t] = used[t] /\ input'[t] = input[t]
          /\ seen'[t] = seen[t] /\ exits'[t] = exits[t]
      BY <1>7 DEF Authorize, TypeOK
    <3>2. errors'[t] = {} <=> errors[t] = {} /\ Declared(t)
      BY <1>7 DEF Authorize, TypeOK, Failing, Declared
    <3>3. exits[t] = <<>> /\ (errors[t] = {} <=> Asked(t) /\ All(seen[t]))
      BY <1>0, <2>2, <3>1 DEF Tally
    <3>4. /\ Asked(t)' <=> Asked(t)
          /\ Declared(t)' <=> Declared(t)
          /\ All(exits[t])' /\ \A i \in DOMAIN exits'[t] : ~exits'[t][i]
      BY <3>1, <3>3 DEF Asked, Declared, Authorized, CommandsOf, All
    <3> QED
      BY <2>2, <3>1, <3>2, <3>3, <3>4 DEF Tally
  <2> QED
    BY <2>1, <2>2
<1>8. ASSUME NEW t \in Tasks, StartCommand(t) PROVE Tally(u)'
  <2>1. CASE u # t
    BY <1>8, <2>1, <1>0, TallyFrame DEF StartCommand, TypeOK, Unmoved
  <2>2. CASE u = t
    <3>1. /\ pc[t] = "commands" /\ pc'[t] = "running" /\ Authorized(t)
          /\ spec'[t] = spec[t] /\ used'[t] = used[t] /\ input'[t] = input[t]
          /\ seen'[t] = seen[t] /\ exits'[t] = exits[t] /\ errors'[t] = errors[t]
      BY <1>8 DEF StartCommand, MoreCommands, MayRun, TypeOK
    <3>2. /\ Asked(t)' <=> Asked(t)
          /\ Declared(t)' <=> Declared(t)
          /\ Authorized(t)' <=> Authorized(t)
      BY <3>1 DEF Asked, Declared, Authorized, CommandsOf
    <3> QED
      BY <1>0, <2>2, <3>1, <3>2 DEF Tally
  <2> QED
    BY <2>1, <2>2
<1>9. ASSUME NEW t \in Tasks, RefuseCommand(t) PROVE Tally(u)'
  <2>0. Observe(t, FALSE) /\ Len(exits[t]) < Len(spec[t].commands) /\ pc[t] = "commands"
    BY <1>9 DEF RefuseCommand, MoreCommands
  <2>1. CASE u # t
    BY <1>9, <2>0, <2>1, <1>0, TallyFrame, ObserveType DEF RefuseCommand, TypeOK, Unmoved
  <2>2. CASE u = t
    <3> QED
      BY <1>9, <2>0, <2>2, <1>0, TallyResult DEF RefuseCommand
  <2> QED
    BY <2>1, <2>2
<1>10. ASSUME NEW t \in Tasks, FinishCommand(t) PROVE Tally(u)'
  <2>0. PICK ok \in BOOLEAN : Observe(t, ok)
    BY <1>10 DEF FinishCommand
  <2>3. Len(exits[t]) < Len(spec[t].commands)
    BY <1>10 DEF FinishCommand, Underway
  <2>1. CASE u # t
    BY <1>10, <2>0, <2>1, <2>3, <1>0, TallyFrame, ObserveType DEF FinishCommand, TypeOK, Unmoved
  <2>2. CASE u = t
    <3>1. pc[t] = "running" /\ pc'[t] = "commands" /\ spec' = spec /\ used' = used
          /\ input' = input /\ seen' = seen
      BY <1>10 DEF FinishCommand, TypeOK
    <3> QED
      BY <2>0, <2>3, <2>2, <3>1, <1>0, TallyResult DEF Tally
  <2> QED
    BY <2>1, <2>2
<1>11. ASSUME NEW t \in Tasks, Judge(t) PROVE Tally(u)'
  <2>1. CASE u # t
    BY <1>11, <2>1, <1>0, TallyFrame DEF Judge, TypeOK, Unmoved
  <2>2. CASE u = t
    <3>1. /\ pc[t] = "commands" /\ pc'[t] = "judged" /\ Len(exits[t]) = Len(spec[t].commands)
          /\ spec'[t] = spec[t] /\ used'[t] = used[t] /\ input'[t] = input[t]
          /\ seen'[t] = seen[t] /\ exits'[t] = exits[t]
      BY <1>11 DEF Judge, TypeOK
    <3>2. errors'[t] = errors[t] \cup FinalErrors(t)
      BY <1>11 DEF Judge, TypeOK
    <3>3. /\ Asked(t)' <=> Asked(t)
          /\ Declared(t)' <=> Declared(t)
          /\ Authorized(t)' <=> Authorized(t)
      BY <3>1 DEF Asked, Declared, Authorized, CommandsOf
    <3>4. FinalErrors(t)' = FinalErrors(t)
      BY <3>1 DEF FinalErrors, Artifacts, WiringShown, All, Failing
    <3> QED
      BY <1>0, <2>2, <3>1, <3>2, <3>3, <3>4 DEF Tally
  <2> QED
    BY <2>1, <2>2
<1>12. ASSUME NEW t \in Tasks, TryAgain(t) PROVE Tally(u)'
  <2>1. CASE u # t
    BY <1>12, <2>1, <1>0, TallyFrame DEF TryAgain, TypeOK, Unmoved
  <2>2. CASE u = t
    BY <1>12, <2>2 DEF TryAgain, TypeOK, Tally
  <2> QED
    BY <2>1, <2>2
<1>13. CASE UNCHANGED vars
  BY <1>13, <1>0, TallyFrame DEF vars, Unmoved
<1> QED
  BY <1>1, <1>2, <1>3, <1>4, <1>5, <1>6, <1>7, <1>8, <1>9, <1>10, <1>11, <1>12, <1>13,
     <1>14 DEF Next

(* At the end the tally says what Acceptable says.                         *)
LEMMA TallyDecides ==
  ASSUME TypeOK, NEW t \in Tasks, Tally(t), pc[t] = "judged"
  PROVE  Passed(t) <=> Acceptable(t)
<1> DEFINE s == spec[t]
<1>1. /\ Len(seen[t]) = Len(s.files) /\ Len(exits[t]) = Len(s.commands)
      /\ ~Authorized(t) => \A i \in DOMAIN exits[t] : ~exits[t][i]
      /\ Passed(t) <=>
           Asked(t) /\ All(seen[t]) /\ Declared(t) /\ All(exits[t]) /\ FinalErrors(t) = {}
  BY DEF Tally, Passed
<1>2. seen[t] \in Seq(BOOLEAN) /\ exits[t] \in Seq(BOOLEAN)
  BY DEF TypeOK
<1>3. /\ seen[t] = [i \in DOMAIN s.files |-> TRUE] <=> All(seen[t])
      /\ exits[t] = [i \in DOMAIN s.commands |-> TRUE] <=> All(exits[t])
  BY <1>1, <1>2, SpecFields, AllTrue
<1>4. All(exits[t]) => Authorized(t)
  <2>1. SUFFICES ASSUME All(exits[t]), ~Authorized(t) PROVE FALSE
    OBVIOUS
  <2>2. DOMAIN exits[t] = {}
    BY <1>1, <2>1 DEF All
  <2>3. DOMAIN s.commands = {}
    BY <1>1, <1>2, <2>2, SpecFields
  <2> QED
    BY <2>1, <2>3 DEF Authorized, CommandsOf
<1>5. CASE ~s.executable
  BY <1>1, <1>3, <1>4, <1>5 DEF Acceptable, Asked, Declared, FinalErrors
<1>6. CASE s.executable
  <2>1. FinalErrors(t) = {} <=>
          exits[t] # <<>> /\ All(exits[t]) /\ (Artifacts(t) \/ WiringShown(t))
    BY <1>6 DEF FinalErrors, Failing
  <2>2. exits[t] # <<>> <=> s.commands # <<>>
    BY <1>1, <1>2, SpecFields
  <2>3. seen[t] # <<>> <=> s.files # <<>>
    BY <1>1, <1>2, SpecFields
  <2>4. ASSUME All(exits[t])
        PROVE  WiringShown(t) <=> CommandsOf(t) \cap Wiring # {}
    <3>1. DOMAIN exits[t] = DOMAIN s.commands
      BY <1>1, <1>2, SpecFields
    <3> QED
      BY <2>4, <3>1 DEF WiringShown, CommandsOf, All
  <2> QED
    BY <1>1, <1>3, <1>4, <1>6, <2>1, <2>2, <2>3, <2>4
       DEF Acceptable, Asked, Declared, Artifacts
<1> QED
  BY <1>5, <1>6

(* "Return a fail-closed verdict" (verification.py): the gate passes what  *)
(* is acceptable and nothing else.                                         *)
THEOREM VerdictIsExact == Spec => []VerdictExact
<1>1. Init => TallyInv
  BY DEF Init, TallyInv, Tally
<1>2. TypeOK /\ TallyInv => VerdictExact
  BY TallyDecides DEF TallyInv, VerdictExact
<1> QED
  BY <1>1, <1>2, TypeInit, TypeStep, TallyStep, PTL DEF Spec

-----------------------------------------------------------------------------
(* The checker's text                                                      *)

(* A file every task protects with all the directories above it keeps the  *)
(* text the human put there, and so does what is compiled from it.         *)
KeptInv ==
  \A f \in Files : Sealed(f) =>
    /\ ws[f] # "changed"
    /\ \A t \in Tasks :
         /\ pc[t] = "running" /\ CheckerOf[NextCommand(t)] = f => code[t] # "changed"
         /\ <<f, "changed">> \notin ran[t]

LEMMA KeptStep ==
  TypeOK /\ Underway /\ KeptInv /\ [Next]_vars => KeptInv'
<1> SUFFICES ASSUME TypeOK, Underway, KeptInv, [Next]_vars, NEW f \in Files, Sealed(f)
             PROVE  /\ ws'[f] # "changed"
                    /\ \A t \in Tasks :
                         /\ pc'[t] = "running" /\ CheckerOf[NextCommand(t)'] = f
                              => code'[t] # "changed"
                         /\ <<f, "changed">> \notin ran'[t]
  BY DEF KeptInv, Sealed
<1>s. \A u \in Tasks : \A p \in {f} \cup Above[f] : Guarded(u, p)
  BY DEF Sealed, Guarded
<1> DEFINE Goal == /\ ws'[f] # "changed"
                   /\ \A t \in Tasks :
                        /\ pc'[t] = "running" /\ CheckerOf[NextCommand(t)'] = f
                             => code'[t] # "changed"
                        /\ <<f, "changed">> \notin ran'[t]
<1>0. /\ ws[f] # "changed"
      /\ \A t \in Tasks :
           /\ pc[t] = "running" /\ CheckerOf[NextCommand(t)] = f => code[t] # "changed"
           /\ <<f, "changed">> \notin ran[t]
  BY DEF KeptInv
<1>1. ASSUME NEW t \in Tasks, NEW g \in Files, Edit(t, g) \/ Write(t, g) \/ CheckerWrites(t, g)
      PROVE  Goal
  <2>1. g # f
    BY <1>1, <1>s DEF Edit, Write, CheckerWrites
  <2>2. ws'[f] = ws[f] /\ pc' = pc /\ exits' = exits /\ spec' = spec /\ code' = code /\ ran' = ran
    BY <1>1, <2>1 DEF Edit, Write, CheckerWrites, TypeOK
  <2> QED
    BY <1>0, <2>2 DEF NextCommand
<1>10. ASSUME NEW t \in Tasks, NEW d \in Dirs, CheckerMoves(t, d) PROVE Goal
  <2>1. f \notin Below(d)
    BY <1>10, <1>s DEF CheckerMoves, Below
  <2>2. ws'[f] = ws[f]
    BY <1>10, <2>1 DEF CheckerMoves
  <2> QED
    BY <1>0, <1>10, <2>2 DEF CheckerMoves, NextCommand
<1>2. ASSUME NEW t \in Tasks, ReadOrList(t) PROVE Goal
  BY <1>2, <1>0 DEF ReadOrList, NextCommand
<1>3. ASSUME NEW t \in Tasks, Verify(t) PROVE Goal
  <2>1. pc' = [pc EXCEPT ![t] = "files"] /\ exits' = [exits EXCEPT ![t] = <<>>]
        /\ ran' = [ran EXCEPT ![t] = {}] /\ ws' = ws /\ spec' = spec /\ code' = code
    BY <1>3 DEF Verify
  <2>2. \A u \in Tasks : pc'[u] = "running" => u # t /\ pc[u] = "running" /\ exits'[u] = exits[u]
    BY <2>1 DEF TypeOK
  <2>3. \A u \in Tasks : ran'[u] \subseteq ran[u]
    BY <2>1 DEF TypeOK
  <2> QED
    BY <1>0, <2>1, <2>2, <2>3 DEF NextCommand
<1>4. ASSUME NEW t \in Tasks, LookAtFile(t) PROVE Goal
  BY <1>4, <1>0 DEF LookAtFile, NextCommand
<1>5. ASSUME NEW t \in Tasks, Authorize(t) \/ Judge(t) \/ TryAgain(t) PROVE Goal
  <2>1. \A u \in Tasks : pc'[u] = "running" => pc[u] = "running"
    BY <1>5 DEF Authorize, Judge, TryAgain, TypeOK
  <2> QED
    BY <1>5, <1>0, <2>1 DEF Authorize, Judge, TryAgain, NextCommand
<1>6. ASSUME NEW t \in Tasks, StartCommand(t) PROVE Goal
  <2>1. \A u \in Tasks \ {t} : pc'[u] = pc[u] /\ code'[u] = code[u]
    BY <1>6 DEF StartCommand, TypeOK
  <2>2. code'[t] = ws[CheckerOf[NextCommand(t)]]
    BY <1>6 DEF StartCommand, TypeOK
  <2> QED
    BY <1>6, <1>0, <2>1, <2>2 DEF StartCommand, NextCommand
<1>7. ASSUME NEW t \in Tasks, RefuseCommand(t) PROVE Goal
  <2>1. Observe(t, FALSE) /\ Len(exits[t]) < Len(spec[t].commands) /\ pc[t] = "commands"
    BY <1>7 DEF RefuseCommand, MoreCommands
  <2>2. \A u \in Tasks \ {t} : exits'[u] = exits[u]
    BY <2>1, ObserveType
  <2> QED
    BY <1>7, <1>0, <2>1, <2>2 DEF RefuseCommand, NextCommand
<1>8. ASSUME NEW t \in Tasks, FinishCommand(t) PROVE Goal
  <2>0. PICK ok \in BOOLEAN :
          /\ Observe(t, ok)
          /\ ran' = [ran EXCEPT ![t] =
               IF ok THEN @ \cup {<<CheckerOf[NextCommand(t)], code[t]>>} ELSE @]
    BY <1>8 DEF FinishCommand
  <2>1. pc[t] = "running" /\ Len(exits[t]) < Len(spec[t].commands) /\ ws' = ws /\ spec' = spec
    BY <1>8 DEF FinishCommand, Underway
  <2>2. pc'[t] = "commands"
        /\ \A u \in Tasks \ {t} : exits'[u] = exits[u] /\ pc'[u] = pc[u] /\ code'[u] = code[u]
    BY <1>8, <2>0, <2>1, ObserveType DEF FinishCommand, TypeOK
  <2>3. \A u \in Tasks : <<f, "changed">> \notin ran'[u]
    <3>1. ASSUME NEW u \in Tasks, u # t PROVE <<f, "changed">> \notin ran'[u]
      BY <2>0, <3>1, <1>0 DEF TypeOK
    <3>2. <<f, "changed">> # <<CheckerOf[NextCommand(t)], code[t]>>
      BY <1>0, <2>1
    <3>3. <<f, "changed">> \notin ran'[t]
      BY <2>0, <3>2, <1>0 DEF TypeOK
    <3> QED
      BY <3>1, <3>3
  <2> QED
    BY <1>0, <2>1, <2>2, <2>3 DEF NextCommand
<1>9. CASE UNCHANGED vars
  BY <1>9, <1>0 DEF vars, NextCommand
<1> QED
  BY <1>1, <1>2, <1>3, <1>4, <1>5, <1>6, <1>7, <1>8, <1>9, <1>10 DEF Next

(* The verifier may not be the thing that was edited: a passing verdict    *)
(* over files every task protects, with the directories they lie in, comes *)
(* from the human's own checker.                                           *)
THEOREM CheckersAreGenuine == Spec => []GenuineChecker
<1>1. Init => KeptInv
  BY DEF Init, KeptInv
<1>2. KeptInv => GenuineChecker
  BY DEF KeptInv, GenuineChecker
<1> QED
  BY <1>1, <1>2, TypeInit, TypeStep, KeptStep, PTL DEF Spec
=============================================================================
