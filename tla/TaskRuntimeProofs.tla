-------------------------- MODULE TaskRuntimeProofs --------------------------
(***************************************************************************)
(* What TLAPS proves about TaskRuntime and about AcceptancePoll, its       *)
(* client, for every value of their constants:                             *)
(*   1. types, and the human gate;                                         *)
(*   2. that what a task's row says is backed by what its executions did;  *)
(*   3. the refinement of TaskLifecycle;                                   *)
(*   4. the client: its skips, its requests and its reports.               *)
(***************************************************************************)
EXTENDS AcceptancePoll, TLAPS

-----------------------------------------------------------------------------
(* The operators the actions are built from keep the types.                 *)

(* A row that is not in the journal has the type of a row.                  *)
LEMMA EmptyRowType ==
  ASSUME NEW store \in {"none", "live", "expired", "deleted"}
  PROVE  EmptyRow(store) \in Rows
BY BoundsAssumption DEF EmptyRow, Rows, Verdicts, NoVerdict, Statuses

(* Journal.put writes a row.                                                *)
LEMMA PutType ==
  ASSUME NEW t \in Rows, row \in Rows, Put(t)
  PROVE  row' \in Rows
BY DEF Put, Rows

(* Journal.get of a missing row leaves a row.                               *)
LEMMA ForgetType ==
  ASSUME row \in Rows, Forget
  PROVE  row' \in Rows
BY EmptyRowType DEF Forget

(* _record keeps the row and the sinks' history typed.                      *)
LEMMA RecordType ==
  ASSUME TypeOK, NEW acks \in SUBSET Sinks, Record(acks)
  PROVE  row' \in Rows /\ acked' \subseteq Sinks
<1>1. [row EXCEPT !.tel = @ \cup acks] \in Rows
  BY DEF TypeOK, Rows
<1>2. row' \in Rows
  BY <1>1, PutType, ForgetType DEF Record, TypeOK
<1> QED
  BY <1>2 DEF Record, TypeOK

(* The waits the code computes lie in the modelled range.                   *)
LEMMA WaitRange == 0 \in 0..RetryDelay /\ RetryDelay \in 0..RetryDelay
BY BoundsAssumption

(* The fields an action writes into a row keep it a row.                    *)
LEMMA StatusType ==
  ASSUME NEW t \in Rows, NEW s \in Statuses, NEW w \in 0..RetryDelay
  PROVE  [t EXCEPT !.status = s, !.wait = w] \in Rows
BY DEF Rows

(* A generation stays a natural number when it is incremented.              *)
LEMMA GenType ==
  ASSUME NEW t \in Rows
  PROVE  t.gen \in Nat /\ t.gen + 1 \in Nat
BY DEF Rows

(* Time passing keeps a row a row, and a run's locals its locals.           *)
LEMMA LessType ==
  /\ \A t \in Rows : [t EXCEPT !.wait = Less(@)] \in Rows
  /\ \A c \in Ctxs : [c EXCEPT !.wake = Less(@)] \in Ctxs
<1>1. ASSUME NEW t \in Rows PROVE [t EXCEPT !.wait = Less(@)] \in Rows
  BY BoundsAssumption DEF Rows, Less
<1>2. ASSUME NEW c \in Ctxs PROVE [c EXCEPT !.wake = Less(@)] \in Ctxs
  BY BoundsAssumption DEF Ctxs, Less
<1> QED
  BY <1>1, <1>2

(* Logging an outcome keeps the log typed.                                  *)
LEMMA OutcomeType ==
  ASSUME TypeOK, NEW r \in Runs, NEW ok \in BOOLEAN, LogOutcome(r, ok)
  PROVE  outcomes' \in Seq([gen : Nat, ok : BOOLEAN])
<1>1. task[r].gen \in Nat
  BY GenType DEF TypeOK
<1> QED
  BY <1>1 DEF LogOutcome, TypeOK

(* A run starts with locals of the right type.                              *)
LEMMA NoCtxType == NoCtx \in Ctxs
BY BoundsAssumption DEF NoCtx, Ctxs

(* Leaving run() keeps the locals, the lock and the pc typed.               *)
LEMMA LeaveType ==
  ASSUME TypeOK, NEW r \in Runs, NEW place \in Pcs, Leave(r, place)
  PROVE  /\ lock' \in Runs \cup {Free}
         /\ pc' \in [Runs -> Pcs]
         /\ task' \in [Runs -> Rows]
         /\ ctx' \in [Runs -> Ctxs]
<1>1. EmptyRow("none") \in Rows
  BY EmptyRowType
<1>2. NoCtx \in Ctxs
  BY NoCtxType
<1> QED
  BY <1>1, <1>2 DEF Leave, Goto, TypeOK

(* So does an exception that escapes run().                                 *)
LEMMA RaiseType ==
  ASSUME TypeOK, NEW r \in Runs, Raise(r)
  PROVE  /\ row' \in Rows
         /\ lock' \in Runs \cup {Free}
         /\ pc' \in [Runs -> Pcs]
         /\ task' \in [Runs -> Rows]
         /\ ctx' \in [Runs -> Ctxs]
<1>1. [row EXCEPT !.status = "failed"] \in Rows
  BY DEF TypeOK, Rows, Statuses
<1>2. row' \in Rows
  BY <1>1, PutType, ForgetType DEF Raise, TypeOK
<1>3. \E place \in {"recFailure", "idle"} : Leave(r, place)
  BY DEF Raise
<1>4. {"recFailure", "idle"} \subseteq Pcs
  BY DEF Pcs
<1> QED
  BY <1>2, <1>3, <1>4, LeaveType

-----------------------------------------------------------------------------
(* Every step keeps the type invariant: one step of the proof per action.   *)
LEMMA TypeStep == TypeOK /\ [Next]_vars => TypeOK'
<1> SUFFICES ASSUME TypeOK, [Next]_vars PROVE TypeOK'
  OBVIOUS
<1>0. /\ row \in Rows /\ lock \in Runs \cup {Free} /\ pc \in [Runs -> Pcs]
      /\ task \in [Runs -> Rows] /\ ctx \in [Runs -> Ctxs]
      /\ receipts \in Seq(Nat) /\ acked \subseteq Sinks /\ toolRan \in BOOLEAN
      /\ RetryDelay \in Nat \ {0} /\ MaxToolRounds \in Nat
  BY BoundsAssumption DEF TypeOK
<1>1. ASSUME NEW r \in Runs, Submit(r) PROVE TypeOK'
  <2>1. PICK ambiguous \in BOOLEAN :
          Put([EmptyRow("none") EXCEPT !.ambiguous = ambiguous,
                 !.status = IF ambiguous THEN "waiting_for_human" ELSE "ready"])
    BY <1>1 DEF Submit
  <2>2. [EmptyRow("none") EXCEPT !.ambiguous = ambiguous,
           !.status = IF ambiguous THEN "waiting_for_human" ELSE "ready"] \in Rows
    BY EmptyRowType DEF Rows, Statuses
  <2>3. row' \in Rows
    BY <2>1, <2>2, <1>0, PutType
  <2> QED
    BY <1>1, <2>3 DEF Submit, Goto, TypeOK, Pcs
<1>2. ASSUME NEW r \in Runs, Answer(r) PROVE TypeOK'
  <2>1. PICK ambiguous \in BOOLEAN :
          Put([row EXCEPT !.ambiguous = ambiguous,
                 !.status = IF ambiguous THEN "waiting_for_human" ELSE "ready"])
    BY <1>2 DEF Answer
  <2>2. [row EXCEPT !.ambiguous = ambiguous,
           !.status = IF ambiguous THEN "waiting_for_human" ELSE "ready"] \in Rows
    BY <1>0 DEF Rows, Statuses
  <2>3. row' \in Rows
    BY <2>1, <2>2, <1>0, PutType
  <2> QED
    BY <1>2, <2>3 DEF Answer, Goto, TypeOK, Pcs
<1>3. ASSUME NEW r \in Runs, RequestDone(r) PROVE TypeOK'
  <2>1. row' \in Rows /\ acked' \subseteq Sinks
    BY <1>3, RecordType DEF RequestDone
  <2>2. pc' \in [Runs -> Pcs]
    BY <1>0, <1>3 DEF RequestDone, Goto, Pcs
  <2> QED
    BY <1>3, <2>1, <2>2 DEF RequestDone, TypeOK
<1>4. ASSUME NEW r \in Runs, PostRun(r) PROVE TypeOK'
  BY <1>4 DEF PostRun, Goto, TypeOK, Pcs
<1>5. CASE Poll
  BY <1>5, ForgetType, <1>0 DEF Poll, TypeOK
<1>6. ASSUME NEW r \in Runs, Acquire(r) PROVE TypeOK'
  <2>1. CASE MayExecute /\ lock' = r /\ Goto(r, "top")
             /\ task' = [task EXCEPT ![r] = row]
             /\ ctx' = [ctx EXCEPT ![r] = [NoCtx EXCEPT !.start = row.gen]]
             /\ UNCHANGED row
    <3>0. row.gen \in Nat
      BY <1>0, GenType
    <3>1. [NoCtx EXCEPT !.start = row.gen] \in Ctxs
      BY <1>0, <3>0, NoCtxType DEF Ctxs
    <3> QED
      BY <1>6, <2>1, <3>1, <1>0 DEF Acquire, Goto, TypeOK, Pcs, LockPcs, Midway
  <2>2. CASE Leave(r, "idle") /\ UNCHANGED row
    BY <1>6, <2>2, LeaveType DEF Acquire, TypeOK, Pcs
  <2>3. CASE Raise(r)
    BY <1>6, <2>3, RaiseType DEF Acquire, TypeOK
  <2> QED
    BY <1>6, <2>1, <2>2, <2>3 DEF Acquire
<1>7. ASSUME NEW r \in Runs, LoopTop(r) PROVE TypeOK'
  <2>1. CASE Live
    <3>1. [row EXCEPT !.status = "running", !.wait = 0] \in Rows
      BY <1>0, StatusType, WaitRange DEF Statuses
    <3>2. row' \in Rows
      BY <1>7, <2>1, <3>1, <1>0, PutType DEF LoopTop
    <3> QED
      BY <1>7, <2>1, <3>2, <1>0 DEF LoopTop, Goto, TypeOK, Pcs, LockPcs
  <2>2. CASE ~Live
    BY <1>7, <2>2, RaiseType DEF LoopTop, TypeOK
  <2> QED
    BY <2>1, <2>2
<1>8. ASSUME NEW r \in Runs, WindowExhausted(r) PROVE TypeOK'
  <2>1. CASE Live
    <3>1. [row EXCEPT !.status = "waiting_for_model", !.wait = RetryDelay] \in Rows
      BY <1>0, StatusType, WaitRange DEF Statuses
    <3>2. row' \in Rows
      BY <1>8, <2>1, <3>1, <1>0, PutType DEF WindowExhausted
    <3> QED
      BY <1>8, <2>1, <3>2, <1>0 DEF WindowExhausted, Goto, TypeOK, Pcs, LockPcs, RunRecords
  <2>2. CASE ~Live
    BY <1>8, <2>2, RaiseType DEF WindowExhausted, TypeOK
  <2> QED
    BY <2>1, <2>2
<1>9. ASSUME NEW r \in Runs, CatalogRefreshed(r) PROVE TypeOK'
  BY <1>9 DEF CatalogRefreshed, Goto, TypeOK, Pcs, LockPcs, RunRecords
<1>10. ASSUME NEW r \in Runs, CatalogFailed(r) PROVE TypeOK'
  <2>1. [task[r] EXCEPT !.status = "waiting_for_model", !.wait = RetryDelay] \in Rows
    BY <1>0, StatusType, WaitRange DEF Statuses
  <2>2. row' \in Rows
    BY <1>10, <2>1, <1>0, PutType DEF CatalogFailed
  <2> QED
    BY <1>10, <2>2 DEF CatalogFailed, Goto, TypeOK, Pcs, LockPcs, RunRecords
<1>11. ASSUME NEW r \in Runs, CatalogRecorded(r) PROVE TypeOK'
  <2>1. row' \in Rows /\ acked' \subseteq Sinks
    BY <1>11, RecordType DEF CatalogRecorded
  <2> QED
    BY <1>11, <2>1 DEF CatalogRecorded, Goto, TypeOK, Pcs, LockPcs, Midway
<1>12. ASSUME NEW r \in Runs, Exhausted(r) PROVE TypeOK'
  <2>1. PICK wait \in 1..RetryDelay :
          Put([task[r] EXCEPT !.status = "waiting_for_model", !.wait = wait])
    BY <1>12 DEF Exhausted
  <2>0. wait \in 0..RetryDelay
    BY <1>0
  <2>2. [task[r] EXCEPT !.status = "waiting_for_model", !.wait = wait] \in Rows
    BY <1>0, <2>0, StatusType DEF Statuses
  <2>3. row' \in Rows
    BY <2>1, <2>2, <1>0, PutType
  <2> QED
    BY <1>12, <2>3 DEF Exhausted, Goto, TypeOK, Pcs, LockPcs, RunRecords
<1>13. ASSUME NEW r \in Runs, BeginAttempt(r) PROVE TypeOK'
  <2>0. task[r].gen + 1 \in Nat
    BY <1>0, GenType
  <2>1. [task[r] EXCEPT !.gen = @ + 1, !.status = "running"] \in Rows
    BY <1>0, <2>0 DEF Rows, Statuses
  <2>2. task' \in [Runs -> Rows]
    BY <1>13, <2>1, <1>0 DEF BeginAttempt
  <2>3. row' \in Rows
    BY <1>13, <2>2, <1>0, PutType DEF BeginAttempt
  <2> QED
    BY <1>13, <2>2, <2>3 DEF BeginAttempt, Goto, TypeOK, Pcs, LockPcs, Midway
<1>14. ASSUME NEW r \in Runs, ReceiveAttempt(r) PROVE TypeOK'
  <2>1. receipts' \in Seq(Nat)
    BY <1>14, <1>0, GenType DEF ReceiveAttempt
  <2> QED
    BY <1>14, <2>1, <1>0 DEF ReceiveAttempt, Goto, TypeOK, Pcs, LockPcs, RunRecords, Midway
<1>15. ASSUME NEW r \in Runs, AttemptStarted(r) PROVE TypeOK'
  <2>1. row' \in Rows /\ acked' \subseteq Sinks
    BY <1>15, RecordType DEF AttemptStarted
  <2>2. [ctx[r] EXCEPT !.rounds = 0] \in Ctxs
    <3>1. ctx[r] \in Ctxs /\ 0 \in 0..MaxToolRounds
      BY <1>0
    <3> QED
      BY <3>1 DEF Ctxs
  <2>3. ctx' \in [Runs -> Ctxs]
    BY <1>15, <2>2, <1>0 DEF AttemptStarted
  <2> QED
    BY <1>15, <2>1, <2>3 DEF AttemptStarted, Goto, TypeOK, Pcs, LockPcs
<1>16. ASSUME NEW r \in Runs, ToolCall(r) PROVE TypeOK'
  <2>0. [ctx[r] EXCEPT !.rounds = @ + 1] \in Ctxs
    <3>1. ctx[r].rounds \in 0..MaxToolRounds
      BY <1>0 DEF Ctxs
    <3>2. ctx[r].rounds + 1 \in 0..MaxToolRounds
      BY <1>16, <3>1, <1>0 DEF ToolCall
    <3> QED
      BY <3>2, <1>0 DEF Ctxs
  <2>1. ctx' \in [Runs -> Ctxs]
    BY <1>16, <2>0, <1>0 DEF ToolCall
  <2>2. PICK ok \in BOOLEAN : /\ toolRan' = (toolRan \/ ok)
                             /\ task' = [task EXCEPT ![r].used = @ \/ ok]
    BY <1>16 DEF ToolCall
  <2>3. toolRan' \in BOOLEAN
    BY <2>2, <1>0
  <2>4. (task[r].used \/ ok) \in BOOLEAN
    BY <1>0 DEF Rows
  <2>5. [task[r] EXCEPT !.used = task[r].used \/ ok] \in Rows
    BY <1>0, <2>4 DEF Rows
  <2>6. task' \in [Runs -> Rows]
    BY <2>2, <2>5, <1>0
  <2> QED
    BY <1>16, <2>1, <2>3, <2>6 DEF ToolCall, Goto, TypeOK, Pcs, LockPcs
<1>17. ASSUME NEW r \in Runs, ToolRecorded(r) PROVE TypeOK'
  <2>1. PICK acks \in SUBSET Sinks :
          /\ acked' = acked \cup acks
          /\ IF Live
             THEN /\ Put([row EXCEPT !.tel = @ \cup acks, !.used = task[r].used])
                  /\ Goto(r, "chat") /\ UNCHANGED outcomes
             ELSE Forget /\ LogOutcome(r, FALSE) /\ Goto(r, "recFailed")
    BY <1>17 DEF ToolRecorded
  <2>2. [row EXCEPT !.tel = @ \cup acks, !.used = task[r].used] \in Rows
    BY <1>0 DEF Rows
  <2>3. row' \in Rows /\ acked' \subseteq Sinks
    BY <2>1, <2>2, <1>0, PutType, ForgetType
  <2>4. outcomes' \in Seq([gen : Nat, ok : BOOLEAN])
    BY <2>1, OutcomeType DEF TypeOK
  <2>5. pc' \in [Runs -> Pcs]
    BY <2>1, <1>0 DEF Goto, Pcs, LockPcs, RunRecords
  <2> QED
    BY <1>17, <2>3, <2>4, <2>5 DEF ToolRecorded, TypeOK
<1>18. ASSUME NEW r \in Runs, ChatFailed(r) PROVE TypeOK'
  <2>1. outcomes' \in Seq([gen : Nat, ok : BOOLEAN])
    BY <1>18, OutcomeType DEF ChatFailed
  <2> QED
    BY <1>18, <2>1, <1>0 DEF ChatFailed, Goto, TypeOK, Pcs, LockPcs, RunRecords
<1>19. ASSUME NEW r \in Runs, ChatDone(r) PROVE TypeOK'
  <2>1. [row EXCEPT !.status = "verifying"] \in Rows
    BY <1>0 DEF Rows, Statuses
  <2>2. row' \in Rows
    BY <1>19, <2>1, <1>0, PutType DEF ChatDone
  <2> QED
    BY <1>19, <2>2 DEF ChatDone, Goto, TypeOK, Pcs, LockPcs, RunRecords
<1>20. ASSUME NEW r \in Runs, FailureRecorded(r) PROVE TypeOK'
  <2>1. row' \in Rows /\ acked' \subseteq Sinks
    BY <1>20, RecordType DEF FailureRecorded
  <2> QED
    BY <1>20, <2>1 DEF FailureRecorded, Goto, TypeOK, Pcs, LockPcs, RunRecords, Midway
<1>21. ASSUME NEW r \in Runs, Park(r) PROVE TypeOK'
  <2>1. CASE Live
    <3>1. PICK wait \in 0..RetryDelay :
            Put([row EXCEPT
                   !.status = IF NeedsHuman THEN "waiting_for_human" ELSE "waiting_for_model",
                   !.wait = wait])
      BY <1>21, <2>1 DEF Park
    <3>2. [row EXCEPT
             !.status = IF NeedsHuman THEN "waiting_for_human" ELSE "waiting_for_model",
             !.wait = wait] \in Rows
      BY <1>0 DEF Rows, Statuses
    <3>3. row' \in Rows
      BY <3>1, <3>2, <1>0, PutType
    <3> QED
      BY <1>21, <2>1, <3>3, LeaveType DEF Park, TypeOK, Pcs
  <2>2. CASE ~Live
    BY <1>21, <2>2, RaiseType DEF Park, TypeOK
  <2> QED
    BY <2>1, <2>2
<1>22. ASSUME NEW r \in Runs, RetryLater(r) PROVE TypeOK'
  <2>1. PICK delay \in 1..RetryDelay :
          /\ Put([row EXCEPT !.status = "waiting_for_model", !.wait = delay])
          /\ ctx' = [ctx EXCEPT ![r].wake = delay]
    BY <1>22 DEF RetryLater
  <2>0. delay \in 0..RetryDelay
    BY <1>0
  <2>2. [row EXCEPT !.status = "waiting_for_model", !.wait = delay] \in Rows
    BY <1>0, <2>0, StatusType DEF Statuses
  <2>3. row' \in Rows
    BY <2>1, <2>2, <1>0, PutType
  <2>4. ctx' \in [Runs -> Ctxs]
    BY <2>0, <2>1, <1>0 DEF Ctxs
  <2>5. task' \in [Runs -> Rows]
    BY <1>22, <2>3, <1>0 DEF RetryLater
  <2> QED
    BY <1>22, <2>3, <2>4, <2>5 DEF RetryLater, Goto, TypeOK, Pcs, LockPcs
<1>23. ASSUME NEW r \in Runs, SleptOut(r) PROVE TypeOK'
  BY <1>23, <1>0 DEF SleptOut, Goto, TypeOK, Pcs, LockPcs, RunRecords, Midway
<1>24. ASSUME NEW r \in Runs, VerificationStarted(r) PROVE TypeOK'
  <2>1. row' \in Rows /\ acked' \subseteq Sinks
    BY <1>24, RecordType DEF VerificationStarted
  <2>2. CASE Live
    BY <1>24, <2>1, <2>2, <1>0 DEF VerificationStarted, Goto, TypeOK, Pcs, LockPcs
  <2>3. CASE ~Live
    BY <1>24, <2>1, <2>3, LeaveType DEF VerificationStarted, TypeOK, Pcs
  <2> QED
    BY <2>2, <2>3
<1>25. ASSUME NEW r \in Runs, Verify(r) PROVE TypeOK'
  <2>1. PICK checks \in BOOLEAN :
          /\ task' = [task EXCEPT ![r].verdict =
                         [gen |-> task[r].gen, passed |-> GatePasses(task[r], checks)]]
          /\ ctx' = [ctx EXCEPT ![r].passed = GatePasses(task[r], checks)]
    BY <1>25 DEF Verify
  <2>2. GatePasses(task[r], checks) \in BOOLEAN
    BY Zenon DEF GatePasses
  <2>3. ctx' \in [Runs -> Ctxs]
    BY <2>1, <2>2, <1>0 DEF Ctxs
  <2>4. [gen |-> task[r].gen, passed |-> GatePasses(task[r], checks)] \in Verdicts
    BY <2>2, <1>0 DEF Verdicts, Rows
  <2>5. [task[r] EXCEPT !.verdict =
           [gen |-> task[r].gen, passed |-> GatePasses(task[r], checks)]] \in Rows
    BY <2>4, <1>0 DEF Rows
  <2>6. task' \in [Runs -> Rows]
    BY <2>1, <2>5, <1>0
  <2>7. row' \in Rows
    BY <1>25, <2>6, <1>0, PutType DEF Verify
  <2> QED
    BY <1>25, <2>3, <2>6, <2>7 DEF Verify, Goto, TypeOK, Pcs, LockPcs, RunRecords
<1>26. ASSUME NEW r \in Runs, VerdictRecorded(r) PROVE TypeOK'
  <2>1. row' \in Rows /\ acked' \subseteq Sinks
    BY <1>26, RecordType DEF VerdictRecorded
  <2> QED
    BY <1>26, <2>1 DEF VerdictRecorded, Goto, TypeOK, Pcs, LockPcs, RunRecords, Midway
<1>27. ASSUME NEW r \in Runs, Complete(r) PROVE TypeOK'
  <2>1. CASE Live
    <3>1. [row EXCEPT !.status = "completed"] \in Rows
      BY <1>0 DEF Rows, Statuses
    <3>2. row' \in Rows
      BY <1>27, <2>1, <3>1, <1>0, PutType DEF Complete
    <3> QED
      BY <1>27, <2>1, <3>2 DEF Complete, Goto, TypeOK, Pcs, LockPcs, Midway
  <2>2. CASE ~Live
    BY <1>27, <2>2, RaiseType DEF Complete, TypeOK
  <2> QED
    BY <2>1, <2>2
<1>28. ASSUME NEW r \in Runs, LogCompletion(r) PROVE TypeOK'
  <2>1. outcomes' \in Seq([gen : Nat, ok : BOOLEAN])
    BY <1>28, OutcomeType DEF LogCompletion
  <2> QED
    BY <1>28, <2>1, <1>0 DEF LogCompletion, Goto, TypeOK, Pcs, LockPcs, RunRecords
<1>29. ASSUME NEW r \in Runs, Reject(r) PROVE TypeOK'
  <2>1. outcomes' \in Seq([gen : Nat, ok : BOOLEAN])
    BY <1>29, OutcomeType DEF Reject
  <2> QED
    BY <1>29, <2>1, <1>0 DEF Reject, Goto, TypeOK, Pcs, LockPcs, Midway
<1>30. ASSUME NEW r \in Runs, Return(r) PROVE TypeOK'
  <2>1. row' \in Rows /\ acked' \subseteq Sinks
    BY <1>30, RecordType DEF Return
  <2> QED
    BY <1>30, <2>1, LeaveType DEF Return, TypeOK, Pcs
<1>31. ASSUME NEW r \in Runs, FailureReported(r) PROVE TypeOK'
  <2>1. row' \in Rows /\ acked' \subseteq Sinks
    BY <1>31, RecordType DEF FailureReported
  <2> QED
    BY <1>31, <2>1 DEF FailureReported, Goto, TypeOK, Pcs, LockPcs, RunRecords, Midway
<1>32. ASSUME NEW r \in Runs, RecordFaults(r) PROVE TypeOK'
  <2>1. budget' \in [crashes : Nat, expiries : Nat, faults : Nat]
    BY <1>32 DEF RecordFaults, TypeOK
  <2> QED
    BY <1>32, <2>1, RaiseType DEF RecordFaults, TypeOK
<1>33. CASE Crash
  <2>1. budget' \in [crashes : Nat, expiries : Nat, faults : Nat]
    BY <1>33 DEF Crash, TypeOK
  <2>2. EmptyRow("none") \in Rows /\ NoCtx \in Ctxs
    BY EmptyRowType, NoCtxType
  <2> QED
    BY <1>33, <2>1, <2>2 DEF Crash, TypeOK, Pcs
<1>34. CASE Expire
  <2>1. budget' \in [crashes : Nat, expiries : Nat, faults : Nat]
    <3>1. budget \in [crashes : Nat, expiries : Nat, faults : Nat]
      BY DEF TypeOK
    <3>2. budget.expiries > 0 /\ budget' = [budget EXCEPT !.expiries = budget.expiries - 1]
      BY <1>34 DEF Expire
    <3> QED
      BY <3>1, <3>2
  <2>2. row' \in Rows
    BY <1>34, <1>0 DEF Expire, Rows
  <2>3. receipts' \in Seq(Nat) /\ outcomes' \in Seq([gen : Nat, ok : BOOLEAN])
    <3>1. receipts \in Seq(Nat) /\ outcomes \in Seq([gen : Nat, ok : BOOLEAN])
      BY DEF TypeOK
    <3>2. receipts' = receipts /\ outcomes' = outcomes
      BY <1>34 DEF Expire
    <3> QED
      BY <3>1, <3>2
  <2>4. /\ lock' \in Runs \cup {Free} /\ pc' \in [Runs -> Pcs] /\ task' \in [Runs -> Rows]
        /\ ctx' \in [Runs -> Ctxs] /\ acked' \subseteq Sinks /\ toolRan' \in BOOLEAN
    BY <1>34 DEF Expire, TypeOK
  <2> QED
    BY <2>1, <2>2, <2>3, <2>4 DEF TypeOK
<1>35. CASE Tick
  <2>1. row' \in Rows
    BY <1>35, <1>0, LessType DEF Tick
  <2>2. ctx' \in [Runs -> Ctxs]
    BY <1>35, <1>0, LessType DEF Tick
  <2> QED
    BY <1>35, <2>1, <2>2 DEF Tick, TypeOK
<1>37. ASSUME NEW r \in Runs, ChatRecorded(r) PROVE TypeOK'
  <2>1. row' \in Rows /\ acked' \subseteq Sinks
    BY <1>37, RecordType DEF ChatRecorded
  <2> QED
    BY <1>37, <2>1 DEF ChatRecorded, TypeOK
<1>36. CASE UNCHANGED vars
  BY <1>36 DEF vars, TypeOK
<1> QED
  BY <1>1, <1>2, <1>3, <1>4, <1>5, <1>6, <1>7, <1>8, <1>9, <1>10, <1>11, <1>12, <1>13,
     <1>14, <1>15, <1>16, <1>17, <1>18, <1>19, <1>20, <1>21, <1>22, <1>23, <1>24, <1>25,
     <1>26, <1>27, <1>28, <1>29, <1>30, <1>31, <1>32, <1>33, <1>34, <1>35, <1>36,
     <1>37 DEF Next, Request, Step

(* Every reachable state of the runtime is well typed.                      *)
THEOREM TypeCorrect == Spec => []TypeOK
<1>1. Init => TypeOK
  <2> SUFFICES ASSUME Init PROVE TypeOK
    OBVIOUS
  <2>1. EmptyRow("none") \in Rows /\ NoCtx \in Ctxs
    BY EmptyRowType, NoCtxType
  <2>2. budget \in [crashes : Nat, expiries : Nat, faults : Nat]
    BY BoundsAssumption DEF Init
  <2>3. pc \in [Runs -> Pcs] /\ receipts \in Seq(Nat)
    BY DEF Init, Pcs
  <2>4. outcomes \in Seq([gen : Nat, ok : BOOLEAN])
    BY DEF Init
  <2>5. /\ row \in Rows /\ lock \in Runs \cup {Free} /\ task \in [Runs -> Rows]
        /\ ctx \in [Runs -> Ctxs] /\ acked \subseteq Sinks /\ toolRan \in BOOLEAN
    BY <2>1 DEF Init
  <2> QED
    BY <2>2, <2>3, <2>4, <2>5 DEF TypeOK
<1> QED
  BY <1>1, TypeStep, PTL DEF Spec

-----------------------------------------------------------------------------
(* What a write leaves in the row, in general and for the writes of run().  *)
LEMMA PutFields ==
  ASSUME NEW t \in Rows, Put(t)
  PROVE  /\ row'.status = t.status /\ row'.ambiguous = t.ambiguous
         /\ row'.store # "none"
BY DEF Put, Rows

(* A write of a stale dictionary with a new status and wait.                *)
LEMMA StatusPut ==
  ASSUME NEW t \in Rows, NEW s \in Statuses, NEW w \in 0..RetryDelay,
         \/ Put([t EXCEPT !.status = s, !.wait = w])
         \/ Put([t EXCEPT !.status = s])
  PROVE  row'.status = s /\ row'.ambiguous = t.ambiguous /\ row'.store # "none"
<1>1. [t EXCEPT !.status = s, !.wait = w] \in Rows
  BY StatusType
<1>2. [t EXCEPT !.status = s] \in Rows
  BY DEF Rows
<1> QED
  BY <1>1, <1>2, PutFields DEF Rows

(* A row that is not in the journal is neither gated nor ambiguous.         *)
LEMMA ForgetFields ==
  ASSUME row \in Rows, Forget
  PROVE  \/ row' = row
         \/ row'.status = "ready" /\ ~row'.ambiguous /\ row'.store = "deleted"
BY DEF Forget, EmptyRow

(* _record changes neither the status nor the ambiguity.                    *)
LEMMA RecordFields ==
  ASSUME row \in Rows, NEW acks \in SUBSET Sinks, Record(acks)
  PROVE  \/ /\ row'.status = row.status /\ row'.ambiguous = row.ambiguous
            /\ row'.store = row.store
         \/ row'.status = "ready" /\ ~row'.ambiguous /\ row'.store = "deleted"
<1>1. CASE Live
  <2>1. [row EXCEPT !.tel = @ \cup acks] \in Rows
    BY DEF Rows
  <2>2. Put([row EXCEPT !.tel = @ \cup acks])
    BY <1>1 DEF Record
  <2> QED
    BY <1>1, <2>1, <2>2 DEF Put, Live, Rows
<1>2. CASE ~Live
  BY <1>2, ForgetFields DEF Record
<1> QED
  BY <1>1, <1>2

(* An exception that escapes a run which is not gated keeps the gate.       *)
LEMMA RaiseGate ==
  ASSUME TypeOK, GateInv, NEW r \in Runs, pc[r] \in Committed, Raise(r)
  PROVE  GateInv'
<1>1. /\ row \in Rows /\ pc \in [Runs -> Pcs] /\ task \in [Runs -> Rows]
  BY DEF TypeOK
<1>2. PICK place \in {"recFailure", "idle"} : Leave(r, place)
  BY DEF Raise
<1>3. \/ row'.status = "failed" /\ row'.ambiguous = row.ambiguous /\ row'.store # "none"
      \/ row' = row
      \/ row'.status = "ready" /\ ~row'.ambiguous /\ row'.store = "deleted"
  <2>1. CASE Live
    <3>1. [row EXCEPT !.status = "failed"] \in Rows
      BY <1>1 DEF Rows, Statuses
    <3>2. Put([row EXCEPT !.status = "failed"])
      BY <2>1 DEF Raise
    <3> QED
      BY <3>1, <3>2, <1>1, PutFields DEF Rows
  <2>2. CASE ~Live
    BY <1>1, <2>2, ForgetFields DEF Raise
  <2> QED
    BY <2>1, <2>2
<1>4. row.status # "waiting_for_human" /\ ~row.ambiguous /\ row.store # "none"
  BY <1>1 DEF GateInv, Committed, LockPcs, Midway, RunRecords
<1> QED
  BY <1>1, <1>2, <1>3, <1>4 DEF GateInv, Committed, Leave, Goto, LockPcs, Midway, RunRecords

(* Every step keeps the gate.  The cases that matter: Answer, which opens   *)
(* the gate only when nothing runs; Acquire, which takes no gated task; and *)
(* the writes of stale dictionaries, none of which is gated.                *)
LEMMA GateStep == TypeOK /\ GateInv /\ [Next]_vars => GateInv'
<1> SUFFICES ASSUME TypeOK, GateInv, [Next]_vars PROVE GateInv'
  OBVIOUS
<1>0. /\ row \in Rows /\ pc \in [Runs -> Pcs]
      /\ task \in [Runs -> Rows] /\ ctx \in [Runs -> Ctxs]
  BY DEF TypeOK
<1>1. ASSUME NEW r \in Runs, Submit(r) PROVE GateInv'
  <2>1. PICK ambiguous \in BOOLEAN :
          Put([EmptyRow("none") EXCEPT !.ambiguous = ambiguous,
                 !.status = IF ambiguous THEN "waiting_for_human" ELSE "ready"])
    BY <1>1 DEF Submit
  <2>2. EmptyRow("none") \in Rows
    BY <1>0, EmptyRowType
  <2>3. [EmptyRow("none") EXCEPT !.ambiguous = ambiguous, !.status = IF ambiguous THEN "waiting_for_human" ELSE "ready"] \in Rows
    BY <2>2 DEF Rows, Statuses
  <2>4. /\ row'.ambiguous = ambiguous /\ row'.store # "none"
        /\ row'.status = IF ambiguous THEN "waiting_for_human" ELSE "ready"
    BY <2>1, <2>2, <2>3, PutFields DEF Rows
  <2>5. \A q \in Runs : pc[q] \notin Committed
    BY <1>1 DEF Submit, GateInv, Committed, LockPcs, RunRecords, Midway
  <2> QED
    BY <1>1, <1>0, <2>4, <2>5 DEF Submit, GateInv, Committed, Goto, LockPcs, RunRecords, Midway
<1>2. ASSUME NEW r \in Runs, Answer(r) PROVE GateInv'
  <2>1. PICK ambiguous \in BOOLEAN :
          Put([row EXCEPT !.ambiguous = ambiguous,
                 !.status = IF ambiguous THEN "waiting_for_human" ELSE "ready"])
    BY <1>2 DEF Answer
  <2>2. row \in Rows
    BY <1>0, EmptyRowType
  <2>3. [row EXCEPT !.ambiguous = ambiguous, !.status = IF ambiguous THEN "waiting_for_human" ELSE "ready"] \in Rows
    BY <2>2 DEF Rows, Statuses
  <2>4. /\ row'.ambiguous = ambiguous /\ row'.store # "none"
        /\ row'.status = IF ambiguous THEN "waiting_for_human" ELSE "ready"
    BY <2>1, <2>2, <2>3, PutFields DEF Rows
  <2>5. \A q \in Runs : pc[q] \notin Committed
    BY <1>2 DEF Answer, GateInv, Committed, LockPcs, RunRecords, Midway
  <2> QED
    BY <1>2, <1>0, <2>4, <2>5 DEF Answer, GateInv, Committed, Goto, LockPcs, RunRecords, Midway
<1>3. ASSUME NEW r \in Runs, RequestDone(r) PROVE GateInv'
  <2>1. \/ /\ row'.status = row.status /\ row'.ambiguous = row.ambiguous
           /\ row'.store = row.store
        \/ row'.status = "ready" /\ ~row'.ambiguous /\ row'.store = "deleted"
    BY <1>3, <1>0, RecordFields DEF RequestDone
  <2> QED
    BY <1>3, <1>0, <2>1 DEF RequestDone, GateInv, Committed, Goto, LockPcs, RunRecords, Midway, Live
<1>4. ASSUME NEW r \in Runs, PostRun(r) PROVE GateInv'
  BY <1>4, <1>0 DEF PostRun, GateInv, Committed, Goto, LockPcs, RunRecords, Midway, Live
<1>5. ASSUME NEW r \in Runs, Acquire(r) PROVE GateInv'
  <2>1. CASE Raise(r)
    BY <1>5, <2>1, RaiseGate DEF Acquire, Committed
  <2>2. CASE ~Raise(r)
    BY <1>5, <2>2, <1>0 DEF Acquire, GateInv, Committed, Goto, LockPcs, RunRecords, Midway, MayExecute, Leave, Live
  <2> QED
    BY <2>1, <2>2
<1>6. ASSUME NEW r \in Runs, LoopTop(r) PROVE GateInv'
  <2>0. row.status # "waiting_for_human" /\ ~row.ambiguous /\ ~task[r].ambiguous
    BY <1>6 DEF LoopTop, GateInv, Committed, LockPcs, Midway, RunRecords
  <2>1. CASE Live
    <3>1. row'.status = "running" /\ row'.ambiguous = row.ambiguous /\ row'.store # "none"
      BY <1>6, <2>1, <1>0, StatusPut, WaitRange DEF LoopTop, Statuses
    <3> QED
      BY <1>6, <1>0, <2>0, <2>1, <3>1 DEF LoopTop, GateInv, Committed, Goto, LockPcs, RunRecords, Midway
  <2>2. CASE ~Live
    BY <1>6, <2>2, RaiseGate DEF LoopTop, Committed, LockPcs, Midway
  <2> QED
    BY <2>1, <2>2
<1>7. ASSUME NEW r \in Runs, WindowExhausted(r) PROVE GateInv'
  <2>0. row.status # "waiting_for_human" /\ ~row.ambiguous /\ ~task[r].ambiguous
    BY <1>7 DEF WindowExhausted, GateInv, Committed, LockPcs, Midway, RunRecords
  <2>1. CASE Live
    <3>1. row'.status = "waiting_for_model" /\ row'.ambiguous = row.ambiguous /\ row'.store # "none"
      BY <1>7, <2>1, <1>0, StatusPut, WaitRange DEF WindowExhausted, Statuses
    <3> QED
      BY <1>7, <1>0, <2>0, <2>1, <3>1 DEF WindowExhausted, GateInv, Committed, Goto, LockPcs, RunRecords, Midway
  <2>2. CASE ~Live
    BY <1>7, <2>2, RaiseGate DEF WindowExhausted, Committed, LockPcs, Midway
  <2> QED
    BY <2>1, <2>2
<1>8. ASSUME NEW r \in Runs, CatalogRefreshed(r) PROVE GateInv'
  BY <1>8, <1>0 DEF CatalogRefreshed, GateInv, Committed, Goto, LockPcs, RunRecords, Midway
<1>9. ASSUME NEW r \in Runs, CatalogFailed(r) PROVE GateInv'
  <2>0. row.status # "waiting_for_human" /\ ~row.ambiguous /\ ~task[r].ambiguous
    BY <1>9 DEF CatalogFailed, GateInv, Committed, LockPcs, Midway, RunRecords
  <2>1. row'.status = "waiting_for_model" /\ row'.ambiguous = task[r].ambiguous /\ row'.store # "none"
    BY <1>9, <1>0, StatusPut, WaitRange DEF CatalogFailed, Statuses
  <2> QED
    BY <1>9, <1>0, <2>0, <2>1 DEF CatalogFailed, GateInv, Committed, Goto, LockPcs, RunRecords, Midway
<1>10. ASSUME NEW r \in Runs, CatalogRecorded(r) PROVE GateInv'
  <2>1. \/ /\ row'.status = row.status /\ row'.ambiguous = row.ambiguous
           /\ row'.store = row.store
        \/ row'.status = "ready" /\ ~row'.ambiguous /\ row'.store = "deleted"
    BY <1>10, <1>0, RecordFields DEF CatalogRecorded
  <2> QED
    BY <1>10, <1>0, <2>1 DEF CatalogRecorded, GateInv, Committed, Goto, LockPcs, RunRecords, Midway
<1>11. ASSUME NEW r \in Runs, Exhausted(r) PROVE GateInv'
  <2>0. row.status # "waiting_for_human" /\ ~row.ambiguous /\ ~task[r].ambiguous
    BY <1>11 DEF Exhausted, GateInv, Committed, LockPcs, Midway, RunRecords
  <2>1. PICK wait \in 1..RetryDelay :
          Put([task[r] EXCEPT !.status = "waiting_for_model", !.wait = wait])
    BY <1>11 DEF Exhausted
  <2>2. wait \in 0..RetryDelay
    BY BoundsAssumption
  <2>3. row'.status = "waiting_for_model" /\ row'.ambiguous = task[r].ambiguous /\ row'.store # "none"
    BY <2>1, <2>2, <1>0, StatusPut DEF Statuses
  <2> QED
    BY <1>11, <1>0, <2>0, <2>3 DEF Exhausted, GateInv, Committed, Goto, LockPcs, RunRecords, Midway
<1>12. ASSUME NEW r \in Runs, BeginAttempt(r) PROVE GateInv'
  <2>0. row.status # "waiting_for_human" /\ ~row.ambiguous /\ ~task[r].ambiguous
    BY <1>12 DEF BeginAttempt, GateInv, Committed, LockPcs, Midway, RunRecords
  <2>1. task[r].gen + 1 \in Nat
    BY <1>0, GenType
  <2>2. /\ task' \in [Runs -> Rows] /\ task'[r].status = "running"
        /\ task'[r].ambiguous = task[r].ambiguous
        /\ \A q \in Runs \ {r} : task'[q] = task[q]
    BY <1>12, <1>0, <2>1 DEF BeginAttempt, Rows, Statuses
  <2>3. row'.status = "running" /\ row'.ambiguous = task[r].ambiguous /\ row'.store # "none"
    BY <1>12, <2>2, PutFields DEF BeginAttempt
  <2> QED
    BY <1>12, <1>0, <2>0, <2>2, <2>3 DEF BeginAttempt, GateInv, Committed, Goto, LockPcs, RunRecords, Midway
<1>13. ASSUME NEW r \in Runs, ReceiveAttempt(r) PROVE GateInv'
  BY <1>13, <1>0 DEF ReceiveAttempt, GateInv, Committed, Goto, LockPcs, RunRecords, Midway
<1>14. ASSUME NEW r \in Runs, AttemptStarted(r) PROVE GateInv'
  <2>1. \/ /\ row'.status = row.status /\ row'.ambiguous = row.ambiguous
           /\ row'.store = row.store
        \/ row'.status = "ready" /\ ~row'.ambiguous /\ row'.store = "deleted"
    BY <1>14, <1>0, RecordFields DEF AttemptStarted
  <2> QED
    BY <1>14, <1>0, <2>1 DEF AttemptStarted, GateInv, Committed, Goto, LockPcs, RunRecords, Midway
<1>15. ASSUME NEW r \in Runs, ToolCall(r) PROVE GateInv'
  BY <1>15, <1>0 DEF ToolCall, GateInv, Committed, Goto, LockPcs, RunRecords, Midway, Rows
<1>16. ASSUME NEW r \in Runs, ToolRecorded(r) PROVE GateInv'
  <2>0. row.status # "waiting_for_human" /\ ~row.ambiguous /\ ~task[r].ambiguous
    BY <1>16 DEF ToolRecorded, GateInv, Committed, LockPcs, Midway, RunRecords
  <2>1. \/ row'.status = row.status /\ row'.ambiguous = row.ambiguous /\ row'.store # "none"
        \/ row' = row
        \/ row'.status = "ready" /\ ~row'.ambiguous /\ row'.store = "deleted"
    <3>1. CASE Live
      <4>1. PICK acks \in SUBSET Sinks : Put([row EXCEPT !.tel = @ \cup acks, !.used = task[r].used])
        BY <1>16, <3>1 DEF ToolRecorded
      <4>2. [row EXCEPT !.tel = @ \cup acks, !.used = task[r].used] \in Rows
        BY <1>0 DEF Rows
      <4> QED
        BY <4>1, <4>2, <1>0, PutFields DEF Rows
    <3>2. CASE ~Live
      BY <1>16, <3>2, <1>0, ForgetFields DEF ToolRecorded
    <3> QED
      BY <3>1, <3>2
  <2>2. \E place \in {"chat", "recFailed"} : Goto(r, place)
    BY <1>16 DEF ToolRecorded
  <2> QED
    BY <1>16, <1>0, <2>0, <2>1, <2>2 DEF ToolRecorded, GateInv, Committed, Goto, LockPcs, RunRecords, Midway
<1>17. ASSUME NEW r \in Runs, ChatFailed(r) PROVE GateInv'
  BY <1>17, <1>0 DEF ChatFailed, GateInv, Committed, Goto, LockPcs, RunRecords, Midway
<1>18. ASSUME NEW r \in Runs, ChatDone(r) PROVE GateInv'
  <2>0. row.status # "waiting_for_human" /\ ~row.ambiguous /\ ~task[r].ambiguous
    BY <1>18 DEF ChatDone, GateInv, Committed, LockPcs, Midway, RunRecords
  <2>1. row'.status = "verifying" /\ row'.ambiguous = row.ambiguous /\ row'.store # "none"
    BY <1>18, <1>0, StatusPut, WaitRange DEF ChatDone, Statuses
  <2> QED
    BY <1>18, <1>0, <2>0, <2>1 DEF ChatDone, GateInv, Committed, Goto, LockPcs, RunRecords, Midway
<1>19. ASSUME NEW r \in Runs, FailureRecorded(r) PROVE GateInv'
  <2>1. \/ /\ row'.status = row.status /\ row'.ambiguous = row.ambiguous
           /\ row'.store = row.store
        \/ row'.status = "ready" /\ ~row'.ambiguous /\ row'.store = "deleted"
    BY <1>19, <1>0, RecordFields DEF FailureRecorded
  <2> QED
    BY <1>19, <1>0, <2>1 DEF FailureRecorded, GateInv, Committed, Goto, LockPcs, RunRecords, Midway
<1>20. ASSUME NEW r \in Runs, Park(r) PROVE GateInv'
  <2>0. row.status # "waiting_for_human" /\ ~row.ambiguous /\ ~task[r].ambiguous
    BY <1>20 DEF Park, GateInv, Committed, LockPcs, Midway, RunRecords
  <2>1. CASE Live
    <3>1. PICK wait \in 0..RetryDelay :
            Put([row EXCEPT !.status = "waiting_for_model", !.wait = wait])
      BY <1>20, <2>0, <2>1 DEF Park, NeedsHuman
    <3>2. row'.status = "waiting_for_model" /\ row'.ambiguous = row.ambiguous /\ row'.store # "none"
      BY <3>1, <1>0, StatusPut DEF Statuses
    <3> QED
      BY <1>20, <1>0, <2>0, <2>1, <3>2 DEF Park, GateInv, Committed, Goto, LockPcs, RunRecords, Midway, Leave
  <2>2. CASE ~Live
    BY <1>20, <2>2, RaiseGate DEF Park, Committed, LockPcs, Midway
  <2> QED
    BY <2>1, <2>2
<1>21. ASSUME NEW r \in Runs, RetryLater(r) PROVE GateInv'
  <2>0. row.status # "waiting_for_human" /\ ~row.ambiguous /\ ~task[r].ambiguous
    BY <1>21 DEF RetryLater, GateInv, Committed, LockPcs, Midway, RunRecords
  <2>1. PICK delay \in 1..RetryDelay :
          Put([row EXCEPT !.status = "waiting_for_model", !.wait = delay])
    BY <1>21 DEF RetryLater
  <2>2. delay \in 0..RetryDelay
    BY BoundsAssumption
  <2>3. row'.status = "waiting_for_model" /\ row'.ambiguous = row.ambiguous /\ row'.store # "none"
    BY <2>1, <2>2, <1>0, StatusPut DEF Statuses
  <2> QED
    BY <1>21, <1>0, <2>0, <2>3 DEF RetryLater, GateInv, Committed, Goto, LockPcs, RunRecords, Midway
<1>22. ASSUME NEW r \in Runs, SleptOut(r) PROVE GateInv'
  BY <1>22, <1>0 DEF SleptOut, GateInv, Committed, Goto, LockPcs, RunRecords, Midway
<1>23. ASSUME NEW r \in Runs, VerificationStarted(r) PROVE GateInv'
  <2>0. row.status # "waiting_for_human" /\ ~row.ambiguous
    BY <1>23 DEF VerificationStarted, GateInv, Committed, LockPcs, RunRecords
  <2>1. \/ /\ row'.status = row.status /\ row'.ambiguous = row.ambiguous
           /\ row'.store = row.store
        \/ row'.status = "ready" /\ ~row'.ambiguous /\ row'.store = "deleted"
    BY <1>23, <1>0, RecordFields DEF VerificationStarted
  <2> QED
    BY <1>23, <1>0, <2>0, <2>1 DEF VerificationStarted, GateInv, Committed, Goto, LockPcs, RunRecords, Midway, Leave
<1>24. ASSUME NEW r \in Runs, Verify(r) PROVE GateInv'
  <2>0. row.status # "waiting_for_human" /\ ~row.ambiguous /\ ~task[r].ambiguous
    BY <1>24 DEF Verify, GateInv, Committed, LockPcs, Midway, RunRecords
  <2>1. task' \in [Runs -> Rows]
    BY TypeStep DEF TypeOK
  <2>2. /\ task'[r].status = task[r].status /\ task'[r].ambiguous = task[r].ambiguous
        /\ \A q \in Runs \ {r} : task'[q] = task[q]
    BY <1>24, <1>0 DEF Verify, Rows
  <2>3. row'.status = task[r].status /\ row'.ambiguous = task[r].ambiguous /\ row'.store # "none"
    BY <1>24, <2>1, <2>2, PutFields DEF Verify
  <2> QED
    BY <1>24, <1>0, <2>0, <2>2, <2>3 DEF Verify, GateInv, Committed, Goto, LockPcs, RunRecords, Midway
<1>25. ASSUME NEW r \in Runs, VerdictRecorded(r) PROVE GateInv'
  <2>1. \/ /\ row'.status = row.status /\ row'.ambiguous = row.ambiguous
           /\ row'.store = row.store
        \/ row'.status = "ready" /\ ~row'.ambiguous /\ row'.store = "deleted"
    BY <1>25, <1>0, RecordFields DEF VerdictRecorded
  <2> QED
    BY <1>25, <1>0, <2>1 DEF VerdictRecorded, GateInv, Committed, Goto, LockPcs, RunRecords, Midway
<1>26. ASSUME NEW r \in Runs, Complete(r) PROVE GateInv'
  <2>0. row.status # "waiting_for_human" /\ ~row.ambiguous /\ ~task[r].ambiguous
    BY <1>26 DEF Complete, GateInv, Committed, LockPcs, Midway, RunRecords
  <2>1. CASE Live
    <3>1. row'.status = "completed" /\ row'.ambiguous = row.ambiguous /\ row'.store # "none"
      BY <1>26, <2>1, <1>0, StatusPut, WaitRange DEF Complete, Statuses
    <3> QED
      BY <1>26, <1>0, <2>0, <2>1, <3>1 DEF Complete, GateInv, Committed, Goto, LockPcs, RunRecords, Midway
  <2>2. CASE ~Live
    BY <1>26, <2>2, RaiseGate DEF Complete, Committed, LockPcs, Midway
  <2> QED
    BY <2>1, <2>2
<1>27. ASSUME NEW r \in Runs, LogCompletion(r) PROVE GateInv'
  BY <1>27, <1>0 DEF LogCompletion, GateInv, Committed, Goto, LockPcs, RunRecords, Midway
<1>28. ASSUME NEW r \in Runs, Reject(r) PROVE GateInv'
  BY <1>28, <1>0 DEF Reject, GateInv, Committed, Goto, LockPcs, RunRecords, Midway
<1>29. ASSUME NEW r \in Runs, Return(r) PROVE GateInv'
  <2>1. \/ /\ row'.status = row.status /\ row'.ambiguous = row.ambiguous
           /\ row'.store = row.store
        \/ row'.status = "ready" /\ ~row'.ambiguous /\ row'.store = "deleted"
    BY <1>29, <1>0, RecordFields DEF Return
  <2> QED
    BY <1>29, <1>0, <2>1 DEF Return, GateInv, Committed, Goto, LockPcs, RunRecords, Midway, Leave
<1>30. ASSUME NEW r \in Runs, FailureReported(r) PROVE GateInv'
  <2>1. \/ /\ row'.status = row.status /\ row'.ambiguous = row.ambiguous
           /\ row'.store = row.store
        \/ row'.status = "ready" /\ ~row'.ambiguous /\ row'.store = "deleted"
    BY <1>30, <1>0, RecordFields DEF FailureReported
  <2> QED
    BY <1>30, <1>0, <2>1 DEF FailureReported, GateInv, Committed, Goto, LockPcs, RunRecords, Midway
<1>31. ASSUME NEW r \in Runs, RecordFaults(r) PROVE GateInv'
  BY <1>31, RaiseGate DEF RecordFaults, Committed, LockPcs
<1>32. CASE Poll
  BY <1>32, <1>0, ForgetFields DEF Poll, GateInv, Committed, LockPcs, RunRecords, Midway, Live, Rows
<1>33. CASE Crash
  BY <1>33, <1>0, ForgetFields DEF Crash, GateInv, Committed, LockPcs, RunRecords, Midway, Live, Rows
<1>34. CASE Expire
  BY <1>34, <1>0, ForgetFields DEF Expire, GateInv, Committed, LockPcs, RunRecords, Midway, Live, Rows
<1>35. CASE Tick
  BY <1>35, <1>0, ForgetFields DEF Tick, GateInv, Committed, LockPcs, RunRecords, Midway, Live, Rows
<1>37. ASSUME NEW r \in Runs, ChatRecorded(r) PROVE GateInv'
  <2>1. \/ /\ row'.status = row.status /\ row'.ambiguous = row.ambiguous
           /\ row'.store = row.store
        \/ row'.status = "ready" /\ ~row'.ambiguous /\ row'.store = "deleted"
    BY <1>37, <1>0, RecordFields DEF ChatRecorded
  <2> QED
    BY <1>37, <1>0, <2>1 DEF ChatRecorded, GateInv, Committed, LockPcs, RunRecords, Midway
<1>36. CASE UNCHANGED vars
  BY <1>36 DEF vars, GateInv
<1> QED
  BY <1>1, <1>2, <1>3, <1>4, <1>5, <1>6, <1>7, <1>8, <1>9, <1>10, <1>11, <1>12, <1>13,
     <1>14, <1>15, <1>16, <1>17, <1>18, <1>19, <1>20, <1>21, <1>22, <1>23, <1>24, <1>25, <1>26,
     <1>27, <1>28, <1>29, <1>30, <1>31, <1>32, <1>33, <1>34, <1>35, <1>36,
     <1>37 DEF Next, Request, Step

(* README step 3: no execution of a task exists, queued or under way, while *)
(* its scope is ambiguous, whatever requests, crashes and expiries race.    *)
THEOREM HumanGateHolds == Spec => []HumanGate
<1>1. Init => GateInv
  BY DEF Init, GateInv, EmptyRow, Committed, LockPcs, Midway, RunRecords
<1>2. TypeOK /\ GateInv => HumanGate
  BY DEF GateInv, HumanGate, Committed, TypeOK
<1> QED
  BY <1>1, <1>2, GateStep, TypeCorrect, PTL DEF Spec

-----------------------------------------------------------------------------
(* Part 2.  It is first said, field by field, what each kind of step       *)
(* leaves in the row (StepKinds).  Each invariant is then preserved by     *)
(* every kind of step.                                                     *)

(* The row after Journal.put of a dictionary that agrees with t, its       *)
(* status and its wait excepted.                                           *)
Carried(t) ==
  /\ row'.store = IF row.store \in {"live", "expired"} THEN row.store ELSE "live"
  /\ row'.gen = t.gen /\ row'.used = t.used
  /\ row'.tel = t.tel /\ row'.verdict = t.verdict

(* The row after a Journal.get that did not find it alive.                 *)
Missed ==
  \/ row.store # "expired" /\ row' = row
  \/ /\ row.store = "expired"
     /\ row'.store = "deleted" /\ row'.status = "ready"
     /\ row'.gen = 0 /\ ~row'.used /\ row'.tel = {} /\ row'.wait = 0
     /\ row'.verdict = NoVerdict

(* The row after a _record.                                                *)
Event ==
  /\ acked \subseteq acked'
  /\ \/ /\ Live /\ row'.store = "live"
        /\ row'.status = row.status /\ row'.wait = row.wait
        /\ row'.gen = row.gen /\ row'.used = row.used /\ row'.verdict = row.verdict
        /\ row'.tel \subseteq row.tel \cup acked'
     \/ ~Live /\ Missed

Edge(r, from, to) == pc[r] = from /\ Goto(r, to)

-----------------------------------------------------------------------------
(* The kinds of steps.                                                     *)
Submitted(r) ==
  /\ row.store = "none" /\ Edge(r, "idle", "recSubmit")
  /\ row'.store = "live" /\ row'.status \in {"waiting_for_human", "ready"}
  /\ row'.gen = 0 /\ ~row'.used /\ row'.tel = {} /\ row'.verdict = NoVerdict
  /\ row'.wait = 0
  /\ UNCHANGED <<lock, task, ctx, receipts, outcomes, acked, toolRan, budget>>

Answered(r) ==
  /\ Live /\ row.status = "waiting_for_human" /\ Edge(r, "idle", "recAnswer")
  /\ Carried(row) /\ row'.status \in {"waiting_for_human", "ready"}
  /\ UNCHANGED <<lock, task, ctx, receipts, outcomes, acked, toolRan, budget>>

Moved(r) ==
  /\ \/ Edge(r, "idle", "queued")
     \/ Edge(r, "catalog", "recCatalog")
     \/ Edge(r, "sleep", "top") /\ ctx[r].wake = 0
  /\ UNCHANGED <<row, lock, task, ctx, receipts, outcomes, acked, toolRan, budget>>

Recorded(r) ==
  /\ \/ pc[r] \in {"recSubmit", "recAnswer", "recFailure"} /\ (Goto(r, "idle") \/ Goto(r, "queued"))
     \/ Edge(r, "recCatalog", "choosing") \/ Edge(r, "recStarted", "chat")
     \/ Edge(r, "chat", "chat") \/ Edge(r, "recFailed", "afterFailure")
     \/ Edge(r, "recVerResult", "judged")
  /\ Event
  /\ \A q \in Runs : ctx'[q].passed = ctx[q].passed /\ ctx'[q].wake = ctx[q].wake
  /\ UNCHANGED <<lock, task, receipts, outcomes, toolRan, budget>>

Entered(r) ==
  /\ lock = Free /\ MayExecute /\ Edge(r, "queued", "top")
  /\ lock' = r /\ task' = [task EXCEPT ![r] = row]
  /\ \A q \in Runs \ {r} : ctx'[q] = ctx[q]
  /\ UNCHANGED <<row, receipts, outcomes, acked, toolRan, budget>>

Started(r) ==
  /\ Live /\ Edge(r, "top", "catalog")
  /\ Carried(row) /\ row'.status = "running" /\ row'.wait = 0
  /\ task' = [task EXCEPT ![r] = row']
  /\ UNCHANGED <<lock, ctx, receipts, outcomes, acked, toolRan, budget>>

Deferred(r) ==
  /\ \/ Edge(r, "top", "recWindow") /\ Live /\ Carried(row)
     \/ Edge(r, "catalog", "recCatFail") /\ Carried(task[r])
     \/ Edge(r, "choosing", "recExhausted") /\ Carried(task[r])
  /\ row'.status = "waiting_for_model" /\ row'.wait > 0
  /\ UNCHANGED <<lock, task, ctx, receipts, outcomes, acked, toolRan, budget>>

Attempted(r) ==
  /\ Edge(r, "choosing", "attemptSaved")
  /\ task'[r].gen = task[r].gen + 1 /\ task'[r].used = task[r].used
  /\ task'[r].tel = task[r].tel /\ task'[r].verdict = task[r].verdict
  /\ task'[r].status = "running"
  /\ \A q \in Runs \ {r} : task'[q] = task[q]
  /\ Carried(task'[r]) /\ row'.status = "running"
  /\ UNCHANGED <<lock, ctx, receipts, outcomes, acked, toolRan, budget>>

Receipted(r) ==
  /\ Edge(r, "attemptSaved", "recStarted")
  /\ receipts' = Append(receipts, task[r].gen)
  /\ UNCHANGED <<row, lock, task, ctx, outcomes, acked, toolRan, budget>>

Called(r) ==
  /\ Edge(r, "chat", "recTool")
  /\ \E ok \in BOOLEAN : toolRan' = (toolRan \/ ok) /\ task'[r].used = (task[r].used \/ ok)
  /\ task'[r].gen = task[r].gen /\ task'[r].tel = task[r].tel
  /\ task'[r].verdict = task[r].verdict /\ task'[r].status = task[r].status
  /\ \A q \in Runs \ {r} : task'[q] = task[q]
  /\ \A q \in Runs : ctx'[q].passed = ctx[q].passed /\ ctx'[q].wake = ctx[q].wake
  /\ UNCHANGED <<row, lock, receipts, outcomes, acked, budget>>

CallLogged(r) ==
  /\ Live /\ Edge(r, "recTool", "chat")
  /\ acked \subseteq acked'
  /\ row'.store = "live" /\ row'.status = row.status /\ row'.wait = row.wait
  /\ row'.gen = row.gen /\ row'.used = task[r].used /\ row'.verdict = row.verdict
  /\ row'.tel \subseteq row.tel \cup acked'
  /\ UNCHANGED <<lock, task, ctx, receipts, outcomes, toolRan, budget>>

Concluded(r) ==
  /\ \/ Edge(r, "recTool", "recFailed") /\ ~Live /\ Event /\ LogOutcome(r, FALSE)
     \/ Edge(r, "chat", "recFailed") /\ UNCHANGED <<row, acked>> /\ LogOutcome(r, FALSE)
     \/ Edge(r, "judged", "afterFailure") /\ UNCHANGED <<row, acked>> /\ LogOutcome(r, FALSE)
     \/ Edge(r, "completedSaved", "recCompleted") /\ UNCHANGED <<row, acked>> /\ LogOutcome(r, TRUE)
  /\ UNCHANGED <<lock, task, ctx, receipts, toolRan, budget>>

Answering(r) ==
  /\ Live /\ Edge(r, "chat", "recVerStart")
  /\ Carried(row) /\ row'.status = "verifying"
  /\ UNCHANGED <<lock, task, ctx, receipts, outcomes, acked, toolRan, budget>>

Fetched(r) ==
  /\ Live /\ Event /\ Edge(r, "recVerStart", "verify")
  /\ task' = [task EXCEPT ![r] = row']
  /\ UNCHANGED <<lock, ctx, receipts, outcomes, toolRan, budget>>

Judged(r) ==
  /\ Edge(r, "verify", "recVerResult")
  /\ task'[r].gen = task[r].gen /\ task'[r].used = task[r].used
  /\ task'[r].tel = task[r].tel /\ task'[r].status = task[r].status
  /\ task'[r].verdict.gen = task[r].gen
  /\ task'[r].verdict.passed = ctx'[r].passed
  /\ ctx'[r].passed => (Executable => task[r].used) /\ (NeedTelemetry => task[r].tel = Sinks)
  /\ \A q \in Runs \ {r} : task'[q] = task[q] /\ ctx'[q] = ctx[q]
  /\ Carried(task'[r]) /\ row'.status = task[r].status /\ row'.wait = task[r].wait
  /\ UNCHANGED <<lock, receipts, outcomes, acked, toolRan, budget>>

Finished(r) ==
  /\ Live /\ Edge(r, "judged", "completedSaved") /\ ctx[r].passed
  /\ Carried(row) /\ row'.status = "completed"
  /\ UNCHANGED <<lock, task, ctx, receipts, outcomes, acked, toolRan, budget>>

Slept(r) ==
  /\ Live /\ Edge(r, "afterFailure", "sleep")
  /\ Carried(row) /\ row'.status = "waiting_for_model" /\ row'.wait = ctx'[r].wake
  /\ task' = [task EXCEPT ![r] = row']
  /\ \A q \in Runs \ {r} : ctx'[q] = ctx[q]
  /\ UNCHANGED <<lock, receipts, outcomes, acked, toolRan, budget>>

Parked(r) ==
  /\ Live /\ pc[r] = "afterFailure" /\ Leave(r, "idle")
  /\ Carried(row) /\ row'.status = "waiting_for_model"
  /\ UNCHANGED <<receipts, outcomes, acked, toolRan, budget>>

Left(r) ==
  /\ \/ pc[r] = "queued" /\ lock = Free /\ Live /\ UNCHANGED <<row, acked>>
     \/ pc[r] = "recVerStart" /\ ~Live /\ Event
     \/ pc[r] \in {"recCatFail", "recExhausted", "recWindow", "recCompleted"} /\ Event
  /\ Leave(r, "idle")
  /\ UNCHANGED <<receipts, outcomes, toolRan, budget>>

Raised(r) ==
  /\ \/ pc[r] = "queued" /\ lock = Free /\ (Live => MayExecute) /\ UNCHANGED budget
     \/ pc[r] \in {"top", "afterFailure", "judged"} /\ ~Live /\ UNCHANGED budget
     \/ pc[r] \in RunRecords /\ budget.faults > 0 /\ budget'.faults = budget.faults - 1
        /\ budget'.crashes = budget.crashes /\ budget'.expiries = budget.expiries
  /\ \/ Live /\ Carried(row) /\ row'.status = "failed" /\ Leave(r, "recFailure")
     \/ ~Live /\ Missed /\ Leave(r, "idle")
  /\ UNCHANGED <<receipts, outcomes, acked, toolRan>>

Polled ==
  /\ Missed /\ row.store = "expired"
  /\ UNCHANGED <<lock, pc, task, ctx, receipts, outcomes, acked, toolRan, budget>>

Died ==
  /\ budget.crashes > 0 /\ budget'.crashes = budget.crashes - 1
  /\ budget'.expiries = budget.expiries /\ budget'.faults = budget.faults
  /\ lock' = Free
  /\ \A r \in Runs : pc'[r] = "idle"
  /\ UNCHANGED <<row, receipts, outcomes, acked, toolRan>>

Expired ==
  /\ budget.expiries > 0 /\ budget'.expiries = budget.expiries - 1
  /\ budget'.crashes = budget.crashes /\ budget'.faults = budget.faults
  /\ Live /\ row'.store = "expired"
  /\ row'.status = row.status /\ row'.wait = row.wait /\ row'.gen = row.gen
  /\ row'.used = row.used /\ row'.tel = row.tel /\ row'.verdict = row.verdict
  /\ UNCHANGED <<lock, pc, task, ctx, receipts, outcomes, acked, toolRan>>

Ticked ==
  /\ row'.wait = Less(row.wait)
  /\ row'.store = row.store /\ row'.status = row.status /\ row'.gen = row.gen
  /\ row'.used = row.used /\ row'.tel = row.tel /\ row'.verdict = row.verdict
  /\ \A r \in Runs : pc[r] \notin Midway
  /\ \A q \in Runs : ctx'[q].passed = ctx[q].passed /\ ctx'[q].wake = Less(ctx[q].wake)
  /\ UNCHANGED <<lock, pc, task, receipts, outcomes, acked, toolRan, budget>>

RunKind(r) ==
  \/ Submitted(r) \/ Answered(r) \/ Moved(r) \/ Recorded(r) \/ Entered(r)
  \/ Started(r) \/ Deferred(r) \/ Attempted(r) \/ Receipted(r) \/ Called(r)
  \/ CallLogged(r) \/ Concluded(r) \/ Answering(r) \/ Fetched(r) \/ Judged(r)
  \/ Finished(r) \/ Slept(r) \/ Parked(r) \/ Left(r) \/ Raised(r)

AnyKind ==
  \/ \E r \in Runs : RunKind(r)
  \/ Polled \/ Died \/ Expired \/ Ticked \/ UNCHANGED vars

-----------------------------------------------------------------------------
(* The writes, field by field.                                             *)
(* Journal.put leaves what it was given.                                    *)
LEMMA PutCarries ==
  ASSUME NEW t \in Rows, Put(t)
  PROVE  Carried(t) /\ row'.status = t.status /\ row'.wait = t.wait
BY DEF Put, Rows, Carried

(* A write that changes the status and perhaps the wait leaves the rest.    *)
LEMMA WriteCarries ==
  ASSUME NEW t \in Rows, NEW s \in Statuses, NEW w \in 0..RetryDelay,
         Put([t EXCEPT !.status = s, !.wait = w])
  PROVE  Carried(t) /\ row'.status = s /\ row'.wait = w
<1>1. [t EXCEPT !.status = s, !.wait = w] \in Rows
  BY StatusType
<1> QED
  BY <1>1, PutCarries DEF Carried, Rows

LEMMA StatusCarries ==
  ASSUME NEW t \in Rows, NEW s \in Statuses, Put([t EXCEPT !.status = s])
  PROVE  Carried(t) /\ row'.status = s /\ row'.wait = t.wait
<1>1. [t EXCEPT !.status = s] \in Rows
  BY DEF Rows
<1> QED
  BY <1>1, PutCarries DEF Carried, Rows

(* Journal.get of a row that is not alive.                                  *)
LEMMA ForgetMisses ==
  ASSUME row \in Rows, Forget
  PROVE  Missed
BY DEF Forget, Missed, EmptyRow

(* _record merges the sinks that accepted the event into the row as it is.  *)
LEMMA RecordEvent ==
  ASSUME TypeOK, NEW acks \in SUBSET Sinks, Record(acks)
  PROVE  Event
<1>0. row \in Rows /\ acked' = acked \cup acks
  BY DEF TypeOK, Record
<1>1. CASE Live
  <2>1. [row EXCEPT !.tel = @ \cup acks] \in Rows
    BY <1>0 DEF Rows
  <2>2. Put([row EXCEPT !.tel = @ \cup acks])
    BY <1>1 DEF Record
  <2>3. /\ row'.store = "live" /\ row'.status = row.status /\ row'.wait = row.wait
        /\ row'.gen = row.gen /\ row'.used = row.used /\ row'.verdict = row.verdict
        /\ row'.tel = row.tel \cup acks
    BY <2>1, <2>2, <1>0, <1>1, PutCarries DEF Carried, Rows, Live
  <2> QED
    BY <2>3, <1>0, <1>1 DEF Event
<1>2. CASE ~Live
  BY <1>2, <1>0, ForgetMisses DEF Record, Event
<1> QED
  BY <1>1, <1>2

(* An exception that escapes run() leaves a failed row or no row.           *)
LEMMA RaiseLeaves ==
  ASSUME TypeOK, NEW r \in Runs, Raise(r)
  PROVE  \/ Live /\ Carried(row) /\ row'.status = "failed" /\ Leave(r, "recFailure")
         \/ ~Live /\ Missed /\ Leave(r, "idle")
<1>0. row \in Rows
  BY DEF TypeOK
<1>1. CASE Live
  BY <1>0, <1>1, StatusCarries DEF Raise, Statuses
<1>2. CASE ~Live
  BY <1>0, <1>2, ForgetMisses DEF Raise
<1> QED
  BY <1>1, <1>2

(* What a coroutine does is of one of the kinds: one step of the proof per  *)
(* action.                                                                  *)
LEMMA RunKinds ==
  ASSUME TypeOK, GateInv, TypeOK'
  PROVE  \A r \in Runs : Request(r) \/ Acquire(r) \/ Step(r) \/ RecordFaults(r) => RunKind(r)
<1>0. /\ row \in Rows /\ lock \in Runs \cup {Free} /\ pc \in [Runs -> Pcs]
      /\ task \in [Runs -> Rows] /\ ctx \in [Runs -> Ctxs]
      /\ RetryDelay \in Nat \ {0}
  BY BoundsAssumption DEF TypeOK
<1>1. ASSUME NEW r \in Runs, Submit(r) PROVE RunKind(r)
  <2>1. PICK ambiguous \in BOOLEAN :
          Put([EmptyRow("none") EXCEPT !.ambiguous = ambiguous,
                 !.status = IF ambiguous THEN "waiting_for_human" ELSE "ready"])
    BY <1>1 DEF Submit
  <2>2. /\ row'.store = "live" /\ row'.status \in {"waiting_for_human", "ready"}
        /\ row'.gen = 0 /\ ~row'.used /\ row'.tel = {} /\ row'.verdict = NoVerdict
        /\ row'.wait = 0
    BY <1>1, <2>1 DEF Put, EmptyRow, Submit
  <2> QED
    BY <1>1, <2>2 DEF Submit, Submitted, Edge, RunKind
<1>2. ASSUME NEW r \in Runs, Answer(r) PROVE RunKind(r)
  <2>1. PICK ambiguous \in BOOLEAN :
          Put([row EXCEPT !.ambiguous = ambiguous,
                 !.status = IF ambiguous THEN "waiting_for_human" ELSE "ready"])
    BY <1>2 DEF Answer
  <2>2. [row EXCEPT !.ambiguous = ambiguous,
           !.status = IF ambiguous THEN "waiting_for_human" ELSE "ready"] \in Rows
    BY <1>0 DEF Rows, Statuses
  <2>3. Carried(row) /\ row'.status \in {"waiting_for_human", "ready"}
    BY <1>0, <2>1, <2>2, PutCarries DEF Carried, Rows
  <2> QED
    BY <1>2, <2>3 DEF Answer, Answered, Edge, RunKind
<1>3. ASSUME NEW r \in Runs, RequestDone(r) PROVE RunKind(r)
  <2>1. Event
    BY <1>3, RecordEvent DEF RequestDone
  <2>2. Goto(r, "idle") \/ Goto(r, "queued")
    BY <1>3 DEF RequestDone
  <2> QED
    BY <1>3, <2>1, <2>2 DEF RequestDone, Recorded, RunKind
<1>4. ASSUME NEW r \in Runs, PostRun(r) PROVE RunKind(r)
  BY <1>4 DEF PostRun, Moved, Edge, RunKind
<1>5. ASSUME NEW r \in Runs, Acquire(r) PROVE RunKind(r)
  <2>1. CASE MayExecute /\ lock' = r /\ Goto(r, "top")
             /\ task' = [task EXCEPT ![r] = row]
             /\ ctx' = [ctx EXCEPT ![r] = [NoCtx EXCEPT !.start = row.gen]]
             /\ UNCHANGED row
    BY <1>5, <2>1, <1>0 DEF Acquire, Entered, Edge, RunKind
  <2>2. CASE Live /\ Leave(r, "idle") /\ UNCHANGED row
    BY <1>5, <2>2 DEF Acquire, Left, RunKind
  <2>3. CASE Raise(r)
    <3>1. row.status # "waiting_for_human"
      BY <1>5 DEF Acquire, GateInv, Committed
    <3>2. Live => MayExecute
      BY <1>5, <2>3, <3>1, <1>0 DEF Acquire, MayExecute, Raise, Leave, Put, Goto, Live
    <3> QED
      BY <1>5, <2>3, <3>2, RaiseLeaves DEF Acquire, Raised, RunKind
  <2> QED
    BY <1>5, <2>1, <2>2, <2>3 DEF Acquire
<1>6. ASSUME NEW r \in Runs, LoopTop(r) PROVE RunKind(r)
  <2>1. CASE Live
    <3>1. Carried(row) /\ row'.status = "running" /\ row'.wait = 0
      BY <1>6, <2>1, <1>0, WriteCarries, WaitRange DEF LoopTop, Statuses
    <3> QED
      BY <1>6, <2>1, <3>1 DEF LoopTop, Started, Edge, RunKind
  <2>2. CASE ~Live
    BY <1>6, <2>2, RaiseLeaves DEF LoopTop, Raised, RunKind
  <2> QED
    BY <2>1, <2>2
<1>7. ASSUME NEW r \in Runs, WindowExhausted(r) PROVE RunKind(r)
  <2>1. CASE Live
    <3>1. Carried(row) /\ row'.status = "waiting_for_model" /\ row'.wait = RetryDelay
      BY <1>7, <2>1, <1>0, WriteCarries, WaitRange DEF WindowExhausted, Statuses
    <3> QED
      BY <1>7, <1>0, <2>1, <3>1 DEF WindowExhausted, Deferred, Edge, RunKind
  <2>2. CASE ~Live
    BY <1>7, <2>2, RaiseLeaves DEF WindowExhausted, Raised, RunKind
  <2> QED
    BY <2>1, <2>2
<1>8. ASSUME NEW r \in Runs, CatalogRefreshed(r) PROVE RunKind(r)
  BY <1>8 DEF CatalogRefreshed, Moved, Edge, RunKind
<1>9. ASSUME NEW r \in Runs, CatalogFailed(r) PROVE RunKind(r)
  <2>1. Carried(task[r]) /\ row'.status = "waiting_for_model" /\ row'.wait = RetryDelay
    BY <1>9, <1>0, WriteCarries, WaitRange DEF CatalogFailed, Statuses
  <2> QED
    BY <1>9, <1>0, <2>1 DEF CatalogFailed, Deferred, Edge, RunKind
<1>10. ASSUME NEW r \in Runs, CatalogRecorded(r) PROVE RunKind(r)
  <2>1. Event
    BY <1>10, RecordEvent DEF CatalogRecorded
  <2> QED
    BY <1>10, <2>1 DEF CatalogRecorded, Recorded, Edge, RunKind
<1>11. ASSUME NEW r \in Runs, Exhausted(r) PROVE RunKind(r)
  <2>1. PICK wait \in 1..RetryDelay :
          Put([task[r] EXCEPT !.status = "waiting_for_model", !.wait = wait])
    BY <1>11 DEF Exhausted
  <2>2. wait \in 0..RetryDelay
    BY <1>0
  <2>3. Carried(task[r]) /\ row'.status = "waiting_for_model" /\ row'.wait = wait
    BY <2>1, <2>2, <1>0, WriteCarries DEF Statuses
  <2> QED
    BY <1>11, <1>0, <2>3 DEF Exhausted, Deferred, Edge, RunKind
<1>12. ASSUME NEW r \in Runs, BeginAttempt(r) PROVE RunKind(r)
  <2>1. task[r].gen + 1 \in Nat
    BY <1>0, GenType
  <2>2. /\ task'[r].gen = task[r].gen + 1 /\ task'[r].used = task[r].used
        /\ task'[r].tel = task[r].tel /\ task'[r].verdict = task[r].verdict
        /\ task'[r].status = "running"
        /\ \A q \in Runs \ {r} : task'[q] = task[q]
    BY <1>12, <1>0, <2>1 DEF BeginAttempt, Rows
  <2>3. task'[r] \in Rows
    BY DEF TypeOK
  <2>4. Carried(task'[r]) /\ row'.status = "running"
    BY <1>12, <2>2, <2>3, PutCarries DEF BeginAttempt
  <2> QED
    BY <1>12, <2>2, <2>4 DEF BeginAttempt, Attempted, Edge, RunKind
<1>13. ASSUME NEW r \in Runs, ReceiveAttempt(r) PROVE RunKind(r)
  BY <1>13 DEF ReceiveAttempt, Receipted, Edge, RunKind
<1>14. ASSUME NEW r \in Runs, AttemptStarted(r) PROVE RunKind(r)
  <2>1. Event
    BY <1>14, RecordEvent DEF AttemptStarted
  <2>2. \A q \in Runs : ctx'[q].passed = ctx[q].passed /\ ctx'[q].wake = ctx[q].wake
    BY <1>14, <1>0 DEF AttemptStarted, Ctxs
  <2> QED
    BY <1>14, <2>1, <2>2 DEF AttemptStarted, Recorded, Edge, RunKind
<1>15. ASSUME NEW r \in Runs, ToolCall(r) PROVE RunKind(r)
  <2>1. \A q \in Runs : ctx'[q].passed = ctx[q].passed /\ ctx'[q].wake = ctx[q].wake
    BY <1>15, <1>0 DEF ToolCall, Ctxs
  <2>2. PICK ok \in BOOLEAN : /\ toolRan' = (toolRan \/ ok)
                             /\ task' = [task EXCEPT ![r].used = @ \/ ok]
    BY <1>15 DEF ToolCall
  <2>3. /\ task'[r].used = (task[r].used \/ ok)
        /\ task'[r].gen = task[r].gen /\ task'[r].tel = task[r].tel
        /\ task'[r].verdict = task[r].verdict /\ task'[r].status = task[r].status
        /\ \A q \in Runs \ {r} : task'[q] = task[q]
    BY <2>2, <1>0 DEF Rows
  <2> QED
    BY <1>15, <2>1, <2>2, <2>3 DEF ToolCall, Called, Edge, RunKind
<1>16. ASSUME NEW r \in Runs, ToolRecorded(r) PROVE RunKind(r)
  <2>1. PICK acks \in SUBSET Sinks :
          /\ acked' = acked \cup acks
          /\ IF Live
             THEN /\ Put([row EXCEPT !.tel = @ \cup acks, !.used = task[r].used])
                  /\ Goto(r, "chat") /\ UNCHANGED outcomes
             ELSE Forget /\ LogOutcome(r, FALSE) /\ Goto(r, "recFailed")
    BY <1>16 DEF ToolRecorded
  <2>2. CASE Live
    <3>1. [row EXCEPT !.tel = @ \cup acks, !.used = task[r].used] \in Rows
      BY <1>0 DEF Rows
    <3>2. /\ row'.store = "live" /\ row'.status = row.status /\ row'.wait = row.wait
          /\ row'.gen = row.gen /\ row'.used = task[r].used /\ row'.verdict = row.verdict
          /\ row'.tel = row.tel \cup acks
      BY <2>1, <2>2, <3>1, <1>0, PutCarries DEF Carried, Rows, Live
    <3> QED
      BY <1>16, <2>1, <2>2, <3>2 DEF ToolRecorded, CallLogged, Edge, RunKind
  <2>3. CASE ~Live
    <3>1. Event
      BY <2>1, <2>3, <1>0, ForgetMisses DEF Event
    <3> QED
      BY <1>16, <2>1, <2>3, <3>1 DEF ToolRecorded, Concluded, Edge, RunKind
  <2> QED
    BY <2>2, <2>3
<1>17. ASSUME NEW r \in Runs, ChatFailed(r) PROVE RunKind(r)
  BY <1>17 DEF ChatFailed, Concluded, Edge, RunKind
<1>18. ASSUME NEW r \in Runs, ChatDone(r) PROVE RunKind(r)
  <2>1. Carried(row) /\ row'.status = "verifying"
    BY <1>18, <1>0, StatusCarries DEF ChatDone, Statuses
  <2> QED
    BY <1>18, <2>1 DEF ChatDone, Answering, Edge, RunKind
<1>19. ASSUME NEW r \in Runs, FailureRecorded(r) PROVE RunKind(r)
  <2>1. Event
    BY <1>19, RecordEvent DEF FailureRecorded
  <2> QED
    BY <1>19, <2>1 DEF FailureRecorded, Recorded, Edge, RunKind
<1>20. ASSUME NEW r \in Runs, Park(r) PROVE RunKind(r)
  <2>0. ~NeedsHuman
    BY <1>20 DEF Park, GateInv, NeedsHuman, Committed, LockPcs, Midway
  <2>1. CASE Live
    <3>1. PICK wait \in 0..RetryDelay :
            Put([row EXCEPT !.status = "waiting_for_model", !.wait = wait])
      BY <1>20, <2>0, <2>1 DEF Park
    <3>2. Carried(row) /\ row'.status = "waiting_for_model"
      BY <3>1, <1>0, WriteCarries DEF Statuses
    <3> QED
      BY <1>20, <2>1, <3>2 DEF Park, Parked, RunKind
  <2>2. CASE ~Live
    BY <1>20, <2>2, RaiseLeaves DEF Park, Raised, RunKind
  <2> QED
    BY <2>1, <2>2
<1>21. ASSUME NEW r \in Runs, RetryLater(r) PROVE RunKind(r)
  <2>1. PICK delay \in 1..RetryDelay :
          /\ Put([row EXCEPT !.status = "waiting_for_model", !.wait = delay])
          /\ ctx' = [ctx EXCEPT ![r].wake = delay]
    BY <1>21 DEF RetryLater
  <2>2. delay \in 0..RetryDelay
    BY <1>0
  <2>3. Carried(row) /\ row'.status = "waiting_for_model" /\ row'.wait = delay
    BY <2>1, <2>2, <1>0, WriteCarries DEF Statuses
  <2>4. ctx'[r].wake = delay /\ \A q \in Runs \ {r} : ctx'[q] = ctx[q]
    BY <2>1, <1>0 DEF Ctxs
  <2> QED
    BY <1>21, <2>3, <2>4 DEF RetryLater, Slept, Edge, RunKind
<1>22. ASSUME NEW r \in Runs, SleptOut(r) PROVE RunKind(r)
  BY <1>22 DEF SleptOut, Moved, Edge, RunKind
<1>23. ASSUME NEW r \in Runs, VerificationStarted(r) PROVE RunKind(r)
  <2>1. Event
    BY <1>23, RecordEvent DEF VerificationStarted
  <2> QED
    BY <1>23, <2>1 DEF VerificationStarted, Fetched, Left, Edge, RunKind
<1>24. ASSUME NEW r \in Runs, Verify(r) PROVE RunKind(r)
  <2>1. PICK checks \in BOOLEAN :
          /\ task' = [task EXCEPT ![r].verdict =
                         [gen |-> task[r].gen, passed |-> GatePasses(task[r], checks)]]
          /\ ctx' = [ctx EXCEPT ![r].passed = GatePasses(task[r], checks)]
    BY <1>24 DEF Verify
  <2>2. PICK p : p = GatePasses(task[r], checks)
    OBVIOUS
  <2>3. p => (Executable => task[r].used) /\ (NeedTelemetry => task[r].tel = Sinks)
    BY <2>2 DEF GatePasses
  <2>4. /\ task'[r].gen = task[r].gen /\ task'[r].used = task[r].used
        /\ task'[r].tel = task[r].tel /\ task'[r].status = task[r].status
        /\ task'[r].wait = task[r].wait
        /\ task'[r].verdict = [gen |-> task[r].gen, passed |-> p]
        /\ \A q \in Runs \ {r} : task'[q] = task[q]
    BY <2>1, <2>2, <1>0 DEF Rows
  <2>5. ctx'[r].passed = p /\ \A q \in Runs \ {r} : ctx'[q] = ctx[q]
    BY <2>1, <2>2, <1>0 DEF Ctxs
  <2>6. task'[r] \in Rows
    BY DEF TypeOK
  <2>7. Carried(task'[r]) /\ row'.status = task[r].status /\ row'.wait = task[r].wait
    BY <1>24, <2>4, <2>6, PutCarries DEF Verify
  <2>8. task'[r].verdict.gen = task[r].gen /\ task'[r].verdict.passed = ctx'[r].passed
    BY <2>4, <2>5
  <2>9. ctx'[r].passed => (Executable => task[r].used) /\ (NeedTelemetry => task[r].tel = Sinks)
    BY <2>3, <2>5
  <2> QED
    BY <1>24, <2>4, <2>5, <2>7, <2>8, <2>9 DEF Verify, Judged, Edge, RunKind
<1>25. ASSUME NEW r \in Runs, VerdictRecorded(r) PROVE RunKind(r)
  <2>1. Event
    BY <1>25, RecordEvent DEF VerdictRecorded
  <2> QED
    BY <1>25, <2>1 DEF VerdictRecorded, Recorded, Edge, RunKind
<1>26. ASSUME NEW r \in Runs, Complete(r) PROVE RunKind(r)
  <2>1. CASE Live
    <3>1. Carried(row) /\ row'.status = "completed"
      BY <1>26, <2>1, <1>0, StatusCarries DEF Complete, Statuses
    <3> QED
      BY <1>26, <2>1, <3>1 DEF Complete, Finished, Edge, RunKind
  <2>2. CASE ~Live
    BY <1>26, <2>2, RaiseLeaves DEF Complete, Raised, RunKind
  <2> QED
    BY <2>1, <2>2
<1>27. ASSUME NEW r \in Runs, LogCompletion(r) PROVE RunKind(r)
  BY <1>27 DEF LogCompletion, Concluded, Edge, RunKind
<1>28. ASSUME NEW r \in Runs, Reject(r) PROVE RunKind(r)
  BY <1>28 DEF Reject, Concluded, Edge, RunKind
<1>29. ASSUME NEW r \in Runs, Return(r) PROVE RunKind(r)
  <2>1. Event
    BY <1>29, RecordEvent DEF Return
  <2> QED
    BY <1>29, <2>1 DEF Return, Left, RunKind
<1>30. ASSUME NEW r \in Runs, FailureReported(r) PROVE RunKind(r)
  <2>1. Event
    BY <1>30, RecordEvent DEF FailureReported
  <2> QED
    BY <1>30, <2>1 DEF FailureReported, Recorded, RunKind
<1>31. ASSUME NEW r \in Runs, RecordFaults(r) PROVE RunKind(r)
  <2>1. /\ budget'.faults = budget.faults - 1
        /\ budget'.crashes = budget.crashes /\ budget'.expiries = budget.expiries
    BY <1>31 DEF RecordFaults, TypeOK
  <2> QED
    BY <1>31, <2>1, RaiseLeaves DEF RecordFaults, Raised, RunKind
<1>32. ASSUME NEW r \in Runs, ChatRecorded(r) PROVE RunKind(r)
  <2>1. Event
    BY <1>32, RecordEvent DEF ChatRecorded
  <2>2. Goto(r, "chat")
    BY <1>32, <1>0 DEF ChatRecorded, Goto
  <2> QED
    BY <1>32, <2>1, <2>2 DEF ChatRecorded, Recorded, Edge, RunKind
<1> QED
  BY <1>1, <1>2, <1>3, <1>4, <1>5, <1>6, <1>7, <1>8, <1>9, <1>10, <1>11,
     <1>12, <1>13, <1>14, <1>15, <1>16, <1>17, <1>18, <1>19, <1>20, <1>21, <1>22,
     <1>23, <1>24, <1>25, <1>26, <1>27, <1>28, <1>29, <1>30, <1>31, <1>32 DEF Request, Step

(* Time passing is of its kind.                                             *)
LEMMA TickKind ==
  ASSUME TypeOK, Tick
  PROVE  Ticked
<1>0. row \in Rows /\ ctx \in [Runs -> Ctxs]
  BY DEF TypeOK
<1>1. /\ row'.wait = Less(row.wait)
      /\ row'.store = row.store /\ row'.status = row.status /\ row'.gen = row.gen
      /\ row'.used = row.used /\ row'.tel = row.tel /\ row'.verdict = row.verdict
  BY <1>0 DEF Tick, Rows
<1>2. \A q \in Runs : ctx'[q].passed = ctx[q].passed /\ ctx'[q].wake = Less(ctx[q].wake)
  BY <1>0 DEF Tick, Ctxs
<1> QED
  BY <1>1, <1>2 DEF Tick, Ticked

(* Every step is of one of the kinds.                                       *)
LEMMA StepKinds == TypeOK /\ GateInv /\ [Next]_vars => AnyKind
<1> SUFFICES ASSUME TypeOK, GateInv, [Next]_vars PROVE AnyKind
  OBVIOUS
<1>0. row \in Rows
  BY DEF TypeOK
<1>t. TypeOK'
  BY TypeStep
<1>1. ASSUME NEW r \in Runs, Request(r) \/ Acquire(r) \/ Step(r) \/ RecordFaults(r)
      PROVE  AnyKind
  BY <1>1, <1>t, RunKinds DEF AnyKind
<1>2. CASE Poll
  BY <1>2, <1>0, ForgetMisses DEF Poll, Polled, AnyKind
<1>3. CASE Crash
  BY <1>3 DEF Crash, Died, AnyKind, TypeOK
<1>4. CASE Expire
  <2>1. /\ row'.store = "expired"
        /\ row'.status = row.status /\ row'.wait = row.wait /\ row'.gen = row.gen
        /\ row'.used = row.used /\ row'.tel = row.tel /\ row'.verdict = row.verdict
    BY <1>4, <1>0 DEF Expire, Rows
  <2> QED
    BY <1>4, <2>1 DEF Expire, Expired, AnyKind, TypeOK
<1>5. CASE Tick
  BY <1>5, TickKind DEF AnyKind
<1>6. CASE UNCHANGED vars
  BY <1>6 DEF AnyKind
<1> QED
  BY <1>1, <1>2, <1>3, <1>4, <1>5, <1>6 DEF Next

-----------------------------------------------------------------------------
(* The inductive invariants.                                               *)
(* The lock's holder is the one coroutine inside run().                    *)
LockInv == \A r \in Runs : pc[r] \in LockPcs <=> lock = r

(* The copy an execution holds agrees with the row as long as there is a   *)
(* row, and neither claims more than what really happened.                 *)
Agrees(r) ==
  /\ row.store \in {"live", "expired"} =>
       row.gen = task[r].gen /\ row.verdict = task[r].verdict /\ (row.used => task[r].used)
  /\ task[r].used => toolRan
  /\ task[r].tel \subseteq acked
  /\ task[r].verdict.gen <= task[r].gen

CopyInv ==
  /\ row.used => toolRan
  /\ row.tel \subseteq acked
  /\ row.verdict.gen <= row.gen
  /\ \A r \in Runs : pc[r] \in LockPcs => Agrees(r)

(* Receipts never run ahead of the generation that the row or a holder's   *)
(* copy names, and an attempt under way has its own.                       *)
Paid == {"recStarted", "chat", "recTool", "recVerStart", "verify", "recVerResult",
         "judged", "completedSaved"}

ReceiptInv ==
  /\ \A i, j \in DOMAIN receipts : receipts[i] = receipts[j] => i = j
  /\ row.store \in {"live", "expired"} => \A i \in DOMAIN receipts : receipts[i] <= row.gen
  /\ row.store = "none" => receipts = <<>>
  /\ \A r \in Runs : pc[r] \in LockPcs => \A i \in DOMAIN receipts : receipts[i] <= task[r].gen
  /\ \A r \in Runs : pc[r] = "attemptSaved" => \A i \in DOMAIN receipts : receipts[i] < task[r].gen
  /\ \A r \in Runs : pc[r] \in Paid => HasReceipt(task[r].gen)

(* A verdict that passed, and a row that is completed, are backed.         *)
CompletionInv ==
  /\ row.status = "completed" =>
       /\ row.verdict.gen = row.gen /\ row.verdict.passed
       /\ HasReceipt(row.gen)
       /\ Executable => toolRan
       /\ NeedTelemetry => acked = Sinks
  /\ \A r \in Runs : pc[r] \in LockPcs =>
       /\ task[r].status # "completed"
       /\ row.status = "completed" => pc[r] \in {"completedSaved", "recCompleted"}
  /\ \A r \in Runs : pc[r] \in {"recVerResult", "judged"} /\ ctx[r].passed =>
       /\ task[r].verdict.gen = task[r].gen /\ task[r].verdict.passed
       /\ Executable => toolRan
       /\ NeedTelemetry => acked = Sinks

(* A run that is about to return has said so in the row.                   *)
Ending == {"recCatFail", "recExhausted", "recWindow", "completedSaved", "recCompleted"}

OrphanInv ==
  /\ budget.crashes <= MaxCrashes
  /\ NoOrphanedExecution
  /\ \A r \in Runs : pc[r] \in Ending =>
       row.status \notin {"running", "verifying"}

(* A paid attempt is open while its execution is in Paid, and has exactly  *)
(* one outcome afterwards.                                                 *)
Undisturbed ==
  budget.crashes = MaxCrashes /\ budget.expiries = MaxExpiries /\ budget.faults = MaxFaults

Open(gen) == \E r \in Runs : pc[r] \in Paid /\ task[r].gen = gen

Logged(gen) == \E k \in DOMAIN outcomes : outcomes[k].gen = gen

AccountInv ==
  /\ budget.crashes <= MaxCrashes /\ budget.expiries <= MaxExpiries /\ budget.faults <= MaxFaults
  /\ Undisturbed =>
       /\ row.store \in {"none", "live"}
       /\ \A k \in DOMAIN outcomes : HasReceipt(outcomes[k].gen)
       /\ \A i \in DOMAIN receipts :
            IF Open(receipts[i]) THEN ~Logged(receipts[i]) ELSE HasOneOutcome(receipts[i])

(* An execution under way is not waiting, and one about to start another   *)
(* attempt has waited.                                                     *)
Underway == LockPcs \ {"top", "sleep", "recCatFail", "recExhausted", "recWindow",
                       "completedSaved", "recCompleted"}

BackoffInv ==
  \A r \in Runs :
    /\ pc[r] \in Underway => row.status # "waiting_for_model" /\ (pc[r] = "verify" => task[r].status # "waiting_for_model")
    /\ pc[r] = "top" => (row.status = "waiting_for_model" => row.wait = 0)
    /\ pc[r] = "sleep" => row.wait <= ctx[r].wake

-----------------------------------------------------------------------------
(* The lock has exactly the coroutine that is inside run() as its holder.   *)
LEMMA LockStep == TypeOK /\ LockInv /\ AnyKind => LockInv'
<1> SUFFICES ASSUME TypeOK, LockInv, AnyKind PROVE LockInv'
  OBVIOUS
<1>0. pc \in [Runs -> Pcs] /\ Free \notin Runs
  BY FreeAssumption DEF TypeOK
<1> USE <1>0 DEF LockInv, Goto, LockPcs, Midway, RunRecords
<1>1. ASSUME NEW r \in Runs,
             \/ Submitted(r) \/ Answered(r) \/ Moved(r) \/ Recorded(r) \/ Started(r)
             \/ Deferred(r) \/ Attempted(r) \/ Receipted(r) \/ Called(r)
      PROVE  LockInv'
  BY <1>1 DEF Edge, Submitted, Answered, Moved, Recorded, Started, Deferred, Attempted,
     Receipted, Called
<1>2. ASSUME NEW r \in Runs,
             \/ CallLogged(r) \/ Concluded(r) \/ Answering(r) \/ Fetched(r) \/ Judged(r)
             \/ Finished(r) \/ Slept(r)
      PROVE  LockInv'
  BY <1>2 DEF Edge, CallLogged, Concluded, Answering, Fetched, Judged, Finished, Slept
<1>3. ASSUME NEW r \in Runs, Entered(r) PROVE LockInv'
  BY <1>3 DEF Entered, Edge
<1>4. ASSUME NEW r \in Runs, Parked(r) \/ Left(r) PROVE LockInv'
  BY <1>4 DEF Parked, Left, Leave
<1>5. ASSUME NEW r \in Runs, Raised(r) PROVE LockInv'
  BY <1>5 DEF Raised, Leave
<1>6. CASE Polled \/ Expired \/ Ticked \/ UNCHANGED vars
  BY <1>6 DEF Polled, Expired, Ticked, vars
<1>7. CASE Died
  BY <1>7 DEF Died
<1> QED
  BY <1>1, <1>2, <1>3, <1>4, <1>5, <1>6, <1>7 DEF AnyKind, RunKind

(* Only the holder is inside run().                                         *)
LEMMA OneHolder ==
  ASSUME LockInv, NEW r \in Runs, pc[r] \in LockPcs, NEW q \in Runs, pc[q] \in LockPcs
  PROVE  q = r
BY DEF LockInv

-----------------------------------------------------------------------------
(* What the proofs below need of the types.                                 *)
LEMMA Typed ==
  ASSUME TypeOK
  PROVE  /\ row.store \in {"none", "live", "expired", "deleted"}
         /\ row.gen \in Nat /\ row.used \in BOOLEAN /\ row.wait \in Nat
         /\ row.verdict.gen \in Nat
         /\ pc \in [Runs -> Pcs] /\ DOMAIN task = Runs
         /\ \A q \in Runs : /\ task[q].gen \in Nat /\ task[q].used \in BOOLEAN
                            /\ task[q].verdict.gen \in Nat
                            /\ ctx[q].wake \in Nat
<1>1. row \in Rows /\ pc \in [Runs -> Pcs] /\ task \in [Runs -> Rows] /\ ctx \in [Runs -> Ctxs]
  BY DEF TypeOK
<1>2. 0..RetryDelay \subseteq Nat
  BY BoundsAssumption
<1>3. ASSUME NEW t \in Rows
      PROVE  /\ t.store \in {"none", "live", "expired", "deleted"}
             /\ t.gen \in Nat /\ t.used \in BOOLEAN /\ t.wait \in Nat
             /\ t.verdict.gen \in Nat
  BY <1>2 DEF Rows, Verdicts
<1>4. ASSUME NEW q \in Runs PROVE ctx[q].wake \in Nat
  BY <1>1, <1>2 DEF Ctxs
<1> QED
  BY <1>1, <1>3, <1>4

(* An outcome is logged and nothing else moves but the pc and perhaps what  *)
(* the _record before it leaves.                                            *)
LEMMA ConcludedMoves ==
  ASSUME NEW r \in Runs, Concluded(r)
  PROVE  /\ \/ Edge(r, "recTool", "recFailed") /\ ~Live /\ Event
            \/ Edge(r, "chat", "recFailed") /\ UNCHANGED <<row, acked>>
            \/ Edge(r, "judged", "afterFailure") /\ UNCHANGED <<row, acked>>
            \/ Edge(r, "completedSaved", "recCompleted") /\ UNCHANGED <<row, acked>>
         /\ UNCHANGED <<lock, task, ctx, receipts, toolRan, budget>>
         /\ \E ok \in BOOLEAN : LogOutcome(r, ok)
BY Zenon DEF Concluded

(* The copies agree with the row, and neither claims too much.              *)
LEMMA CopyStep == TypeOK /\ GateInv /\ LockInv /\ CopyInv /\ AnyKind => CopyInv'
<1> SUFFICES ASSUME TypeOK, GateInv, LockInv, CopyInv, AnyKind PROVE CopyInv'
  OBVIOUS
<1>0. /\ row.store \in {"none", "live", "expired", "deleted"}
      /\ row.gen \in Nat /\ row.used \in BOOLEAN /\ row.verdict.gen \in Nat
      /\ pc \in [Runs -> Pcs] /\ DOMAIN task = Runs
      /\ \A q \in Runs : /\ task[q].gen \in Nat /\ task[q].used \in BOOLEAN
                         /\ task[q].verdict.gen \in Nat
  BY Typed
<1>n. NoVerdict.gen = 0
  BY DEF NoVerdict
<1> USE <1>0, <1>n DEF CopyInv, Agrees, Goto, LockPcs, Midway, RunRecords, Live
<1>1. ASSUME NEW r \in Runs, Submitted(r) PROVE CopyInv'
  BY <1>1 DEF Edge, Submitted, GateInv
<1>2. ASSUME NEW r \in Runs, Answered(r) PROVE CopyInv'
  BY <1>2 DEF Edge, Answered, Carried
<1>3. ASSUME NEW r \in Runs, Moved(r) PROVE CopyInv'
  BY <1>3 DEF Edge, Moved
<1>4. ASSUME NEW r \in Runs, Recorded(r) PROVE CopyInv'
  BY <1>4 DEF Edge, Recorded, Event, Missed
<1>5. ASSUME NEW r \in Runs, Entered(r) PROVE CopyInv'
  BY <1>5, OneHolder DEF Edge, Entered, LockInv
<1>6. ASSUME NEW r \in Runs, Started(r) PROVE CopyInv'
  BY <1>6, OneHolder DEF Edge, Started, Carried
<1>7. ASSUME NEW r \in Runs, Deferred(r) PROVE CopyInv'
  BY <1>7, OneHolder DEF Edge, Deferred, Carried
<1>8. ASSUME NEW r \in Runs, Attempted(r) PROVE CopyInv'
  BY <1>8, OneHolder DEF Edge, Attempted, Carried
<1>9. ASSUME NEW r \in Runs, Receipted(r) PROVE CopyInv'
  BY <1>9 DEF Edge, Receipted
<1>10. ASSUME NEW r \in Runs, Called(r) PROVE CopyInv'
  BY <1>10 DEF Edge, Called
<1>11. ASSUME NEW r \in Runs, CallLogged(r) PROVE CopyInv'
  BY <1>11, OneHolder DEF Edge, CallLogged
<1>12. ASSUME NEW r \in Runs, Concluded(r) PROVE CopyInv'
  BY <1>12, ConcludedMoves DEF Edge, Event, Missed
<1>13. ASSUME NEW r \in Runs, Answering(r) PROVE CopyInv'
  BY <1>13 DEF Edge, Answering, Carried
<1>14. ASSUME NEW r \in Runs, Fetched(r) PROVE CopyInv'
  BY <1>14, OneHolder DEF Edge, Fetched, Event
<1>15. ASSUME NEW r \in Runs, Judged(r) PROVE CopyInv'
  BY <1>15, OneHolder DEF Edge, Judged, Carried
<1>16. ASSUME NEW r \in Runs, Finished(r) PROVE CopyInv'
  BY <1>16 DEF Edge, Finished, Carried
<1>17. ASSUME NEW r \in Runs, Slept(r) PROVE CopyInv'
  BY <1>17, OneHolder DEF Edge, Slept, Carried
<1>18. ASSUME NEW r \in Runs, Parked(r) PROVE CopyInv'
  BY <1>18 DEF Parked, Carried, Leave
<1>19. ASSUME NEW r \in Runs, Left(r) PROVE CopyInv'
  BY <1>19 DEF Left, Event, Missed, Leave
<1>20. ASSUME NEW r \in Runs, Raised(r) PROVE CopyInv'
  BY <1>20 DEF Raised, Carried, Missed, Leave
<1>21. CASE Polled
  BY <1>21 DEF Polled, Missed
<1>22. CASE Died
  BY <1>22 DEF Died
<1>23. CASE Expired
  BY <1>23 DEF Expired
<1>24. CASE Ticked
  BY <1>24 DEF Ticked
<1>25. CASE UNCHANGED vars
  BY <1>25 DEF vars
<1> QED
  BY <1>1, <1>2, <1>3, <1>4, <1>5, <1>6, <1>7, <1>8, <1>9, <1>10, <1>11, <1>12, <1>13,
     <1>14, <1>15, <1>16, <1>17, <1>18, <1>19, <1>20, <1>21, <1>22, <1>23, <1>24, <1>25
  DEF AnyKind, RunKind

-----------------------------------------------------------------------------
(* A receipt appended to the others.                                        *)
LEMMA Receipt ==
  ASSUME receipts \in Seq(Nat), NEW g \in Nat, receipts' = Append(receipts, g)
  PROVE  /\ DOMAIN receipts \subseteq DOMAIN receipts'
         /\ \A i \in DOMAIN receipts : receipts'[i] = receipts[i]
         /\ \E n \in DOMAIN receipts' :
              /\ receipts'[n] = g
              /\ \A i \in DOMAIN receipts' : i = n \/ i \in DOMAIN receipts
<1>1. Len(receipts) \in Nat /\ DOMAIN receipts = 1..Len(receipts)
  OBVIOUS
<1>2. DOMAIN receipts' = 1..(Len(receipts) + 1) /\ receipts'[Len(receipts) + 1] = g
  OBVIOUS
<1>3. \A i \in DOMAIN receipts : receipts'[i] = receipts[i]
  OBVIOUS
<1>4. /\ Len(receipts) + 1 \in DOMAIN receipts'
      /\ \A i \in DOMAIN receipts' : i = Len(receipts) + 1 \/ i \in DOMAIN receipts
  BY <1>1, <1>2
<1> QED
  BY <1>1, <1>2, <1>3, <1>4

(* Steps that append none keep them, as long as no execution moves up.      *)
LEMMA ReceiptsKept ==
  ASSUME ReceiptInv, receipts' = receipts,
         \A q \in Runs : pc'[q] \in LockPcs => task'[q] = task[q],
         (row'.store = row.store /\ row'.gen = row.gen) \/ row'.store = "deleted",
         \A q \in Runs : /\ pc'[q] \in LockPcs => pc[q] \in LockPcs
                         /\ pc'[q] = "attemptSaved" => pc[q] = "attemptSaved"
                         /\ pc'[q] \in Paid => pc[q] \in Paid
  PROVE  ReceiptInv'
<1>1. \A q \in Runs : pc'[q] = "attemptSaved" \/ pc'[q] \in Paid => task'[q] = task[q]
  BY DEF Paid, LockPcs, Midway, RunRecords
<1> QED
  BY <1>1 DEF ReceiptInv, HasReceipt

(* Receipts stay distinct and never run ahead.                              *)
LEMMA ReceiptStep ==
  TypeOK /\ GateInv /\ LockInv /\ CopyInv /\ ReceiptInv /\ AnyKind => ReceiptInv'
<1> SUFFICES ASSUME TypeOK, GateInv, LockInv, CopyInv, ReceiptInv, AnyKind PROVE ReceiptInv'
  OBVIOUS
<1>0. /\ row.store \in {"none", "live", "expired", "deleted"}
      /\ row.gen \in Nat
      /\ pc \in [Runs -> Pcs] /\ DOMAIN task = Runs
      /\ \A q \in Runs : task[q].gen \in Nat
  BY Typed
<1>s. receipts \in Seq(Nat) /\ \A i \in DOMAIN receipts : receipts[i] \in Nat
  BY DEF TypeOK
<1>c. \A q \in Runs : pc[q] \in LockPcs /\ row.store \in {"live", "expired"} => row.gen = task[q].gen
  BY DEF CopyInv, Agrees
<1>e. DOMAIN receipts = {} <=> receipts = <<>>
  BY <1>s
<1> USE <1>0, <1>s, <1>c, <1>e DEF ReceiptInv, HasReceipt, Paid, Goto, LockPcs, Midway, RunRecords, Live
<1>1. ASSUME NEW r \in Runs, Submitted(r) PROVE ReceiptInv'
  BY <1>1 DEF Edge, Submitted, GateInv
<1>2. ASSUME NEW r \in Runs, Answered(r) PROVE ReceiptInv'
  BY <1>2 DEF Edge, Answered, Carried
<1>3. ASSUME NEW r \in Runs, Moved(r) PROVE ReceiptInv'
  <2>1. \A q \in Runs :
          /\ pc'[q] \in LockPcs => pc[q] \in LockPcs
          /\ pc'[q] = "attemptSaved" => pc[q] = "attemptSaved"
          /\ pc'[q] \in Paid => pc[q] \in Paid
    BY <1>3 DEF Edge, Moved
  <2>2. /\ receipts' = receipts /\ task' = task
        /\ (row'.store = row.store /\ row'.gen = row.gen) \/ row'.store = "deleted"
    BY <1>3 DEF Edge, Moved
  <2> QED
    BY <2>1, <2>2, ReceiptsKept
<1>4. ASSUME NEW r \in Runs, Recorded(r) PROVE ReceiptInv'
  <2>1. \A q \in Runs :
          /\ pc'[q] \in LockPcs => pc[q] \in LockPcs
          /\ pc'[q] = "attemptSaved" => pc[q] = "attemptSaved"
          /\ pc'[q] \in Paid => pc[q] \in Paid
    BY <1>4 DEF Edge, Recorded, Event, Missed
  <2>2. /\ receipts' = receipts /\ task' = task
        /\ (row'.store = row.store /\ row'.gen = row.gen) \/ row'.store = "deleted"
    BY <1>4 DEF Edge, Recorded, Event, Missed
  <2> QED
    BY <2>1, <2>2, ReceiptsKept
<1>5. ASSUME NEW r \in Runs, Entered(r) PROVE ReceiptInv'
  BY <1>5, OneHolder DEF Edge, Entered, MayExecute, LockInv
<1>6. ASSUME NEW r \in Runs, Started(r) PROVE ReceiptInv'
  BY <1>6, OneHolder DEF Edge, Started, Carried
<1>7. ASSUME NEW r \in Runs, Deferred(r) PROVE ReceiptInv'
  BY <1>7, OneHolder, SMTT(30) DEF Edge, Deferred, Carried
<1>8. ASSUME NEW r \in Runs, Attempted(r) PROVE ReceiptInv'
  BY <1>8, OneHolder DEF Edge, Attempted, Carried
<1>9. ASSUME NEW r \in Runs, Receipted(r) PROVE ReceiptInv'
  <2>1. pc[r] = "attemptSaved" /\ receipts' = Append(receipts, task[r].gen)
        /\ pc' = [pc EXCEPT ![r] = "recStarted"] /\ task' = task /\ row' = row
    BY <1>9 DEF Receipted, Edge
  <2>2. PICK n \in DOMAIN receipts' :
          /\ receipts'[n] = task[r].gen
          /\ \A i \in DOMAIN receipts' : i = n \/ i \in DOMAIN receipts
    BY <2>1, Receipt
  <2>3. /\ DOMAIN receipts \subseteq DOMAIN receipts'
        /\ \A i \in DOMAIN receipts : receipts'[i] = receipts[i]
    BY <2>1, Receipt
  <2>4. \A i \in DOMAIN receipts : receipts[i] < task[r].gen
    BY <2>1
  <2>5. \A q \in Runs : pc[q] \in LockPcs => q = r
    BY <2>1, OneHolder
  <2>6. row.store # "none"
    BY <2>1 DEF GateInv
  <2>7. \A i, j \in DOMAIN receipts' : receipts'[i] = receipts'[j] => i = j
    BY <2>2, <2>3, <2>4
  <2>8. \A i \in DOMAIN receipts' : receipts'[i] <= task[r].gen
    BY <2>2, <2>3, <2>4
  <2> QED
    BY <2>1, <2>2, <2>3, <2>5, <2>6, <2>7, <2>8
<1>10. ASSUME NEW r \in Runs, Called(r) PROVE ReceiptInv'
  BY <1>10 DEF Edge, Called
<1>11. ASSUME NEW r \in Runs, CallLogged(r) PROVE ReceiptInv'
  BY <1>11, OneHolder DEF Edge, CallLogged
<1>12. ASSUME NEW r \in Runs, Concluded(r) PROVE ReceiptInv'
  <2>1. \A q \in Runs :
          /\ pc'[q] \in LockPcs => pc[q] \in LockPcs
          /\ pc'[q] = "attemptSaved" => pc[q] = "attemptSaved"
          /\ pc'[q] \in Paid => pc[q] \in Paid
    BY <1>12, ConcludedMoves DEF Edge, Event, Missed
  <2>2. /\ receipts' = receipts /\ task' = task
        /\ (row'.store = row.store /\ row'.gen = row.gen) \/ row'.store = "deleted"
    BY <1>12, ConcludedMoves DEF Edge, Event, Missed
  <2> QED
    BY <2>1, <2>2, ReceiptsKept
<1>13. ASSUME NEW r \in Runs, Answering(r) PROVE ReceiptInv'
  BY <1>13 DEF Edge, Answering, Carried
<1>14. ASSUME NEW r \in Runs, Fetched(r) PROVE ReceiptInv'
  BY <1>14, OneHolder DEF Edge, Fetched, Event, Missed
<1>15. ASSUME NEW r \in Runs, Judged(r) PROVE ReceiptInv'
  BY <1>15, OneHolder DEF Edge, Judged, Carried
<1>16. ASSUME NEW r \in Runs, Finished(r) PROVE ReceiptInv'
  BY <1>16 DEF Edge, Finished, Carried
<1>17. ASSUME NEW r \in Runs, Slept(r) PROVE ReceiptInv'
  BY <1>17, OneHolder DEF Edge, Slept, Carried
<1>18. ASSUME NEW r \in Runs, Parked(r) PROVE ReceiptInv'
  BY <1>18 DEF Parked, Carried, Leave
<1>19. ASSUME NEW r \in Runs, Left(r) PROVE ReceiptInv'
  BY <1>19 DEF Left, Event, Missed, Leave
<1>20. ASSUME NEW r \in Runs, Raised(r) PROVE ReceiptInv'
  <2>1. /\ receipts' = receipts
        /\ \A q \in Runs \ {r} : pc'[q] = pc[q] /\ task'[q] = task[q]
        /\ pc'[r] \in {"idle", "recFailure"}
    BY <1>20 DEF Raised, Leave
  <2>2. \/ row'.store = row.store /\ row'.gen = row.gen
        \/ row'.store = "deleted"
    BY <1>20 DEF Raised, Carried, Missed
  <2>3. \A q \in Runs :
          /\ pc'[q] \in LockPcs => pc[q] \in LockPcs
          /\ pc'[q] = "attemptSaved" => pc[q] = "attemptSaved"
          /\ pc'[q] \in Paid => pc[q] \in Paid
    BY <2>1
  <2>4. \A q \in Runs : pc'[q] \in LockPcs => task'[q] = task[q]
    BY <2>1
  <2> HIDE DEF ReceiptInv, HasReceipt, Paid, LockPcs
  <2> QED
    BY <2>1, <2>2, <2>3, <2>4, ReceiptsKept
<1>21. CASE Polled
  BY <1>21 DEF Polled, Missed
<1>22. CASE Died
  BY <1>22 DEF Died
<1>23. CASE Expired
  BY <1>23 DEF Expired
<1>24. CASE Ticked
  BY <1>24 DEF Ticked
<1>25. CASE UNCHANGED vars
  BY <1>25 DEF vars
<1> QED
  BY <1>1, <1>2, <1>3, <1>4, <1>5, <1>6, <1>7, <1>8, <1>9, <1>10, <1>11, <1>12, <1>13,
     <1>14, <1>15, <1>16, <1>17, <1>18, <1>19, <1>20, <1>21, <1>22, <1>23, <1>24, <1>25
  DEF AnyKind, RunKind

-----------------------------------------------------------------------------
(* Receipts are never withdrawn.                                            *)
LEMMA ReceiptsStay ==
  ASSUME TypeOK, AnyKind
  PROVE  \A g : HasReceipt(g) => HasReceipt(g)'
<1>1. CASE receipts' = receipts
  BY <1>1 DEF HasReceipt
<1>2. ASSUME NEW r \in Runs, Receipted(r) PROVE \A g : HasReceipt(g) => HasReceipt(g)'
  BY <1>2, Receipt, Typed DEF TypeOK, Receipted, HasReceipt
<1>3. ASSUME NEW r \in Runs, Concluded(r) PROVE receipts' = receipts
  BY <1>3, ConcludedMoves
<1> QED
  BY <1>1, <1>2, <1>3 DEF AnyKind, RunKind, Submitted, Answered, Moved, Recorded, Entered,
     Started, Deferred, Attempted, Called, CallLogged, Answering, Fetched, Judged, Finished,
     Slept, Parked, Left, Raised, Polled, Died, Expired, Ticked, vars

(* Tools that ran have run, and sinks that accepted have accepted.          *)
LEMMA HistoryStays ==
  ASSUME TypeOK, TypeOK', AnyKind
  PROVE  (toolRan => toolRan') /\ (acked = Sinks => acked' = Sinks)
<1>1. acked' \subseteq Sinks /\ acked \subseteq Sinks
  BY DEF TypeOK
<1>2. ASSUME NEW r \in Runs, Concluded(r) PROVE toolRan' = toolRan /\ acked \subseteq acked'
  BY <1>2, ConcludedMoves DEF Event
<1>3. ASSUME NEW r \in Runs, Called(r) PROVE (toolRan => toolRan') /\ acked' = acked
  BY <1>3 DEF Called
<1>4. ASSUME NEW r \in Runs,
             \/ Submitted(r) \/ Answered(r) \/ Moved(r) \/ Recorded(r) \/ Entered(r)
             \/ Started(r) \/ Deferred(r) \/ Attempted(r) \/ Receipted(r)
             \/ CallLogged(r) \/ Answering(r) \/ Fetched(r) \/ Judged(r)
             \/ Finished(r) \/ Slept(r) \/ Parked(r) \/ Left(r) \/ Raised(r)
      PROVE  toolRan' = toolRan /\ acked \subseteq acked'
  BY <1>4 DEF Submitted, Answered, Moved, Recorded, Entered, Started, Deferred, Attempted,
     Receipted, CallLogged, Answering, Fetched, Judged, Finished, Slept, Parked, Left, Raised,
     Event
<1>5. CASE Polled \/ Died \/ Expired \/ Ticked \/ UNCHANGED vars
  BY <1>5 DEF Polled, Died, Expired, Ticked, vars
<1> QED
  BY <1>1, <1>2, <1>3, <1>4, <1>5 DEF AnyKind, RunKind

(* A completed row, and a verdict that passed, are backed.                  *)
LEMMA CompletionStep ==
  /\ TypeOK /\ TypeOK' /\ GateInv /\ LockInv /\ CopyInv /\ ReceiptInv
  /\ CompletionInv /\ AnyKind
  => CompletionInv'
<1> SUFFICES ASSUME TypeOK, TypeOK', GateInv, LockInv, CopyInv, ReceiptInv, CompletionInv, AnyKind
             PROVE  CompletionInv'
  OBVIOUS
<1>0. /\ row.store \in {"none", "live", "expired", "deleted"}
      /\ pc \in [Runs -> Pcs] /\ DOMAIN task = Runs /\ DOMAIN ctx = Runs
  BY Typed DEF TypeOK
<1>h. /\ toolRan => toolRan'
      /\ acked = Sinks => acked' = Sinks
      /\ \A g : HasReceipt(g) => HasReceipt(g)'
  BY HistoryStays, ReceiptsStay
<1>c. \A q \in Runs : pc[q] \in LockPcs =>
        /\ row.store \in {"live", "expired"} =>
             row.gen = task[q].gen /\ row.verdict = task[q].verdict
        /\ task[q].used => toolRan
        /\ task[q].tel \subseteq acked
  BY DEF CopyInv, Agrees
<1>r. \A q \in Runs : pc[q] \in {"judged", "recVerResult"} => HasReceipt(task[q].gen)
  BY DEF ReceiptInv, Paid
<1>g. row.store = "none" => \A q \in Runs : pc[q] = "idle"
  BY DEF GateInv
<1>l. \A p, q \in Runs : pc[p] \in LockPcs /\ pc[q] \in LockPcs => p = q
  BY OneHolder
<1> USE <1>0, <1>h, <1>c, <1>g, <1>l DEF CompletionInv, Goto, LockPcs, Midway, RunRecords, Live
<1>1. ASSUME NEW r \in Runs, Submitted(r) PROVE CompletionInv'
  BY <1>1 DEF Edge, Submitted
<1>2. ASSUME NEW r \in Runs, Answered(r) PROVE CompletionInv'
  BY <1>2 DEF Edge, Answered, Carried
<1>3. ASSUME NEW r \in Runs, Moved(r) PROVE CompletionInv'
  BY <1>3 DEF Edge, Moved
<1>4. ASSUME NEW r \in Runs, Recorded(r) PROVE CompletionInv'
  BY <1>4 DEF Edge, Recorded, Event, Missed
<1>5. ASSUME NEW r \in Runs, Entered(r) PROVE CompletionInv'
  BY <1>5 DEF Edge, Entered, MayExecute
<1>6. ASSUME NEW r \in Runs, Started(r) PROVE CompletionInv'
  BY <1>6 DEF Edge, Started, Carried
<1>7. ASSUME NEW r \in Runs, Deferred(r) PROVE CompletionInv'
  BY <1>7 DEF Edge, Deferred, Carried
<1>8. ASSUME NEW r \in Runs, Attempted(r) PROVE CompletionInv'
  BY <1>8 DEF Edge, Attempted, Carried
<1>9. ASSUME NEW r \in Runs, Receipted(r) PROVE CompletionInv'
  BY <1>9 DEF Edge, Receipted
<1>10. ASSUME NEW r \in Runs, Called(r) PROVE CompletionInv'
  BY <1>10 DEF Edge, Called
<1>11. ASSUME NEW r \in Runs, CallLogged(r) PROVE CompletionInv'
  BY <1>11 DEF Edge, CallLogged
<1>12. ASSUME NEW r \in Runs, Concluded(r) PROVE CompletionInv'
  BY <1>12, ConcludedMoves DEF Edge, Event, Missed
<1>13. ASSUME NEW r \in Runs, Answering(r) PROVE CompletionInv'
  BY <1>13 DEF Edge, Answering, Carried
<1>14. ASSUME NEW r \in Runs, Fetched(r) PROVE CompletionInv'
  BY <1>14 DEF Edge, Fetched, Event, Missed
<1>15. ASSUME NEW r \in Runs, Judged(r) PROVE CompletionInv'
  <2>1. task[r].tel = Sinks => acked = Sinks
    BY <1>15 DEF Edge, Judged, TypeOK
  <2>2. /\ row'.status # "completed" /\ task'[r].status # "completed"
        /\ pc[r] = "verify" /\ pc' = [pc EXCEPT ![r] = "recVerResult"]
        /\ acked' = acked /\ toolRan' = toolRan
    BY <1>15 DEF Edge, Judged
  <2>3. ctx'[r].passed =>
          /\ task'[r].verdict.gen = task'[r].gen /\ task'[r].verdict.passed
          /\ Executable => toolRan
          /\ NeedTelemetry => acked = Sinks
    BY <1>15, <2>1 DEF Edge, Judged
  <2>4. \A q \in Runs \ {r} : task'[q] = task[q] /\ ctx'[q] = ctx[q]
    BY <1>15 DEF Judged
  <2> QED
    BY <2>2, <2>3, <2>4
<1>16. ASSUME NEW r \in Runs, Finished(r) PROVE CompletionInv'
  BY <1>16, <1>r DEF Edge, Finished, Carried
<1>17. ASSUME NEW r \in Runs, Slept(r) PROVE CompletionInv'
  BY <1>17 DEF Edge, Slept, Carried
<1>18. ASSUME NEW r \in Runs, Parked(r) PROVE CompletionInv'
  BY <1>18 DEF Parked, Carried, Leave
<1>19. ASSUME NEW r \in Runs, Left(r) PROVE CompletionInv'
  BY <1>19 DEF Left, Event, Missed, Leave
<1>20. ASSUME NEW r \in Runs, Raised(r) PROVE CompletionInv'
  <2>1. CASE Live
    BY <1>20, <2>1 DEF Raised, Carried, Leave
  <2>2. CASE ~Live
    <3>1. row'.status # "completed" \/ row' = row
      BY <1>20, <2>2 DEF Raised, Missed
    <3>2. /\ receipts' = receipts
          /\ \A q \in Runs \ {r} : pc'[q] = pc[q] /\ task'[q] = task[q] /\ ctx'[q] = ctx[q]
          /\ pc'[r] = "idle"
      BY <1>20, <2>2 DEF Raised, Leave
    <3> QED
      BY <3>1, <3>2
  <2> QED
    BY <2>1, <2>2
<1>21. CASE Polled
  BY <1>21 DEF Polled, Missed
<1>22. CASE Died
  BY <1>22 DEF Died
<1>23. CASE Expired
  BY <1>23 DEF Expired
<1>24. CASE Ticked
  BY <1>24 DEF Ticked
<1>25. CASE UNCHANGED vars
  BY <1>25 DEF vars
<1> QED
  BY <1>1, <1>2, <1>3, <1>4, <1>5, <1>6, <1>7, <1>8, <1>9, <1>10, <1>11, <1>12, <1>13,
     <1>14, <1>15, <1>16, <1>17, <1>18, <1>19, <1>20, <1>21, <1>22, <1>23, <1>24, <1>25
  DEF AnyKind, RunKind

-----------------------------------------------------------------------------
(* A run that leaves without having said so in the row has lost the row.    *)
LEMMA OrphanStep ==
  TypeOK /\ GateInv /\ LockInv /\ OrphanInv /\ AnyKind => OrphanInv'
<1> SUFFICES ASSUME TypeOK, GateInv, LockInv, OrphanInv, AnyKind PROVE OrphanInv'
  OBVIOUS
<1>0. /\ row.store \in {"none", "live", "expired", "deleted"}
      /\ pc \in [Runs -> Pcs] /\ Free \notin Runs
      /\ budget.crashes \in Nat /\ MaxCrashes \in Nat
  BY Typed, FreeAssumption, BoundsAssumption DEF TypeOK
<1>l. \A q \in Runs : pc[q] \in LockPcs <=> lock = q
  BY DEF LockInv
<1> USE <1>0, <1>l DEF OrphanInv, Ending, NoOrphanedExecution, Goto, LockPcs, Midway, RunRecords, Live
<1>1. ASSUME NEW r \in Runs, Submitted(r) PROVE OrphanInv'
  BY <1>1 DEF Edge, Submitted, GateInv
<1>2. ASSUME NEW r \in Runs, Answered(r) PROVE OrphanInv'
  BY <1>2 DEF Edge, Answered, Carried
<1>3. ASSUME NEW r \in Runs, Moved(r) PROVE OrphanInv'
  BY <1>3 DEF Edge, Moved
<1>4. ASSUME NEW r \in Runs, Recorded(r) PROVE OrphanInv'
  BY <1>4 DEF Edge, Recorded, Event, Missed
<1>5. ASSUME NEW r \in Runs, Entered(r) PROVE OrphanInv'
  BY <1>5 DEF Edge, Entered, MayExecute
<1>6. ASSUME NEW r \in Runs, Started(r) PROVE OrphanInv'
  BY <1>6 DEF Edge, Started, Carried
<1>7. ASSUME NEW r \in Runs, Deferred(r) PROVE OrphanInv'
  BY <1>7 DEF Edge, Deferred, Carried
<1>8. ASSUME NEW r \in Runs, Attempted(r) PROVE OrphanInv'
  BY <1>8 DEF Edge, Attempted, Carried
<1>9. ASSUME NEW r \in Runs, Receipted(r) PROVE OrphanInv'
  BY <1>9 DEF Edge, Receipted
<1>10. ASSUME NEW r \in Runs, Called(r) PROVE OrphanInv'
  BY <1>10 DEF Edge, Called
<1>11. ASSUME NEW r \in Runs, CallLogged(r) PROVE OrphanInv'
  BY <1>11 DEF Edge, CallLogged
<1>12. ASSUME NEW r \in Runs, Concluded(r) PROVE OrphanInv'
  <2>1. lock # Free /\ lock' = lock /\ budget' = budget
    BY <1>12, ConcludedMoves DEF Edge
  <2>2. \A q \in Runs : pc'[q] \in Ending => pc[q] \in Ending
    BY <1>12, ConcludedMoves DEF Edge
  <2>3. row' = row \/ row'.status = "ready"
    BY <1>12, ConcludedMoves DEF Edge, Event, Missed
  <2> QED
    BY <2>1, <2>2, <2>3
<1>13. ASSUME NEW r \in Runs, Answering(r) PROVE OrphanInv'
  BY <1>13 DEF Edge, Answering, Carried
<1>14. ASSUME NEW r \in Runs, Fetched(r) PROVE OrphanInv'
  BY <1>14 DEF Edge, Fetched, Event, Missed
<1>15. ASSUME NEW r \in Runs, Judged(r) PROVE OrphanInv'
  BY <1>15 DEF Edge, Judged, Carried
<1>16. ASSUME NEW r \in Runs, Finished(r) PROVE OrphanInv'
  BY <1>16 DEF Edge, Finished, Carried
<1>17. ASSUME NEW r \in Runs, Slept(r) PROVE OrphanInv'
  BY <1>17 DEF Edge, Slept, Carried
<1>18. ASSUME NEW r \in Runs, Parked(r) PROVE OrphanInv'
  BY <1>18 DEF Parked, Carried, Leave
<1>19. ASSUME NEW r \in Runs, Left(r) PROVE OrphanInv'
  BY <1>19 DEF Left, Event, Missed, Leave
<1>20. ASSUME NEW r \in Runs, Raised(r) PROVE OrphanInv'
  BY <1>20 DEF Raised, Carried, Missed, Leave
<1>21. CASE Polled
  BY <1>21 DEF Polled, Missed
<1>22. CASE Died
  BY <1>22 DEF Died
<1>23. CASE Expired
  BY <1>23 DEF Expired
<1>24. CASE Ticked
  BY <1>24 DEF Ticked
<1>25. CASE UNCHANGED vars
  BY <1>25 DEF vars
<1> QED
  BY <1>1, <1>2, <1>3, <1>4, <1>5, <1>6, <1>7, <1>8, <1>9, <1>10, <1>11, <1>12, <1>13,
     <1>14, <1>15, <1>16, <1>17, <1>18, <1>19, <1>20, <1>21, <1>22, <1>23, <1>24, <1>25
  DEF AnyKind, RunKind

-----------------------------------------------------------------------------
(* Waiting ends with the wait, on the row and in the coroutine.             *)
LEMMA BackoffStep ==
  TypeOK /\ TypeOK' /\ GateInv /\ LockInv /\ BackoffInv /\ AnyKind => BackoffInv'
<1> SUFFICES ASSUME TypeOK, TypeOK', GateInv, LockInv, BackoffInv, AnyKind PROVE BackoffInv'
  OBVIOUS
<1>0. /\ row.store \in {"none", "live", "expired", "deleted"}
      /\ pc \in [Runs -> Pcs] /\ DOMAIN task = Runs /\ DOMAIN ctx = Runs
      /\ row.wait \in Nat /\ \A q \in Runs : ctx[q].wake \in Nat
  BY Typed DEF TypeOK
<1>g. /\ row.store = "none" => \A q \in Runs : pc[q] = "idle"
      /\ row.status = "waiting_for_human" => \A q \in Runs : pc[q] \notin LockPcs
  BY DEF GateInv, Committed
<1>l. \A p, q \in Runs : pc[p] \in LockPcs /\ pc[q] \in LockPcs => p = q
  BY OneHolder
<1> USE <1>0, <1>g, <1>l DEF BackoffInv, Underway, Goto, LockPcs, Midway, RunRecords, Live
<1>1. ASSUME NEW r \in Runs, Submitted(r) PROVE BackoffInv'
  BY <1>1 DEF Edge, Submitted
<1>2. ASSUME NEW r \in Runs, Answered(r) PROVE BackoffInv'
  BY <1>2 DEF Edge, Answered, Carried
<1>3. ASSUME NEW r \in Runs, Moved(r) PROVE BackoffInv'
  BY <1>3 DEF Edge, Moved
<1>4. ASSUME NEW r \in Runs, Recorded(r) PROVE BackoffInv'
  BY <1>4 DEF Edge, Recorded, Event, Missed
<1>5. ASSUME NEW r \in Runs, Entered(r) PROVE BackoffInv'
  BY <1>5 DEF Edge, Entered, MayExecute, LockInv
<1>6. ASSUME NEW r \in Runs, Started(r) PROVE BackoffInv'
  BY <1>6 DEF Edge, Started, Carried
<1>7. ASSUME NEW r \in Runs, Deferred(r) PROVE BackoffInv'
  BY <1>7 DEF Edge, Deferred, Carried
<1>8. ASSUME NEW r \in Runs, Attempted(r) PROVE BackoffInv'
  BY <1>8 DEF Edge, Attempted, Carried
<1>9. ASSUME NEW r \in Runs, Receipted(r) PROVE BackoffInv'
  BY <1>9 DEF Edge, Receipted
<1>10. ASSUME NEW r \in Runs, Called(r) PROVE BackoffInv'
  BY <1>10 DEF Edge, Called
<1>11. ASSUME NEW r \in Runs, CallLogged(r) PROVE BackoffInv'
  BY <1>11 DEF Edge, CallLogged
<1>12. ASSUME NEW r \in Runs, Concluded(r) PROVE BackoffInv'
  BY <1>12, ConcludedMoves DEF Edge, Event, Missed
<1>13. ASSUME NEW r \in Runs, Answering(r) PROVE BackoffInv'
  BY <1>13 DEF Edge, Answering, Carried
<1>14. ASSUME NEW r \in Runs, Fetched(r) PROVE BackoffInv'
  BY <1>14 DEF Edge, Fetched, Event, Missed
<1>15. ASSUME NEW r \in Runs, Judged(r) PROVE BackoffInv'
  BY <1>15 DEF Edge, Judged, Carried
<1>16. ASSUME NEW r \in Runs, Finished(r) PROVE BackoffInv'
  BY <1>16 DEF Edge, Finished, Carried
<1>17. ASSUME NEW r \in Runs, Slept(r) PROVE BackoffInv'
  <2>1. ctx'[r].wake \in Nat
    BY BoundsAssumption DEF TypeOK, Ctxs
  <2>2. row'.wait = ctx'[r].wake /\ pc' = [pc EXCEPT ![r] = "sleep"]
    BY <1>17 DEF Edge, Slept
  <2>3. \A q \in Runs \ {r} : pc[q] \notin LockPcs
    BY <1>17 DEF Edge, Slept
  <2> QED
    BY <2>1, <2>2, <2>3
<1>18. ASSUME NEW r \in Runs, Parked(r) PROVE BackoffInv'
  BY <1>18 DEF Parked, Carried, Leave
<1>19. ASSUME NEW r \in Runs, Left(r) PROVE BackoffInv'
  <2>1. \A q \in Runs : pc'[q] \notin LockPcs
    <3>1. pc[r] \in LockPcs \/ lock = Free
      BY <1>19 DEF Left
    <3>2. \A q \in Runs \ {r} : pc[q] \notin LockPcs
      BY <3>1, <1>l, FreeAssumption DEF LockInv
    <3>3. /\ \A q \in Runs \ {r} : pc'[q] = pc[q]
          /\ pc'[r] = "idle"
      BY <1>19 DEF Left, Leave
    <3> QED
      BY <3>2, <3>3
  <2> QED
    BY <2>1
<1>20. ASSUME NEW r \in Runs, Raised(r) PROVE BackoffInv'
  <2>1. \A q \in Runs : pc'[q] \notin LockPcs
    <3>1. pc[r] \in LockPcs \/ lock = Free
      BY <1>20 DEF Raised
    <3>2. \A q \in Runs \ {r} : pc[q] \notin LockPcs
      BY <3>1, <1>l, FreeAssumption DEF LockInv
    <3>3. /\ \A q \in Runs \ {r} : pc'[q] = pc[q]
          /\ pc'[r] \in {"idle", "recFailure"}
      BY <1>20 DEF Raised, Leave
    <3> QED
      BY <3>2, <3>3
  <2> QED
    BY <2>1
<1>21. CASE Polled
  BY <1>21 DEF Polled, Missed
<1>22. CASE Died
  BY <1>22 DEF Died
<1>23. CASE Expired
  BY <1>23 DEF Expired
<1>24. CASE Ticked
  BY <1>24 DEF Ticked, Less
<1>25. CASE UNCHANGED vars
  BY <1>25 DEF vars
<1> QED
  BY <1>1, <1>2, <1>3, <1>4, <1>5, <1>6, <1>7, <1>8, <1>9, <1>10, <1>11, <1>12, <1>13,
     <1>14, <1>15, <1>16, <1>17, <1>18, <1>19, <1>20, <1>21, <1>22, <1>23, <1>24, <1>25
  DEF AnyKind, RunKind

-----------------------------------------------------------------------------
(* An outcome appended to the others.                                       *)
LEMMA OutcomeAppended ==
  ASSUME outcomes \in Seq([gen : Nat, ok : BOOLEAN]),
         NEW o \in [gen : Nat, ok : BOOLEAN], outcomes' = Append(outcomes, o)
  PROVE  /\ DOMAIN outcomes \subseteq DOMAIN outcomes'
         /\ \A k \in DOMAIN outcomes : outcomes'[k] = outcomes[k]
         /\ \E n \in DOMAIN outcomes' :
              /\ outcomes'[n] = o
              /\ \A k \in DOMAIN outcomes' : k = n \/ k \in DOMAIN outcomes
<1> DEFINE O == [gen : Nat, ok : BOOLEAN]
<1>0. outcomes \in Seq(O) /\ o \in O
  OBVIOUS
<1> HIDE DEF O
<1>1. Len(outcomes) \in Nat /\ DOMAIN outcomes = 1..Len(outcomes)
  BY <1>0
<1>2. DOMAIN outcomes' = 1..(Len(outcomes) + 1) /\ outcomes'[Len(outcomes) + 1] = o
  BY <1>0
<1>3. \A k \in DOMAIN outcomes : outcomes'[k] = outcomes[k]
  BY <1>0
<1>4. /\ Len(outcomes) + 1 \in DOMAIN outcomes'
      /\ \A k \in DOMAIN outcomes' : k = Len(outcomes) + 1 \/ k \in DOMAIN outcomes
  BY <1>1, <1>2
<1> QED
  BY <1>1, <1>2, <1>3, <1>4

(* Steps that log nothing and start or end no paid attempt keep the count.  *)
LEMMA AccountKept ==
  ASSUME AccountInv, budget' = budget, receipts' = receipts, outcomes' = outcomes,
         row.store \in {"none", "live"} => row'.store \in {"none", "live"},
         \A q \in Runs : pc'[q] \in Paid <=> pc[q] \in Paid,
         \A q \in Runs : pc[q] \in Paid => task'[q].gen = task[q].gen
  PROVE  AccountInv'
<1>1. \A g : Open(g)' <=> Open(g)
  BY DEF Open
<1>2. \A g : (HasReceipt(g)' <=> HasReceipt(g)) /\ (HasOneOutcome(g)' <=> HasOneOutcome(g))
  BY DEF HasReceipt, HasOneOutcome
<1>3. \A g : Logged(g)' <=> Logged(g)
  BY DEF Logged
<1>6. (\A k \in DOMAIN outcomes : HasReceipt(outcomes[k].gen))
      => (\A k \in DOMAIN outcomes' : HasReceipt(outcomes[k].gen)')
  BY DEF HasReceipt
<1>4. Undisturbed' <=> Undisturbed
  BY DEF Undisturbed
<1>5. ASSUME NEW i \in DOMAIN receipts', Undisturbed
      PROVE  IF Open(receipts[i])' THEN ~Logged(receipts[i])' ELSE HasOneOutcome(receipts[i])'
  BY <1>1, <1>2, <1>3, <1>5 DEF AccountInv
<1> QED
  BY <1>4, <1>5, <1>6 DEF AccountInv

(* Undisturbed, every paid attempt is open or has one outcome.              *)
LEMMA AccountStep ==
  TypeOK /\ GateInv /\ LockInv /\ CopyInv /\ ReceiptInv /\ AccountInv /\ AnyKind => AccountInv'
<1> SUFFICES ASSUME TypeOK, GateInv, LockInv, CopyInv, ReceiptInv, AccountInv, AnyKind
             PROVE  AccountInv'
  OBVIOUS
<1>0. /\ row.store \in {"none", "live", "expired", "deleted"}
      /\ pc \in [Runs -> Pcs] /\ DOMAIN task = Runs
      /\ budget.crashes \in Nat /\ budget.expiries \in Nat /\ budget.faults \in Nat
      /\ MaxCrashes \in Nat /\ MaxExpiries \in Nat /\ MaxFaults \in Nat
      /\ \A q \in Runs : task[q].gen \in Nat
      /\ receipts \in Seq(Nat) /\ \A i \in DOMAIN receipts : receipts[i] \in Nat
  BY Typed, BoundsAssumption DEF TypeOK
<1>l. \A p, q \in Runs : pc[p] \in LockPcs /\ pc[q] \in LockPcs => p = q
  BY OneHolder
<1>c. \A q \in Runs : pc[q] \in LockPcs =>
        /\ row.store \in {"live", "expired"} => row.gen = task[q].gen
  BY DEF CopyInv, Agrees
<1> USE <1>0, <1>c, <1>l DEF Paid, Goto, LockPcs, Midway, RunRecords, Live
<1>1. ASSUME NEW r \in Runs, Submitted(r) PROVE AccountInv'
  <2>1. \A q \in Runs :
          /\ pc'[q] \in Paid <=> pc[q] \in Paid
          /\ pc[q] \in Paid => task'[q].gen = task[q].gen
    BY <1>1 DEF Edge, Submitted
  <2>2. /\ budget' = budget /\ receipts' = receipts /\ outcomes' = outcomes
        /\ row.store \in {"none", "live"} => row'.store \in {"none", "live"}
    BY <1>1 DEF Edge, Submitted
  <2> QED
    BY <2>1, <2>2, AccountKept
<1>2. ASSUME NEW r \in Runs, Answered(r) PROVE AccountInv'
  <2>1. \A q \in Runs :
          /\ pc'[q] \in Paid <=> pc[q] \in Paid
          /\ pc[q] \in Paid => task'[q].gen = task[q].gen
    BY <1>2 DEF Edge, Answered, Carried
  <2>2. /\ budget' = budget /\ receipts' = receipts /\ outcomes' = outcomes
        /\ row.store \in {"none", "live"} => row'.store \in {"none", "live"}
    BY <1>2 DEF Edge, Answered, Carried
  <2> QED
    BY <2>1, <2>2, AccountKept
<1>3. ASSUME NEW r \in Runs, Moved(r) PROVE AccountInv'
  <2>1. \A q \in Runs :
          /\ pc'[q] \in Paid <=> pc[q] \in Paid
          /\ pc[q] \in Paid => task'[q].gen = task[q].gen
    BY <1>3 DEF Edge, Moved
  <2>2. /\ budget' = budget /\ receipts' = receipts /\ outcomes' = outcomes
        /\ row.store \in {"none", "live"} => row'.store \in {"none", "live"}
    BY <1>3 DEF Edge, Moved
  <2> QED
    BY <2>1, <2>2, AccountKept
<1>4. ASSUME NEW r \in Runs, Recorded(r) PROVE AccountInv'
  <2>1. \A q \in Runs :
          /\ pc'[q] \in Paid <=> pc[q] \in Paid
          /\ pc[q] \in Paid => task'[q].gen = task[q].gen
    BY <1>4 DEF Edge, Recorded, Event, Missed
  <2>2. /\ budget' = budget /\ receipts' = receipts /\ outcomes' = outcomes
        /\ row.store \in {"none", "live"} => row'.store \in {"none", "live"}
    BY <1>4 DEF Edge, Recorded, Event, Missed
  <2> QED
    BY <2>1, <2>2, AccountKept
<1>5. ASSUME NEW r \in Runs, Entered(r) PROVE AccountInv'
  <2>1. \A q \in Runs :
          /\ pc'[q] \in Paid <=> pc[q] \in Paid
          /\ pc[q] \in Paid => task'[q].gen = task[q].gen
    BY <1>5 DEF Edge, Entered, MayExecute
  <2>2. /\ budget' = budget /\ receipts' = receipts /\ outcomes' = outcomes
        /\ row.store \in {"none", "live"} => row'.store \in {"none", "live"}
    BY <1>5 DEF Edge, Entered, MayExecute
  <2> QED
    BY <2>1, <2>2, AccountKept
<1>6. ASSUME NEW r \in Runs, Started(r) PROVE AccountInv'
  <2>1. \A q \in Runs :
          /\ pc'[q] \in Paid <=> pc[q] \in Paid
          /\ pc[q] \in Paid => task'[q].gen = task[q].gen
    BY <1>6 DEF Edge, Started, Carried
  <2>2. /\ budget' = budget /\ receipts' = receipts /\ outcomes' = outcomes
        /\ row.store \in {"none", "live"} => row'.store \in {"none", "live"}
    BY <1>6 DEF Edge, Started, Carried
  <2> QED
    BY <2>1, <2>2, AccountKept
<1>7. ASSUME NEW r \in Runs, Deferred(r) PROVE AccountInv'
  <2>1. \A q \in Runs :
          /\ pc'[q] \in Paid <=> pc[q] \in Paid
          /\ pc[q] \in Paid => task'[q].gen = task[q].gen
    BY <1>7 DEF Edge, Deferred, Carried
  <2>2. /\ budget' = budget /\ receipts' = receipts /\ outcomes' = outcomes
        /\ row.store \in {"none", "live"} => row'.store \in {"none", "live"}
    BY <1>7 DEF Edge, Deferred, Carried
  <2> QED
    BY <2>1, <2>2, AccountKept
<1>8. ASSUME NEW r \in Runs, Attempted(r) PROVE AccountInv'
  <2>1. \A q \in Runs :
          /\ pc'[q] \in Paid <=> pc[q] \in Paid
          /\ pc[q] \in Paid => task'[q].gen = task[q].gen
    BY <1>8 DEF Edge, Attempted, Carried
  <2>2. /\ budget' = budget /\ receipts' = receipts /\ outcomes' = outcomes
        /\ row.store \in {"none", "live"} => row'.store \in {"none", "live"}
    BY <1>8 DEF Edge, Attempted, Carried
  <2> QED
    BY <2>1, <2>2, AccountKept
<1>9. ASSUME NEW r \in Runs, Receipted(r) PROVE AccountInv'
  <2>1. /\ pc[r] = "attemptSaved" /\ pc' = [pc EXCEPT ![r] = "recStarted"]
        /\ receipts' = Append(receipts, task[r].gen)
        /\ UNCHANGED <<row, task, outcomes, budget>>
    BY <1>9 DEF Receipted, Edge
  <2>2. PICK n \in DOMAIN receipts' :
          /\ receipts'[n] = task[r].gen
          /\ \A i \in DOMAIN receipts' : i = n \/ i \in DOMAIN receipts
    BY <2>1, Receipt
  <2>3. /\ DOMAIN receipts \subseteq DOMAIN receipts'
        /\ \A i \in DOMAIN receipts : receipts'[i] = receipts[i]
    BY <2>1, Receipt
  <2>4. \A i \in DOMAIN receipts : receipts[i] # task[r].gen
    BY <2>1 DEF ReceiptInv
  <2>5. \A q \in Runs : pc[q] \notin Paid /\ (pc'[q] \in Paid <=> q = r)
    BY <2>1
  <2>6. \A i \in DOMAIN receipts : ~Open(receipts[i]) /\ ~Open(receipts[i])'
    BY <2>1, <2>3, <2>4, <2>5 DEF Open
  <2>7. Open(task[r].gen)'
    BY <2>1, <2>5 DEF Open
  <2> SUFFICES ASSUME Undisturbed' PROVE AccountInv'
    BY <2>1 DEF AccountInv
  <2>8. Undisturbed
    BY <2>1 DEF Undisturbed
  <2>9. ~Logged(task[r].gen)'
    <3>1. \A k \in DOMAIN outcomes : outcomes[k].gen # task[r].gen
      BY <2>4, <2>8 DEF AccountInv, HasReceipt
    <3> QED
      BY <2>1, <3>1 DEF Logged
  <2>10. \A i \in DOMAIN receipts : HasOneOutcome(receipts[i])'
    BY <2>1, <2>3, <2>6, <2>8 DEF AccountInv, HasOneOutcome
  <2>11. \A i \in DOMAIN receipts' :
           IF Open(receipts[i])' THEN ~Logged(receipts[i])' ELSE HasOneOutcome(receipts[i])'
    <3>1. ASSUME NEW i \in DOMAIN receipts', i = n
          PROVE  Open(receipts[i])' /\ ~Logged(receipts[i])'
      BY <2>1, <2>2, <3>1, <2>7, <2>9 DEF Open, Logged
    <3>2. ASSUME NEW i \in DOMAIN receipts
          PROVE  ~Open(receipts[i])' /\ HasOneOutcome(receipts[i])'
      BY <2>1, <2>3, <3>2, <2>6, <2>10 DEF Open, HasOneOutcome
    <3> QED
      BY <2>2, <2>3, <3>1, <3>2
  <2>12. \A k \in DOMAIN outcomes' : HasReceipt(outcomes[k].gen)'
    BY <2>1, <2>8, ReceiptsStay DEF AccountInv
  <2> QED
    BY <2>1, <2>8, <2>11, <2>12 DEF AccountInv
<1>10. ASSUME NEW r \in Runs, Called(r) PROVE AccountInv'
  <2>1. \A q \in Runs :
          /\ pc'[q] \in Paid <=> pc[q] \in Paid
          /\ pc[q] \in Paid => task'[q].gen = task[q].gen
    BY <1>10 DEF Edge, Called
  <2>2. /\ budget' = budget /\ receipts' = receipts /\ outcomes' = outcomes
        /\ row.store \in {"none", "live"} => row'.store \in {"none", "live"}
    BY <1>10 DEF Edge, Called
  <2> QED
    BY <2>1, <2>2, AccountKept
<1>11. ASSUME NEW r \in Runs, CallLogged(r) PROVE AccountInv'
  <2>1. \A q \in Runs :
          /\ pc'[q] \in Paid <=> pc[q] \in Paid
          /\ pc[q] \in Paid => task'[q].gen = task[q].gen
    BY <1>11 DEF Edge, CallLogged
  <2>2. /\ budget' = budget /\ receipts' = receipts /\ outcomes' = outcomes
        /\ row.store \in {"none", "live"} => row'.store \in {"none", "live"}
    BY <1>11 DEF Edge, CallLogged
  <2> QED
    BY <2>1, <2>2, AccountKept
<1>12. ASSUME NEW r \in Runs, Concluded(r) PROVE AccountInv'
  <2>1. PICK ok \in BOOLEAN : LogOutcome(r, ok)
    BY <1>12, ConcludedMoves
  <2>2. /\ pc[r] \in Paid /\ pc'[r] \notin Paid
        /\ \A q \in Runs \ {r} : pc'[q] = pc[q]
        /\ UNCHANGED <<task, receipts, budget>>
        /\ row.store \in {"none", "live"} => row'.store = row.store
    BY <1>12, ConcludedMoves DEF Edge, Event, Missed
  <2> DEFINE g == task[r].gen
  <2>3. [gen |-> g, ok |-> ok] \in [gen : Nat, ok : BOOLEAN]
    BY <2>2
  <2>4. outcomes' = Append(outcomes, [gen |-> g, ok |-> ok])
    BY <2>1 DEF LogOutcome
  <2>5. HasReceipt(g)
    BY <2>2 DEF ReceiptInv
  <2>6. \A q \in Runs : pc[q] \in Paid <=> q = r
    BY <2>2
  <2>7. \A h : (Open(h) <=> h = g) /\ ~Open(h)'
    BY <2>2, <2>6 DEF Open
  <2> SUFFICES ASSUME Undisturbed' PROVE AccountInv'
    BY <2>2 DEF AccountInv
  <2>8. Undisturbed
    BY <2>2 DEF Undisturbed
  <2>9. PICK n \in DOMAIN outcomes' :
          /\ outcomes'[n] = [gen |-> g, ok |-> ok]
          /\ \A k \in DOMAIN outcomes' : k = n \/ k \in DOMAIN outcomes
    BY <2>3, <2>4, OutcomeAppended DEF TypeOK
  <2>10. /\ DOMAIN outcomes \subseteq DOMAIN outcomes'
         /\ \A k \in DOMAIN outcomes : outcomes'[k] = outcomes[k]
    BY <2>3, <2>4, OutcomeAppended DEF TypeOK
  <2>11. \A k \in DOMAIN outcomes : outcomes[k].gen # g
    BY <2>5, <2>7, <2>8 DEF AccountInv, HasReceipt, Logged
  <2>12. ASSUME NEW i \in DOMAIN receipts PROVE HasOneOutcome(receipts[i])'
    <3>0. receipts' = receipts /\ outcomes'[n].gen = g
      BY <2>2, <2>9
    <3>1. CASE receipts[i] = g
      <4>1. \A j \in DOMAIN outcomes' : outcomes'[j].gen = g => j = n
        BY <2>9, <2>10, <2>11
      <4> QED
        BY <3>0, <3>1, <4>1 DEF HasOneOutcome
    <3>2. CASE receipts[i] # g
      <4>1. HasOneOutcome(receipts[i])
        BY <2>7, <2>8, <3>2 DEF AccountInv
      <4>2. PICK k \in DOMAIN outcomes :
              /\ outcomes[k].gen = receipts[i]
              /\ \A j \in DOMAIN outcomes : outcomes[j].gen = receipts[i] => j = k
        BY <4>1 DEF HasOneOutcome
      <4>3. \A j \in DOMAIN outcomes' : outcomes'[j].gen = receipts[i] => j = k
        BY <2>9, <2>10, <3>0, <3>2, <4>2
      <4> QED
        BY <2>10, <3>0, <4>2, <4>3 DEF HasOneOutcome
    <3> QED
      BY <3>1, <3>2
  <2>13. \A k \in DOMAIN outcomes' : HasReceipt(outcomes[k].gen)'
    <3>1. \A k \in DOMAIN outcomes : HasReceipt(outcomes[k].gen)
      BY <2>8 DEF AccountInv
    <3> QED
      BY <3>1, <2>2, <2>5, <2>9, <2>10 DEF HasReceipt
  <2>14. ASSUME NEW i \in DOMAIN receipts'
        PROVE  ~Open(receipts[i])' /\ HasOneOutcome(receipts[i])'
    BY <2>2, <2>7, <2>12
  <2>15. row'.store \in {"none", "live"}
    BY <2>2, <2>8 DEF AccountInv
  <2> QED
    BY <2>2, <2>13, <2>14, <2>15 DEF AccountInv
<1>13. ASSUME NEW r \in Runs, Answering(r) PROVE AccountInv'
  <2>1. \A q \in Runs :
          /\ pc'[q] \in Paid <=> pc[q] \in Paid
          /\ pc[q] \in Paid => task'[q].gen = task[q].gen
    BY <1>13 DEF Edge, Answering, Carried
  <2>2. /\ budget' = budget /\ receipts' = receipts /\ outcomes' = outcomes
        /\ row.store \in {"none", "live"} => row'.store \in {"none", "live"}
    BY <1>13 DEF Edge, Answering, Carried
  <2> QED
    BY <2>1, <2>2, AccountKept
<1>14. ASSUME NEW r \in Runs, Fetched(r) PROVE AccountInv'
  <2>1. \A q \in Runs :
          /\ pc'[q] \in Paid <=> pc[q] \in Paid
          /\ pc[q] \in Paid => task'[q].gen = task[q].gen
    BY <1>14 DEF Edge, Fetched, Event, Missed
  <2>2. /\ budget' = budget /\ receipts' = receipts /\ outcomes' = outcomes
        /\ row.store \in {"none", "live"} => row'.store \in {"none", "live"}
    BY <1>14 DEF Edge, Fetched, Event, Missed
  <2> QED
    BY <2>1, <2>2, AccountKept
<1>15. ASSUME NEW r \in Runs, Judged(r) PROVE AccountInv'
  <2>1. \A q \in Runs :
          /\ pc'[q] \in Paid <=> pc[q] \in Paid
          /\ pc[q] \in Paid => task'[q].gen = task[q].gen
    BY <1>15 DEF Edge, Judged, Carried
  <2>2. /\ budget' = budget /\ receipts' = receipts /\ outcomes' = outcomes
        /\ row.store \in {"none", "live"} => row'.store \in {"none", "live"}
    BY <1>15 DEF Edge, Judged, Carried
  <2> QED
    BY <2>1, <2>2, AccountKept
<1>16. ASSUME NEW r \in Runs, Finished(r) PROVE AccountInv'
  <2>1. \A q \in Runs :
          /\ pc'[q] \in Paid <=> pc[q] \in Paid
          /\ pc[q] \in Paid => task'[q].gen = task[q].gen
    BY <1>16 DEF Edge, Finished, Carried
  <2>2. /\ budget' = budget /\ receipts' = receipts /\ outcomes' = outcomes
        /\ row.store \in {"none", "live"} => row'.store \in {"none", "live"}
    BY <1>16 DEF Edge, Finished, Carried
  <2> QED
    BY <2>1, <2>2, AccountKept
<1>17. ASSUME NEW r \in Runs, Slept(r) PROVE AccountInv'
  <2>1. \A q \in Runs :
          /\ pc'[q] \in Paid <=> pc[q] \in Paid
          /\ pc[q] \in Paid => task'[q].gen = task[q].gen
    BY <1>17 DEF Edge, Slept, Carried
  <2>2. /\ budget' = budget /\ receipts' = receipts /\ outcomes' = outcomes
        /\ row.store \in {"none", "live"} => row'.store \in {"none", "live"}
    BY <1>17 DEF Edge, Slept, Carried
  <2> QED
    BY <2>1, <2>2, AccountKept
<1>18. ASSUME NEW r \in Runs, Parked(r) PROVE AccountInv'
  <2>1. \A q \in Runs :
          /\ pc'[q] \in Paid <=> pc[q] \in Paid
          /\ pc[q] \in Paid => task'[q].gen = task[q].gen
    BY <1>18 DEF Parked, Carried, Leave
  <2>2. /\ budget' = budget /\ receipts' = receipts /\ outcomes' = outcomes
        /\ row.store \in {"none", "live"} => row'.store \in {"none", "live"}
    BY <1>18 DEF Parked, Carried, Leave
  <2> QED
    BY <2>1, <2>2, AccountKept
<1>19. ASSUME NEW r \in Runs, Left(r) PROVE AccountInv'
  <2>0. /\ budget' = budget /\ receipts' = receipts /\ outcomes' = outcomes
        /\ \A q \in Runs \ {r} : pc'[q] = pc[q] /\ task'[q] = task[q]
        /\ pc'[r] = "idle"
    BY <1>19 DEF Left, Leave
  <2>1. CASE row.store \in {"none", "live"}
    <3>1. pc[r] \notin Paid /\ row'.store \in {"none", "live"}
      BY <1>19, <2>1 DEF Left, Event, Missed, GateInv
    <3> QED
      BY <2>0, <3>1, AccountKept
  <2>2. CASE row.store \notin {"none", "live"}
    BY <2>0, <2>2 DEF AccountInv, Undisturbed
  <2> QED
    BY <2>1, <2>2
<1>20. ASSUME NEW r \in Runs, Raised(r) PROVE AccountInv'
  <2>0. /\ receipts' = receipts /\ outcomes' = outcomes
        /\ \A q \in Runs \ {r} : pc'[q] = pc[q] /\ task'[q] = task[q]
        /\ pc'[r] \in {"idle", "recFailure"}
        /\ row.store \in {"none", "live"} => row'.store \in {"none", "live"}
    BY <1>20 DEF Raised, Carried, Missed, Leave
  <2>1. CASE budget' = budget /\ row.store \in {"none", "live"}
    <3>1. pc[r] \notin Paid
      <4>1. CASE pc[r] = "queued"
        BY <4>1
      <4>2. CASE pc[r] \in {"top", "afterFailure", "judged"} /\ ~Live
        BY <2>1, <4>2 DEF GateInv
      <4>3. CASE budget'.faults = budget.faults - 1
        BY <2>1, <4>3
      <4> QED
        BY <1>20, <4>1, <4>2, <4>3 DEF Raised
    <3> QED
      BY <2>0, <2>1, <3>1, AccountKept
  <2>2. CASE row.store \notin {"none", "live"} /\ budget' = budget
    BY <2>0, <2>2 DEF AccountInv, Undisturbed
  <2>3. CASE budget' # budget
    <3>1. /\ budget'.faults = budget.faults - 1
          /\ budget'.crashes = budget.crashes /\ budget'.expiries = budget.expiries
      BY <1>20, <2>3 DEF Raised
    <3> QED
      BY <3>1 DEF AccountInv, Undisturbed
  <2> QED
    BY <2>1, <2>2, <2>3
<1>21. CASE Polled
  BY <1>21 DEF Polled, AccountInv, Undisturbed
<1>22. CASE Died
  BY <1>22 DEF Died, AccountInv, Undisturbed
<1>23. CASE Expired
  BY <1>23 DEF Expired, AccountInv, Undisturbed
<1>24. CASE Ticked
  BY <1>24, AccountKept DEF Ticked
<1>25. CASE UNCHANGED vars
  BY <1>25, AccountKept DEF vars
<1> QED
  BY <1>1, <1>2, <1>3, <1>4, <1>5, <1>6, <1>7, <1>8, <1>9, <1>10, <1>11, <1>12, <1>13,
     <1>14, <1>15, <1>16, <1>17, <1>18, <1>19, <1>20, <1>21, <1>22, <1>23, <1>24, <1>25
  DEF AnyKind, RunKind

-----------------------------------------------------------------------------
(* The inductive invariants together.                                       *)
Backed ==
  /\ GateInv /\ LockInv /\ CopyInv /\ ReceiptInv /\ CompletionInv
  /\ OrphanInv /\ AccountInv /\ BackoffInv

(* Nothing has happened yet, so nothing is claimed.                         *)
LEMMA BackedInit == Init => Backed
<1> SUFFICES ASSUME Init PROVE Backed
  OBVIOUS
<1>1. /\ row.store = "none" /\ row.status = "ready" /\ ~row.ambiguous /\ ~row.used
      /\ row.tel = {} /\ row.verdict.gen = 0 /\ row.gen = 0
      /\ lock = Free /\ \A r \in Runs : pc[r] = "idle"
      /\ receipts = <<>> /\ outcomes = <<>>
      /\ budget.crashes = MaxCrashes /\ budget.expiries = MaxExpiries
      /\ budget.faults = MaxFaults
  BY DEF Init, EmptyRow, NoVerdict
<1>2. Free \notin Runs /\ MaxCrashes \in Nat /\ MaxExpiries \in Nat /\ MaxFaults \in Nat
  BY FreeAssumption, BoundsAssumption
<1>3. GateInv /\ LockInv
  BY <1>1, <1>2 DEF GateInv, LockInv, Committed, LockPcs, Midway, RunRecords
<1>4. CopyInv /\ ReceiptInv /\ CompletionInv
  BY <1>1 DEF CopyInv, ReceiptInv, CompletionInv, Paid, LockPcs, Midway, RunRecords
<1>5. OrphanInv /\ AccountInv /\ BackoffInv
  BY <1>1, <1>2 DEF OrphanInv, NoOrphanedExecution, Live, Ending, AccountInv, BackoffInv,
     Underway, LockPcs, Midway, RunRecords
<1> QED
  BY <1>3, <1>4, <1>5 DEF Backed

LEMMA BackedStep == TypeOK /\ Backed /\ [Next]_vars => Backed'
<1> SUFFICES ASSUME TypeOK, Backed, [Next]_vars PROVE Backed'
  OBVIOUS
<1>1. TypeOK' /\ GateInv' /\ AnyKind
  BY TypeStep, GateStep, StepKinds DEF Backed
<1> QED
  BY <1>1, LockStep, CopyStep, ReceiptStep, CompletionStep, OrphanStep, AccountStep,
     BackoffStep DEF Backed

LEMMA BackedHolds == Spec => [](TypeOK /\ Backed)
BY TypeCorrect, BackedInit, BackedStep, PTL DEF Spec

-----------------------------------------------------------------------------
(* README step 7: a completed task has a passing verdict on its very        *)
(* generation, that attempt's receipt, a tool that really succeeded and     *)
(* events every required sink really accepted, whatever stale copies,       *)
(* crashes, expiries and failed commits came between.                       *)
THEOREM CompletionIsVerified == Spec => []VerifiedCompletion
<1>1. TypeOK /\ Backed => VerifiedCompletion
  <2> SUFFICES ASSUME TypeOK, Backed, row.status = "completed"
               PROVE  /\ row.verdict = [gen |-> row.gen, passed |-> TRUE]
                      /\ HasReceipt(row.gen)
                      /\ Executable => toolRan
                      /\ NeedTelemetry => acked = Sinks
    BY DEF VerifiedCompletion
  <2>1. row.verdict \in Verdicts
    BY DEF TypeOK, Rows
  <2>2. row.verdict.gen = row.gen /\ row.verdict.passed
    BY DEF Backed, CompletionInv
  <2>3. row.verdict = [gen |-> row.gen, passed |-> TRUE]
    BY <2>1, <2>2 DEF Verdicts
  <2> QED
    BY <2>3 DEF Backed, CompletionInv
<1> QED
  BY <1>1, BackedHolds, PTL

(* README: "every retry or model switch is a distinct V5 attempt with a     *)
(* distinct receipt", across runs, crashes and stale writes.                *)
THEOREM AttemptsAreDistinct == Spec => []DistinctAttempts
<1>1. Backed => DistinctAttempts
  BY DEF Backed, ReceiptInv, DistinctAttempts, Paid
<1> QED
  BY <1>1, BackedHolds, PTL

(* No error path of run() leaves the task running or verifying with nobody  *)
(* executing it; only the death of the process can.                         *)
THEOREM ExecutionsAreOwned == Spec => []NoOrphanedExecution
<1>1. Backed => NoOrphanedExecution
  BY DEF Backed, OrphanInv
<1> QED
  BY <1>1, BackedHolds, PTL

(* Every receipted attempt has exactly one row of an outcome once nobody    *)
(* executes the task, and no row is without its attempt, unless a death, an *)
(* expiry or a refused commit cut an execution.                             *)
THEOREM AttemptsAreAccounted == Spec => []AttemptsAccounted
<1>1. Backed => AttemptsAccounted
  <2> SUFFICES ASSUME Backed, lock = Free,
                      budget = [crashes |-> MaxCrashes, expiries |-> MaxExpiries,
                                faults |-> MaxFaults]
               PROVE  /\ \A i \in DOMAIN receipts : HasOneOutcome(receipts[i])
                      /\ \A k \in DOMAIN outcomes : HasReceipt(outcomes[k].gen)
    BY DEF AttemptsAccounted
  <2>1. Undisturbed
    BY DEF Undisturbed
  <2>2. \A i \in DOMAIN receipts : ~Open(receipts[i])
    BY FreeAssumption DEF Backed, LockInv, Open, Paid, LockPcs, Midway, RunRecords
  <2> QED
    BY <2>1, <2>2 DEF Backed, AccountInv
<1> QED
  BY <1>1, BackedHolds, PTL

(* The whole-row writes of stale dictionaries never undo progress.          *)
THEOREM ProgressIsKept == Spec => KeepsProgress
<1>1. TypeOK /\ Backed /\ [Next]_vars =>
        [Live /\ row'.store = "live" =>
           row'.gen >= row.gen /\ (row.used => row'.used)]_vars
  <2> SUFFICES ASSUME TypeOK, Backed, [Next]_vars, Live, row'.store = "live"
               PROVE  row'.gen >= row.gen /\ (row.used => row'.used)
    OBVIOUS
  <2>0. AnyKind
    BY StepKinds DEF Backed
  <2>1. row.gen \in Nat
    BY Typed
  <2>2. \A q \in Runs : pc[q] \in LockPcs => row.gen = task[q].gen /\ (row.used => task[q].used)
    BY DEF Backed, CopyInv, Agrees, Live
  <2>3. ASSUME NEW r \in Runs, Concluded(r) PROVE row'.gen = row.gen /\ row'.used = row.used
    BY <2>3, ConcludedMoves DEF Event
  <2>4. ASSUME NEW r \in Runs,
               \/ Deferred(r) \/ Attempted(r) \/ Judged(r) \/ CallLogged(r)
        PROVE  row'.gen >= row.gen /\ (row.used => row'.used)
    <3>1. pc[r] \in LockPcs
      BY <2>4 DEF Deferred, Attempted, Judged, CallLogged, Edge, LockPcs, Midway
    <3> QED
      BY <2>1, <2>2, <2>4, <3>1 DEF Deferred, Attempted, Judged, CallLogged, Carried
  <2>5. ASSUME NEW r \in Runs,
               \/ Submitted(r) \/ Answered(r) \/ Moved(r) \/ Recorded(r) \/ Entered(r)
               \/ Started(r) \/ Receipted(r) \/ Called(r) \/ Answering(r) \/ Fetched(r)
               \/ Finished(r) \/ Slept(r) \/ Parked(r) \/ Left(r) \/ Raised(r)
        PROVE  row'.gen = row.gen /\ row'.used = row.used
    BY <2>5 DEF Submitted, Answered, Moved, Recorded, Entered, Started, Receipted, Called,
       Answering, Fetched, Finished, Slept, Parked, Left, Raised, Carried, Event, Live
  <2>6. CASE Polled \/ Died \/ Expired \/ Ticked \/ UNCHANGED vars
    BY <2>1, <2>6 DEF Polled, Missed, Died, Expired, Ticked, vars, Live
  <2> QED
    BY <2>0, <2>1, <2>3, <2>4, <2>5, <2>6 DEF AnyKind, RunKind
<1> QED
  BY <1>1, BackedHolds, PTL DEF Spec, KeepsProgress

(* Exhausted candidates do not create a tight loop: whoever starts the      *)
(* task, and whatever it crashed into, its next_eligible_at has passed.     *)
THEOREM BackoffIsRespected == Spec => BackoffRespected
<1>1. TypeOK /\ Backed /\ [Next]_vars =>
        [row.status = "waiting_for_model" /\ row'.status = "running" => row.wait = 0]_vars
  <2> SUFFICES ASSUME TypeOK, Backed, [Next]_vars,
                      row.status = "waiting_for_model", row'.status = "running"
               PROVE  row.wait = 0
    OBVIOUS
  <2>0. AnyKind
    BY StepKinds DEF Backed
  <2>1. ASSUME NEW r \in Runs, Concluded(r) PROVE FALSE
    BY <2>1, ConcludedMoves DEF Event, Missed
  <2>2. ASSUME NEW r \in Runs,
               \/ Submitted(r) \/ Answered(r) \/ Moved(r) \/ Recorded(r) \/ Entered(r)
               \/ Receipted(r) \/ Called(r) \/ CallLogged(r) \/ Answering(r) \/ Fetched(r)
               \/ Finished(r) \/ Slept(r) \/ Parked(r) \/ Left(r) \/ Raised(r) \/ Deferred(r)
        PROVE  FALSE
    BY <2>2 DEF Submitted, Answered, Moved, Recorded, Entered, Receipted, Called, CallLogged,
       Answering, Fetched, Finished, Slept, Parked, Left, Raised, Deferred, Event, Missed
  <2>3. ASSUME NEW r \in Runs, Attempted(r) \/ Judged(r) PROVE FALSE
    BY <2>3 DEF Attempted, Judged, Edge, Backed, BackoffInv, Underway, LockPcs, Midway
  <2>4. ASSUME NEW r \in Runs, Started(r) PROVE row.wait = 0
    BY <2>4 DEF Started, Edge, Backed, BackoffInv
  <2>5. CASE Polled \/ Died \/ Expired \/ Ticked \/ UNCHANGED vars
    BY <2>5 DEF Polled, Missed, Died, Expired, Ticked, vars
  <2> QED
    BY <2>0, <2>1, <2>2, <2>3, <2>4, <2>5 DEF AnyKind, RunKind
<1> QED
  BY <1>1, BackedHolds, PTL DEF Spec, BackoffRespected

-----------------------------------------------------------------------------
(* The lifecycle: what holds of a journal that neither expires nor fails.   *)
QuietInv ==
  /\ budget.expiries = 0 /\ budget.faults = 0
  /\ row.store \in {"none", "live"}
  /\ row.store = "none" => row.gen = 0 /\ ~row.verdict.passed
  /\ \A r \in Runs : pc[r] \in Paid \cup {"attemptSaved"} => task[r].gen > 0

(* Without expiries and refused commits the row stays, and an attempt under *)
(* way has a generation.                                                    *)
LEMMA QuietStep == TypeOK /\ Backed /\ QuietInv /\ AnyKind => QuietInv'
<1> SUFFICES ASSUME TypeOK, Backed, QuietInv, AnyKind PROVE QuietInv'
  OBVIOUS
<1>0. /\ pc \in [Runs -> Pcs] /\ DOMAIN task = Runs
      /\ \A q \in Runs : task[q].gen \in Nat
  BY Typed
<1>1. \A p, q \in Runs : pc[p] \in LockPcs /\ pc[q] \in LockPcs => p = q
  BY OneHolder DEF Backed
<1>2. \A q \in Runs : pc[q] \in LockPcs /\ row.store \in {"live", "expired"} => row.gen = task[q].gen
  BY DEF Backed, CopyInv, Agrees
<1>3. budget'.expiries = 0 /\ budget'.faults = 0
  <2>1. ASSUME NEW r \in Runs, RunKind(r) PROVE budget' = budget
    <3>1. CASE Concluded(r)
      BY <3>1, ConcludedMoves
    <3>2. CASE Raised(r)
      BY <3>2 DEF Raised, QuietInv
    <3> QED
      BY <2>1, <3>1, <3>2 DEF RunKind, Submitted, Answered, Moved, Recorded, Entered, Started,
         Deferred, Attempted, Receipted, Called, CallLogged, Answering, Fetched, Judged,
         Finished, Slept, Parked, Left
  <2> QED
    BY <2>1 DEF AnyKind, QuietInv, Polled, Died, Expired, Ticked, vars
<1>4. /\ row'.store \in {"none", "live"}
      /\ row'.store = "none" => row'.gen = 0 /\ ~row'.verdict.passed
  <2>1. ASSUME NEW r \in Runs, Concluded(r) PROVE row'.store = "live" \/ row' = row
    BY <2>1, ConcludedMoves DEF Event, Missed, QuietInv
  <2>2. ASSUME NEW r \in Runs,
               \/ Submitted(r) \/ Answered(r) \/ Moved(r) \/ Recorded(r) \/ Entered(r)
               \/ Started(r) \/ Deferred(r) \/ Attempted(r) \/ Receipted(r) \/ Called(r)
               \/ CallLogged(r) \/ Answering(r) \/ Fetched(r) \/ Judged(r) \/ Finished(r)
               \/ Slept(r) \/ Parked(r) \/ Left(r) \/ Raised(r)
        PROVE  row'.store = "live" \/ row' = row
    BY <2>2 DEF Submitted, Answered, Moved, Recorded, Entered, Started, Deferred, Attempted,
       Receipted, Called, CallLogged, Answering, Fetched, Judged, Finished, Slept, Parked, Left,
       Raised, Carried, Event, Missed, Live, QuietInv
  <2>3. CASE Polled \/ Expired
    BY <2>3 DEF Polled, Expired, QuietInv
  <2>4. CASE Died \/ Ticked \/ UNCHANGED vars
    BY <2>4 DEF Died, Ticked, vars, QuietInv
  <2> QED
    BY <2>1, <2>2, <2>3, <2>4 DEF AnyKind, RunKind, QuietInv
<1>5. ASSUME NEW q \in Runs, pc'[q] \in Paid \cup {"attemptSaved"} PROVE task'[q].gen > 0
  <2> USE <1>0, <1>1, <1>2, <1>5 DEF QuietInv, Paid, Goto, LockPcs, Midway, RunRecords, Live
  <2>1. ASSUME NEW r \in Runs, Concluded(r) PROVE task'[q].gen > 0
    BY <2>1, ConcludedMoves DEF Edge
  <2>2. ASSUME NEW r \in Runs,
               \/ Submitted(r) \/ Answered(r) \/ Moved(r) \/ Recorded(r) \/ Entered(r)
               \/ Started(r) \/ Deferred(r)
        PROVE  task'[q].gen > 0
    BY <2>2 DEF Submitted, Answered, Moved, Recorded, Entered, Started, Deferred, Edge
  <2>3. ASSUME NEW r \in Runs, Attempted(r) \/ Receipted(r) \/ Called(r) PROVE task'[q].gen > 0
    BY <2>3 DEF Attempted, Receipted, Called, Edge
  <2>4. ASSUME NEW r \in Runs, CallLogged(r) \/ Answering(r) \/ Judged(r) \/ Finished(r)
        PROVE  task'[q].gen > 0
    BY <2>4 DEF CallLogged, Answering, Judged, Finished, Edge
  <2>5. ASSUME NEW r \in Runs, Fetched(r) PROVE task'[q].gen > 0
    BY <2>5 DEF Fetched, Edge, Event
  <2>6. ASSUME NEW r \in Runs, Slept(r) \/ Parked(r) \/ Left(r) \/ Raised(r)
        PROVE  task'[q].gen > 0
    BY <2>6 DEF Slept, Parked, Left, Raised, Leave, Edge
  <2>7. CASE Polled \/ Expired \/ Died \/ Ticked \/ UNCHANGED vars
    BY <2>7 DEF Polled, Expired, Died, Ticked, vars
  <2> QED
    BY <2>1, <2>2, <2>3, <2>4, <2>5, <2>6, <2>7 DEF AnyKind, RunKind
<1> QED
  BY <1>3, <1>4, <1>5 DEF QuietInv

(* The phase read off the row and the lock, before a step and after it.     *)
LEMMA Phases ==
  /\ row.store = "none" => Phase = "absent"
  /\ row.store # "none" =>
       /\ row.status = "waiting_for_human" => Phase = "asking"
       /\ row.status = "completed" => Phase = "done"
       /\ row.status \notin {"waiting_for_human", "completed"} =>
            Phase = IF lock = Free THEN "open" ELSE "executing"
  /\ row'.store = "none" => Phase' = "absent"
  /\ row'.store # "none" =>
       /\ row'.status = "waiting_for_human" => Phase' = "asking"
       /\ row'.status = "completed" => Phase' = "done"
       /\ row'.status \notin {"waiting_for_human", "completed"} =>
            Phase' = IF lock' = Free THEN "open" ELSE "executing"
BY DEF Phase

(* Whether the last attempt passed, likewise.                               *)
LEMMA Proofs ==
  ASSUME TypeOK, TypeOK'
  PROVE  /\ (row.verdict = [gen |-> row.gen, passed |-> TRUE])
              <=> (row.verdict.gen = row.gen /\ row.verdict.passed)
         /\ (row'.verdict = [gen |-> row'.gen, passed |-> TRUE])
              <=> (row'.verdict.gen = row'.gen /\ row'.verdict.passed)
<1>1. ASSUME NEW v \in Verdicts, NEW g
      PROVE  (v = [gen |-> g, passed |-> TRUE]) <=> (v.gen = g /\ v.passed)
  BY DEF Verdicts
<1>2. row.verdict \in Verdicts /\ row'.verdict \in Verdicts
  BY DEF TypeOK, Rows
<1> QED
  BY <1>1, <1>2

(* A step that shows in neither the phase nor the attempt is a stutter.     *)
LEMMA Unseen ==
  ASSUME Phase' = Phase, row'.gen = row.gen, row'.verdict = row.verdict
  PROVE  [Lifecycle!Next]_(Lifecycle!vars)
BY DEF Lifecycle!vars

(* Every kind of step is a step of the lifecycle, or shows nothing.         *)
LEMMA LifecycleStep ==
  ASSUME TypeOK, TypeOK', Backed, QuietInv, QuietInv', AnyKind
  PROVE  [Lifecycle!Next]_(Lifecycle!vars)
<1>0. /\ pc \in [Runs -> Pcs] /\ DOMAIN task = Runs /\ Free \notin Runs
      /\ row.gen \in Nat /\ lock \in Runs \cup {Free}
      /\ \A q \in Runs : task[q].gen \in Nat /\ task[q].verdict.gen \in Nat
  BY Typed, FreeAssumption DEF TypeOK
<1>h. \A q \in Runs : pc[q] \in LockPcs =>
        /\ lock = q /\ row.store = "live"
        /\ row.gen = task[q].gen /\ row.verdict = task[q].verdict
        /\ task[q].verdict.gen <= task[q].gen
        /\ row.status # "waiting_for_human" /\ task[q].status # "waiting_for_human"
        /\ task[q].status # "completed"
        /\ row.status = "completed" => pc[q] \in {"completedSaved", "recCompleted"}
  <2>1. ASSUME NEW q \in Runs, pc[q] \in LockPcs PROVE row.store = "live"
    BY <2>1 DEF Backed, GateInv, QuietInv, LockPcs, Midway, RunRecords
  <2> QED
    BY <2>1 DEF Backed, LockInv, CopyInv, Agrees, GateInv, Committed, CompletionInv
<1>f. \A q \in Runs : lock = q => pc[q] \in LockPcs
  BY DEF Backed, LockInv
<1>s. row.store \in {"none", "live"} /\ row'.store \in {"none", "live"}
  BY DEF QuietInv
<1> USE <1>0, <1>h, <1>f, <1>s DEF Goto, LockPcs, Midway, RunRecords, Live
<1>1. ASSUME NEW r \in Runs, Submitted(r) PROVE [Lifecycle!Next]_(Lifecycle!vars)
  <2>1. lock = Free /\ lock' = lock /\ row'.status \in {"waiting_for_human", "ready"}
    BY <1>1 DEF Submitted, Backed, GateInv
  <2>2. Phase = "absent" /\ Phase' \in {"asking", "open"}
    BY <1>1, <2>1, Phases DEF Submitted
  <2>3. row'.gen = row.gen /\ ~row.verdict.passed /\ ~row'.verdict.passed
    BY <1>1 DEF Submitted, QuietInv, NoVerdict
  <2> QED
    BY <2>2, <2>3, Proofs DEF Lifecycle!Next, Lifecycle!Accept
<1>2. ASSUME NEW r \in Runs, Answered(r) PROVE [Lifecycle!Next]_(Lifecycle!vars)
  <2>1. lock = Free /\ lock' = Free
    BY <1>2 DEF Answered
  <2>2. /\ Phase = "asking" /\ Phase' \in {"asking", "open"}
        /\ row'.gen = row.gen /\ row'.verdict = row.verdict
    BY <1>2, <2>1, Phases DEF Answered, Carried
  <2>3. CASE Phase' = "asking"
    BY <2>2, <2>3, Unseen
  <2>4. CASE Phase' = "open"
    BY <2>2, <2>4 DEF Lifecycle!Next, Lifecycle!Clarify
  <2> QED
    BY <2>2, <2>3, <2>4
<1>3. ASSUME NEW r \in Runs,
             Moved(r) \/ Recorded(r) \/ Receipted(r) \/ Called(r) \/ CallLogged(r) \/ Fetched(r)
      PROVE  [Lifecycle!Next]_(Lifecycle!vars)
  <2>1. /\ row'.store = row.store /\ row'.status = row.status /\ lock' = lock
        /\ row'.gen = row.gen /\ row'.verdict = row.verdict
    BY <1>3 DEF Moved, Recorded, Receipted, Called, CallLogged, Fetched, Event, Missed
  <2>2. Phase' = Phase
    BY <2>1 DEF Phase
  <2> QED
    BY <2>1, <2>2, Unseen
<1>4. ASSUME NEW r \in Runs, Concluded(r) PROVE [Lifecycle!Next]_(Lifecycle!vars)
  <2>1. /\ row'.store = row.store /\ row'.status = row.status /\ lock' = lock
        /\ row'.gen = row.gen /\ row'.verdict = row.verdict
    BY <1>4, ConcludedMoves DEF Event, Missed
  <2>2. Phase' = Phase
    BY <2>1 DEF Phase
  <2> QED
    BY <2>1, <2>2, Unseen
<1>5. ASSUME NEW r \in Runs, Entered(r) PROVE [Lifecycle!Next]_(Lifecycle!vars)
  <2>1. Phase = "open" /\ Phase' = "executing" /\ row' = row
    BY <1>5, Phases DEF Entered, MayExecute
  <2> QED
    BY <2>1 DEF Lifecycle!Next, Lifecycle!Begin
<1>6. ASSUME NEW r \in Runs, Started(r) \/ Deferred(r) \/ Answering(r) \/ Slept(r)
      PROVE  [Lifecycle!Next]_(Lifecycle!vars)
  <2>0. pc[r] \in {"top", "catalog", "choosing", "chat", "afterFailure"} /\ lock' = lock
    BY <1>6 DEF Started, Deferred, Answering, Slept, Edge
  <2>1. /\ row'.status \in {"running", "waiting_for_model", "verifying"}
        /\ row'.store = "live" /\ row'.gen = row.gen /\ row'.verdict = row.verdict
    BY <1>6, <2>0 DEF Started, Deferred, Answering, Slept, Carried
  <2>2. Phase = "executing" /\ Phase' = "executing"
    BY <2>0, <2>1, Phases
  <2> QED
    BY <2>1, <2>2, Unseen
<1>7. ASSUME NEW r \in Runs, Attempted(r) PROVE [Lifecycle!Next]_(Lifecycle!vars)
  <2>0. pc[r] = "choosing" /\ lock' = lock
    BY <1>7 DEF Attempted, Edge
  <2>1. /\ row'.status = "running" /\ row'.store = "live" /\ row'.gen = row.gen + 1
        /\ row'.verdict = row.verdict /\ row.verdict.gen <= row.gen
    BY <1>7, <2>0 DEF Attempted, Carried
  <2>2. Phase = "executing" /\ Phase' = "executing"
    BY <2>0, <2>1, Phases
  <2>3. row'.verdict.gen # row'.gen
    BY <2>1, Typed
  <2> QED
    BY <2>1, <2>2, <2>3, Proofs DEF Lifecycle!Next, Lifecycle!Attempt
<1>8. ASSUME NEW r \in Runs, Judged(r) PROVE [Lifecycle!Next]_(Lifecycle!vars)
  <2>0. pc[r] = "verify" /\ lock' = lock
    BY <1>8 DEF Judged, Edge
  <2>1. /\ row'.status = task[r].status /\ row'.store = "live" /\ row'.gen = row.gen
    BY <1>8, <2>0 DEF Judged, Carried
  <2>2. Phase = "executing" /\ Phase' = "executing"
    BY <2>0, <2>1, Phases
  <2>3. row.gen > 0
    BY <2>0 DEF QuietInv, Paid
  <2> QED
    BY <2>1, <2>2, <2>3, Zenon DEF Lifecycle!Next, Lifecycle!Judge
<1>9. ASSUME NEW r \in Runs, Finished(r) PROVE [Lifecycle!Next]_(Lifecycle!vars)
  <2>0. pc[r] = "judged" /\ ctx[r].passed /\ lock' = lock
    BY <1>9 DEF Finished, Edge
  <2>1. /\ row'.status = "completed" /\ row'.store = "live" /\ row'.gen = row.gen
        /\ row'.verdict = row.verdict
    BY <1>9, <2>0 DEF Finished, Carried
  <2>2. Phase = "executing" /\ Phase' = "done"
    BY <2>0, <2>1, Phases
  <2>3. row.verdict = [gen |-> row.gen, passed |-> TRUE]
    BY <2>0, Proofs DEF Backed, CompletionInv
  <2> QED
    BY <2>1, <2>2, <2>3 DEF Lifecycle!Next, Lifecycle!Complete
<1>10. ASSUME NEW r \in Runs, Parked(r) PROVE [Lifecycle!Next]_(Lifecycle!vars)
  <2>0. pc[r] = "afterFailure" /\ lock' = Free
    BY <1>10 DEF Parked, Leave
  <2>1. /\ row'.status = "waiting_for_model" /\ row'.store = "live" /\ row'.gen = row.gen
        /\ row'.verdict = row.verdict
    BY <1>10, <2>0 DEF Parked, Carried
  <2>2. Phase = "executing" /\ Phase' = "open"
    BY <2>0, <2>1, Phases
  <2> QED
    BY <2>1, <2>2 DEF Lifecycle!Next, Lifecycle!Stop
<1>11. ASSUME NEW r \in Runs, Left(r) PROVE [Lifecycle!Next]_(Lifecycle!vars)
  <2>0. lock' = Free
    BY <1>11 DEF Left, Leave
  <2>1. /\ row'.status = row.status /\ row'.store = row.store /\ row'.gen = row.gen
        /\ row'.verdict = row.verdict
    BY <1>11 DEF Left, Event, Missed
  <2>2. Phase' = Phase \/ (Phase = "executing" /\ Phase' = "open")
    BY <2>0, <2>1, Phases
  <2>3. CASE Phase' = Phase
    BY <2>1, <2>3, Unseen
  <2>4. CASE Phase = "executing" /\ Phase' = "open"
    BY <2>1, <2>4 DEF Lifecycle!Next, Lifecycle!Stop
  <2> QED
    BY <2>2, <2>3, <2>4
<1>12. ASSUME NEW r \in Runs, Raised(r) PROVE [Lifecycle!Next]_(Lifecycle!vars)
  <2>0. pc[r] = "queued" /\ lock = Free /\ lock' = Free /\ row.store = "live" /\ MayExecute
    BY <1>12 DEF Raised, QuietInv, Leave, Backed, GateInv
  <2>1. /\ row'.status = "failed" /\ row'.store = "live" /\ row'.gen = row.gen
        /\ row'.verdict = row.verdict
    BY <1>12, <2>0 DEF Raised, Carried
  <2>2. Phase = "open" /\ Phase' = "open"
    BY <2>0, <2>1, Phases DEF MayExecute
  <2> QED
    BY <2>1, <2>2, Unseen
<1>13. CASE Died
  <2>1. row' = row /\ lock' = Free
    BY <1>13 DEF Died
  <2>2. Phase' = Phase \/ (Phase = "executing" /\ Phase' = "open")
    BY <2>1, Phases
  <2>3. CASE Phase' = Phase
    BY <2>1, <2>3, Unseen
  <2>4. CASE Phase = "executing" /\ Phase' = "open"
    BY <2>1, <2>4 DEF Lifecycle!Next, Lifecycle!Stop
  <2> QED
    BY <2>2, <2>3, <2>4
<1>14. CASE Ticked \/ UNCHANGED vars
  <2>1. /\ row'.store = row.store /\ row'.status = row.status /\ lock' = lock
        /\ row'.gen = row.gen /\ row'.verdict = row.verdict
    BY <1>14 DEF Ticked, vars
  <2>2. Phase' = Phase
    BY <2>1 DEF Phase
  <2> QED
    BY <2>1, <2>2, Unseen
<1>15. CASE Polled \/ Expired
  BY <1>15 DEF Polled, Expired
<1> QED
  BY <1>1, <1>2, <1>3, <1>4, <1>5, <1>6, <1>7, <1>8, <1>9, <1>10, <1>11, <1>12, <1>13, <1>14,
     <1>15 DEF AnyKind, RunKind

(* With no TTL expiry and no refused commit, whatever is interleaved or cut *)
(* off, the runtime implements the lifecycle it promises of a task: a model *)
(* saying "done" is not a gate.                                             *)
THEOREM RuntimeImplementsLifecycle ==
  ASSUME MaxExpiries = 0, MaxFaults = 0
  PROVE  Spec => ImplementsLifecycle
<1>1. Init => QuietInv /\ Lifecycle!Init
  <2> SUFFICES ASSUME Init PROVE QuietInv /\ Lifecycle!Init
    OBVIOUS
  <2>1. /\ row.store = "none" /\ row.gen = 0 /\ ~row.verdict.passed
        /\ budget.expiries = 0 /\ budget.faults = 0 /\ \A r \in Runs : pc[r] = "idle"
    BY DEF Init, EmptyRow, NoVerdict
  <2>2. (row.verdict = [gen |-> row.gen, passed |-> TRUE]) = FALSE
    BY <2>1
  <2>3. Phase = "absent"
    BY <2>1, Phases
  <2> QED
    BY <2>1, <2>2, <2>3 DEF QuietInv, Paid, Lifecycle!Init
<1>2. TypeOK /\ Backed /\ QuietInv /\ [Next]_vars =>
        QuietInv' /\ [Lifecycle!Next]_(Lifecycle!vars)
  <2> SUFFICES ASSUME TypeOK, Backed, QuietInv, [Next]_vars
               PROVE  QuietInv' /\ [Lifecycle!Next]_(Lifecycle!vars)
    OBVIOUS
  <2>1. TypeOK' /\ AnyKind
    BY TypeStep, StepKinds DEF Backed
  <2> QED
    BY <2>1, QuietStep, LifecycleStep
<1> QED
  BY <1>1, <1>2, BackedHolds, PTL DEF Spec, ImplementsLifecycle, Lifecycle!Spec

-----------------------------------------------------------------------------
(* Part 4.  The client beside the runtime: its steps are steps of the      *)
(* runtime or invisible to it, so parts 1 and 2 hold here too.             *)

(* An attempt is under way: it has its generation and has not been         *)
(* followed by a wait.                                                     *)
Attempting == {"attemptSaved", "recStarted", "chat", "recTool", "recVerStart", "verify",
               "recVerResult", "judged", "recFailed", "afterFailure"}

(* The row's wait state is one nobody has asked a run for.                 *)
Unasked == WaitState(Snapshot) \notin posts

Waiting == row.status = "waiting_for_model"

(* The poller holds an answer that says the task waits.                    *)
Considers == poll \in {"judging", "posting"} /\ latest.status = "waiting_for_model"

PollTypes ==
  /\ clock \in Nat /\ eligibleAt \in Nat
  /\ poll \in {"submitting", "submitted", "head", "timedOut", "asleep", "judging",
               "done", "posting", "raised"}
  /\ latest.gen \in Nat /\ latest.at \in Nat
  /\ \A p \in posts : p.gen \in Nat /\ p.at \in Nat /\ p = [gen |-> p.gen, at |-> p.at]

(* Nobody answers, nothing expires, and the row is there once submitted.   *)
QuietClient ==
  /\ row.store \in {"none", "live"} /\ (poll = "submitting" <=> row.store = "none")
  /\ \A r \in Runs : pc[r] # "recAnswer"

(* What is left to wait and the moment the wait is over agree.             *)
Moments == Waiting => row.wait = IF eligibleAt > clock THEN eligibleAt - clock ELSE 0

(* Requests were posted for moments that had come, and while an attempt is *)
(* under way they, and the one the poller may be about to post, are about  *)
(* earlier generations.                                                    *)
PastRequests ==
  /\ triggered = NoWait \/ triggered \in posts
  /\ poll = "submitting" => posts = {}
  /\ \A p \in posts : p.at <= clock /\ p.gen <= row.gen
  /\ Considers => latest.gen <= row.gen
  /\ poll = "posting" => Considers /\ MustTrigger
  /\ (\E r \in Runs : pc[r] \in Attempting) =>
       /\ \A p \in posts : p.gen < row.gen
       /\ Considers => latest.gen < row.gen

(* A run was asked for the row's wait state, or for the one the poller     *)
(* considers, only if the poller remembers it.                             *)
Remembered ==
  /\ Waiting => Unasked \/ WaitState(Snapshot) = triggered
  /\ Considers => WaitState(latest) \notin posts \/ WaitState(latest) = triggered
  /\ Considers /\ Waiting => Unasked \/ WaitState(Snapshot) = WaitState(latest)
  /\ poll = "judging" /\ ~Considers /\ latest.status \notin Terminal => (Waiting => Unasked)

(* The run asked for is still to begin, as long as the wait stands.        *)
Covered ==
  Waiting /\ triggered = WaitState(Snapshot) => \E r \in Runs : pc[r] \in {"queued", "top"}

(* An answer that ends the polling stays true.                             *)
Final ==
  poll \in {"judging", "done"} /\ latest.status \in {"completed", "waiting_for_human"}
    => row.status = latest.status

PollInv == PollTypes /\ QuietClient /\ Moments /\ PastRequests /\ Remembered /\ Covered /\ Final

-----------------------------------------------------------------------------
(* The client's steps and the runtime's.                                    *)

(* Only a coroutine that is under way steps; it answers nothing, and spends *)
(* nothing of the budgets.                                                  *)
LEMMA StepsUnderway ==
  ASSUME TypeOK, NEW r \in Runs, Acquire(r) \/ Step(r)
  PROVE  /\ pc[r] # "idle" /\ budget' = budget /\ (pc[r] = "queued" => Acquire(r))
         /\ (\A q \in Runs : pc[q] # "recAnswer") => \A q \in Runs : pc'[q] # "recAnswer"
<1>0. pc \in [Runs -> Pcs]
  BY DEF TypeOK
<1>1. CASE Acquire(r)
  BY <1>0, <1>1 DEF Acquire, Raise, Leave, Goto
<1>2. CASE \/ RequestDone(r) \/ LoopTop(r) \/ WindowExhausted(r) \/ CatalogRefreshed(r)
           \/ CatalogFailed(r) \/ CatalogRecorded(r) \/ Exhausted(r) \/ BeginAttempt(r)
           \/ ReceiveAttempt(r) \/ AttemptStarted(r)
  BY <1>0, <1>2 DEF RequestDone, LoopTop, WindowExhausted, CatalogRefreshed, CatalogFailed,
     CatalogRecorded, Exhausted, BeginAttempt, ReceiveAttempt, AttemptStarted, Raise, Leave, Goto
<1>3. CASE \/ ChatRecorded(r) \/ ToolCall(r) \/ ToolRecorded(r) \/ ChatFailed(r)
           \/ ChatDone(r) \/ FailureRecorded(r) \/ Park(r) \/ RetryLater(r) \/ SleptOut(r)
  BY <1>0, <1>3 DEF ChatRecorded, ToolCall, ToolRecorded, ChatFailed, ChatDone,
     FailureRecorded, Park, RetryLater, SleptOut, Raise, Leave, Goto
<1>4. CASE \/ VerificationStarted(r) \/ Verify(r) \/ VerdictRecorded(r) \/ Complete(r)
           \/ LogCompletion(r) \/ Reject(r) \/ Return(r) \/ FailureReported(r)
  BY <1>0, <1>4 DEF VerificationStarted, Verify, VerdictRecorded, Complete, LogCompletion,
     Reject, Return, FailureReported, Raise, Leave, Goto
<1> QED
  BY <1>1, <1>2, <1>3, <1>4 DEF Step

(* What the steps of the client's machine are to the runtime.               *)
LEMMA PollSteps == [PollNext]_allVars => [Next]_vars
<1> SUFFICES ASSUME [PollNext]_allVars PROVE [Next]_vars
  OBVIOUS
<1>1. ASSUME NEW r \in Runs, RuntimeStep(r) PROVE Next
  BY <1>1 DEF RuntimeStep, Next
<1>2. ASSUME NEW r \in Runs, PollSubmit(r) \/ PollTrigger(r) PROVE Next
  BY <1>2 DEF PollSubmit, PollTrigger, Next, Request
<1>3. CASE Time
  BY <1>3 DEF Time, Next
<1>4. CASE PollSubmitted \/ PollSleep \/ PollGet \/ PollEnds \/ PollSeesProgress
           \/ PollSeesWait \/ PollRaises
  BY <1>4 DEF PollSubmitted, PollSleep, PollGet, PollEnds, PollSeesProgress, PollSeesWait,
     PollRaises
<1>5. CASE UNCHANGED allVars
  BY <1>5 DEF allVars
<1> QED
  BY <1>1, <1>2, <1>3, <1>4, <1>5 DEF PollNext

(* acceptance.py drives the runtime through its requests alone: whatever    *)
(* the client and its clock do, the task behaves as the runtime of          *)
(* TaskRuntime allows, so all that is proved of that holds here.            *)
THEOREM PollImplementsRuntime == PollSpec => Spec
BY PollSteps, PTL DEF PollSpec, PollInit, Spec

-----------------------------------------------------------------------------
(* What a step of the runtime does to the wait.                             *)
Standing ==
  /\ row'.status = row.status /\ row'.gen = row.gen /\ row'.wait = row.wait
  /\ eligibleAt' = eligibleAt
  /\ (\E q \in Runs : pc'[q] \in Attempting) => \E q \in Runs : pc[q] \in Attempting
  /\ Waiting /\ row.wait = 0 /\ (\E q \in Runs : pc[q] \in {"queued", "top"})
       => \E q \in Runs : pc'[q] \in {"queued", "top"}

Working ==
  /\ row.status \notin {"completed", "waiting_for_human"} /\ ~Waiting'
  /\ row'.gen >= row.gen /\ eligibleAt' = eligibleAt
  /\ (\E q \in Runs : pc'[q] \in Attempting) =>
       (\E q \in Runs : pc[q] \in Attempting) \/ row'.gen > row.gen

Parking ==
  /\ row.status \notin {"completed", "waiting_for_human"} /\ Waiting'
  /\ row'.gen = row.gen /\ eligibleAt' = clock + row'.wait
  /\ row'.wait > 0 \/ \E q \in Runs : pc[q] \in Attempting
  /\ \A q \in Runs : pc'[q] \notin Attempting

(* Whatever else it does, a step of the runtime leaves the wait standing,   *)
(* has the task worked on, or parks it: a new wait lies ahead, or belongs   *)
(* to the attempt that has just failed.                                     *)
LEMMA StepEffects ==
  ASSUME TypeOK, TypeOK', Backed, QuietClient, NEW r \in Runs, RuntimeStep(r)
  PROVE  row'.store = "live" /\ row.store = "live" /\ (Standing \/ Working \/ Parking)
<1>0. /\ row.gen \in Nat /\ row.wait \in Nat /\ pc \in [Runs -> Pcs]
      /\ row'.gen \in Nat /\ row'.wait \in Nat /\ DOMAIN task = Runs
      /\ \A q \in Runs : task[q].gen \in Nat
  <2>1. row' \in Rows /\ 0..RetryDelay \subseteq Nat
    BY BoundsAssumption DEF TypeOK
  <2> QED
    BY <2>1, Typed DEF Rows
<1>1. /\ Acquire(r) \/ Step(r)
      /\ eligibleAt' = IF Parks(r) THEN clock + row'.wait ELSE eligibleAt
  BY DEF RuntimeStep
<1>2. pc[r] # "idle" /\ budget' = budget /\ pc[r] # "recAnswer"
  BY <1>1, StepsUnderway DEF QuietClient
<1>3. RunKind(r)
  BY <1>1, RunKinds DEF Backed
<1>4. row.store = "live"
  BY <1>2 DEF QuietClient, Backed, GateInv
<1>5. /\ pc[r] \in Underway => row.status # "waiting_for_model"
      /\ pc[r] = "verify" => task[r].status # "waiting_for_model"
      /\ pc[r] \in Committed => row.status # "waiting_for_human"
      /\ pc[r] \in LockPcs => /\ row.gen = task[r].gen
                              /\ task[r].status \notin {"completed", "waiting_for_human"}
                              /\ row.status = "completed" => pc[r] \in {"completedSaved", "recCompleted"}
  <2>1. "verify" \in Underway
    BY DEF Underway, LockPcs
  <2> QED
    BY <2>1, <1>4 DEF Backed, BackoffInv, GateInv, CompletionInv, CopyInv, Agrees, Committed
<1>6. budget.faults \in Nat
  BY DEF TypeOK
<1> USE <1>0, <1>2, <1>4 DEF Waiting, Edge, Goto, Attempting, Live
<1>7. CASE Moved(r)
  <2>1. Standing
    BY <1>1, <1>5, <1>7 DEF Moved, Parks, Standing, Underway, LockPcs, Midway, RunRecords
  <2> QED
    BY <2>1, <1>7 DEF Moved
<1>8. CASE Recorded(r)
  <2>1. Standing
    BY <1>1, <1>8 DEF Recorded, Event, Parks, Standing
  <2> QED
    BY <2>1, <1>8 DEF Recorded, Event
<1>9. CASE Entered(r)
  <2>1. Standing
    BY <1>1, <1>9 DEF Entered, Parks, Standing
  <2> QED
    BY <2>1, <1>9 DEF Entered
<1>10. CASE Started(r) \/ Answering(r)
  <2>1. Working
    BY <1>1, <1>5, <1>10 DEF Started, Answering, Carried, Parks, Working, Committed, LockPcs,
       Midway, RunRecords
  <2> QED
    BY <2>1, <1>10 DEF Started, Answering, Carried
<1>11. CASE Deferred(r)
  <2>1. pc[r] \in LockPcs /\ pc[r] \in {"top", "catalog", "choosing"} /\ lock = r
    BY <1>11 DEF Deferred, Backed, LockInv, LockPcs, Midway, RunRecords
  <2>2. \A q \in Runs : pc'[q] \notin Attempting
    BY <1>11, <2>1, Zenon DEF Deferred, Backed, LockInv, LockPcs, Midway, RunRecords
  <2>3. row'.gen = row.gen /\ row'.status = "waiting_for_model" /\ row'.wait > 0
    BY <1>5, <1>11, <2>1 DEF Deferred, Carried
  <2>4. row.status \notin {"completed", "waiting_for_human"}
    BY <1>5, <2>1 DEF Committed
  <2> QED
    BY <1>1, <1>11, <2>1, <2>2, <2>3, <2>4 DEF Deferred, Carried, Parks, Parking
<1>12. CASE Attempted(r)
  <2>1. Working
    BY <1>1, <1>5, <1>12 DEF Attempted, Carried, Parks, Working, Committed, LockPcs, Midway
  <2> QED
    BY <2>1, <1>12 DEF Attempted, Carried
<1>13. CASE Receipted(r) \/ Called(r) \/ Concluded(r)
  <2>1. UNCHANGED row
    BY <1>13, ConcludedMoves DEF Receipted, Called
  <2>2. Standing
    BY <1>1, <1>13, <2>1, ConcludedMoves DEF Receipted, Called, Parks, Standing
  <2> QED
    BY <2>1, <2>2
<1>14. CASE CallLogged(r)
  <2>1. Standing
    BY <1>1, <1>14 DEF CallLogged, Parks, Standing
  <2> QED
    BY <2>1, <1>14 DEF CallLogged
<1>15. CASE Fetched(r)
  <2>1. Standing
    BY <1>1, <1>15 DEF Fetched, Event, Parks, Standing
  <2> QED
    BY <2>1, <1>15 DEF Fetched, Event
<1>16. CASE Judged(r)
  <2>1. Working
    BY <1>1, <1>5, <1>16 DEF Judged, Carried, Parks, Working, Committed, LockPcs
  <2> QED
    BY <2>1, <1>16 DEF Judged, Carried
<1>17. CASE Finished(r)
  <2>1. Working
    BY <1>1, <1>5, <1>17 DEF Finished, Carried, Parks, Working, Committed, LockPcs, Midway
  <2> QED
    BY <2>1, <1>17 DEF Finished, Carried
<1>18. CASE Slept(r) \/ Parked(r)
  <2>1. pc[r] = "afterFailure" /\ pc[r] \in LockPcs /\ lock = r
    BY <1>18 DEF Slept, Parked, Backed, LockInv, LockPcs, Midway
  <2>2. \A q \in Runs : q # r => pc[q] \notin LockPcs
    BY <2>1 DEF Backed, LockInv
  <2>3. \A q \in Runs : pc'[q] \notin Attempting
    BY <1>18, <2>2 DEF Slept, Parked, Leave, LockPcs, Midway, RunRecords
  <2>4. row.status \notin {"completed", "waiting_for_human"}
    BY <1>5, <2>1 DEF Committed
  <2>5. Parking
    BY <1>1, <1>18, <2>1, <2>3, <2>4 DEF Slept, Parked, Carried, Parks, Parking
  <2> QED
    BY <2>5, <1>18 DEF Slept, Parked, Carried
<1>19. CASE Left(r)
  <2>1. /\ row'.store = "live" /\ row'.status = row.status /\ row'.gen = row.gen
        /\ row'.wait = row.wait
    BY <1>19 DEF Left, Event
  <2>2. \A q \in Runs : pc'[q] = IF q = r THEN "idle" ELSE pc[q]
    BY <1>19 DEF Left, Leave
  <2>3. ~(Waiting /\ row.wait = 0 /\ pc[r] = "queued")
    <3> SUFFICES ASSUME Waiting, row.wait = 0, pc[r] = "queued" PROVE FALSE
      OBVIOUS
    <3>1. Acquire(r) /\ MayExecute
      BY <1>1, StepsUnderway DEF MayExecute
    <3>2. CASE Raise(r)
      BY <2>1, <3>2, RaiseLeaves
    <3> QED
      BY <2>2, <3>1, <3>2 DEF Acquire
  <2>4. ~Parks(r) /\ pc[r] # "top"
    BY <1>19 DEF Left, Parks
  <2> QED
    BY <1>1, <2>1, <2>2, <2>3, <2>4 DEF Standing
<1>20. CASE Raised(r)
  <2>1. pc[r] = "queued" /\ MayExecute /\ row'.status = "failed" /\ Carried(row)
        /\ Leave(r, "recFailure")
    BY <1>6, <1>20 DEF Raised
  <2>2. Working
    BY <1>1, <2>1 DEF MayExecute, Carried, Leave, Parks, Working
  <2> QED
    BY <2>1, <2>2 DEF Carried
<1> QED
  BY <1>3, <1>7, <1>8, <1>9, <1>10, <1>11, <1>12, <1>13, <1>14, <1>15, <1>16, <1>17,
     <1>18, <1>19, <1>20 DEF RunKind, Submitted, Answered

-----------------------------------------------------------------------------
(* The inductive invariant is kept: by the runtime's steps, ...             *)
LEMMA RuntimeKeepsPollInv ==
  ASSUME TypeOK, TypeOK', Backed, PollInv, NEW r \in Runs, RuntimeStep(r)
  PROVE  PollInv'
<1>0. /\ row.gen \in Nat /\ row.wait \in Nat /\ row'.gen \in Nat /\ row'.wait \in Nat
      /\ clock \in Nat /\ eligibleAt \in Nat
  <2>1. row \in Rows /\ row' \in Rows /\ 0..RetryDelay \subseteq Nat
    BY BoundsAssumption DEF TypeOK
  <2> QED
    BY <2>1 DEF Rows, PollInv, PollTypes
<1>1. /\ row.store = "live" /\ row'.store = "live"
      /\ Standing \/ Working \/ Parking
  BY StepEffects DEF PollInv
<1>2. /\ UNCHANGED <<clock, poll, latest, triggered, posts>>
      /\ \A q \in Runs : pc'[q] # "recAnswer"
  BY StepsUnderway DEF RuntimeStep, pollVars, PollInv, QuietClient
<1>3. PollTypes' /\ QuietClient'
  <2>1. eligibleAt' \in Nat
    BY <1>0, <1>1 DEF Standing, Working, Parking
  <2> QED
    BY <1>1, <1>2, <2>1 DEF PollInv, PollTypes, QuietClient
<1>4. /\ \A p \in posts : p.gen \in Nat /\ p.at \in Nat /\ p.at <= clock
      /\ latest.gen \in Nat /\ latest.at \in Nat /\ NoWait.at = -1
      /\ triggered = NoWait \/ triggered \in posts
  BY DEF PollInv, PollTypes, PastRequests, NoWait
<1>5. Considers' <=> Considers
  BY <1>2 DEF Considers
<1>6. CASE Standing
  <2>1. Waiting' <=> Waiting
    BY <1>6 DEF Standing, Waiting
  <2>2. WaitState(Snapshot)' = WaitState(Snapshot)
    BY <1>6 DEF Standing, WaitState, Snapshot
  <2>3. Moments'
    BY <1>2, <1>6, <2>1 DEF Standing, Moments, PollInv
  <2>4. PastRequests'
    BY <1>2, <1>5, <1>6 DEF Standing, PastRequests, PollInv, MustTrigger, WaitState
  <2>5. Remembered'
    BY <1>2, <1>5, <2>1, <2>2 DEF Remembered, PollInv, Unasked, WaitState
  <2>6. Covered'
    <3> SUFFICES ASSUME Waiting, triggered = WaitState(Snapshot)
                 PROVE  \E q \in Runs : pc'[q] \in {"queued", "top"}
      BY <1>2, <2>1, <2>2 DEF Covered
    <3>1. triggered \in posts /\ triggered.at = eligibleAt
      BY <1>0, <1>4 DEF WaitState, Snapshot
    <3>2. row.wait = 0
      BY <1>0, <1>4, <3>1 DEF PollInv, Moments
    <3> QED
      BY <1>6, <3>2 DEF Standing, PollInv, Covered
  <2>7. Final'
    BY <1>2, <1>6 DEF Standing, Final, PollInv
  <2> QED
    BY <1>3, <2>3, <2>4, <2>5, <2>6, <2>7 DEF PollInv
<1>7. CASE Working
  <2>1. Moments' /\ Covered'
    BY <1>7 DEF Working, Moments, Covered
  <2>2. PastRequests'
    BY <1>0, <1>2, <1>4, <1>5, <1>7 DEF Working, PastRequests, PollInv, MustTrigger, WaitState
  <2>3. Remembered'
    BY <1>2, <1>5, <1>7 DEF Working, Remembered, PollInv, WaitState
  <2>4. Final'
    BY <1>2, <1>7 DEF Working, Final, PollInv
  <2> QED
    BY <1>3, <2>1, <2>2, <2>3, <2>4 DEF PollInv
<1>8. CASE Parking
  <2>1. Moments'
    BY <1>0, <1>2, <1>8 DEF Parking, Moments
  <2>2. \A p \in posts : ~(p.gen = row'.gen /\ p.at = eligibleAt')
    BY <1>0, <1>4, <1>8 DEF Parking, PollInv, PastRequests
  <2>3. Unasked' /\ WaitState(Snapshot)' # triggered
    <3>1. WaitState(Snapshot)'.gen = row'.gen /\ WaitState(Snapshot)'.at = eligibleAt'
      BY DEF WaitState, Snapshot
    <3> QED
      BY <1>0, <1>2, <1>4, <1>8, <2>2, <3>1 DEF Unasked, Parking
  <2>4. PastRequests'
    BY <1>0, <1>2, <1>4, <1>5, <1>8 DEF Parking, PastRequests, PollInv, MustTrigger, WaitState
  <2>5. Remembered' /\ Covered'
    BY <1>2, <1>5, <2>3 DEF Remembered, Covered, PollInv, WaitState
  <2>6. Final'
    BY <1>2, <1>8 DEF Parking, Final, PollInv
  <2> QED
    BY <1>3, <2>1, <2>4, <2>5, <2>6 DEF PollInv
<1> QED
  BY <1>1, <1>6, <1>7, <1>8

(* ... by the passing of time, ...                                          *)
LEMMA TimeKeepsPollInv ==
  ASSUME TypeOK, PollInv, Time
  PROVE  PollInv'
<1>0. /\ row.gen \in Nat /\ row.wait \in Nat /\ clock \in Nat /\ eligibleAt \in Nat
      /\ clock' = clock + 1
      /\ UNCHANGED <<eligibleAt, pc, poll, latest, triggered, posts>>
  BY Typed DEF PollInv, PollTypes, Time, Tick, vars, pollVars
<1>1. /\ row'.wait = Less(row.wait) /\ row'.store = row.store
      /\ row'.status = row.status /\ row'.gen = row.gen
  <2>1. CASE Tick
    BY <2>1, TickKind DEF Ticked
  <2>2. CASE ~SomeoneWaits /\ UNCHANGED vars
    BY <1>0, <2>2 DEF SomeoneWaits, vars, Less
  <2> QED
    BY <2>1, <2>2 DEF Time
<1>2. PollTypes' /\ QuietClient'
  BY <1>0, <1>1 DEF PollInv, PollTypes, QuietClient
<1>3. Moments'
  BY <1>0, <1>1 DEF PollInv, Moments, Waiting, Less
<1>4. PastRequests'
  <2>1. \A p \in posts : p.at \in Nat
    BY DEF PollInv, PollTypes
  <2>2. latest.at \in Nat
    BY DEF PollInv, PollTypes
  <2> QED
    BY <1>0, <1>1, <2>1, <2>2 DEF PollInv, PastRequests, Considers, MustTrigger, WaitState
<1>5. Remembered' /\ Covered' /\ Final'
  BY <1>0, <1>1 DEF PollInv, Remembered, Covered, Final, Considers, Waiting, Unasked,
     WaitState, Snapshot
<1> QED
  BY <1>2, <1>3, <1>4, <1>5 DEF PollInv

(* ... by the client's two requests, ...                                    *)
LEMMA SubmitKeepsPollInv ==
  ASSUME TypeOK, GateInv, TypeOK', PollInv, NEW r \in Runs, PollSubmit(r)
  PROVE  PollInv'
<1>1. /\ poll = "submitting" /\ poll' = "submitted" /\ row.store = "none"
      /\ UNCHANGED <<clock, eligibleAt, latest, triggered, posts>>
      /\ \A q \in Runs : pc[q] = "idle"
  BY DEF PollSubmit, Submit, GateInv
<1>2. RunKind(r)
  BY RunKinds DEF PollSubmit, Request
<1>3. pc'[r] = "recSubmit" /\ \A q \in Runs : pc'[q] \in {"idle", "recSubmit"}
  BY <1>1 DEF PollSubmit, Submit, Goto, TypeOK
<1>4. Submitted(r)
  BY <1>1, <1>2, <1>3 DEF RunKind, Answered, Moved, Recorded, Entered, Started, Deferred,
     Attempted, Receipted, Called, CallLogged, Concluded, Answering, Fetched, Judged, Finished,
     Slept, Parked, Left, Raised, Edge, Goto, TypeOK, RunRecords
<1>5. /\ row'.store = "live" /\ row'.status \in {"waiting_for_human", "ready"} /\ row'.gen = 0
  BY <1>4 DEF Submitted
<1>6. posts = {} /\ posts' = {}
  BY <1>1 DEF PollInv, PastRequests
<1>7. PollTypes' /\ QuietClient'
  BY <1>1, <1>3, <1>5 DEF PollInv, PollTypes, QuietClient
<1>8. PastRequests'
  <2>1. \A q \in Runs : pc'[q] \notin Attempting
    BY <1>3 DEF Attempting
  <2> QED
    BY <1>1, <1>6, <2>1 DEF PollInv, PastRequests, Considers
<1>9. Moments' /\ Remembered' /\ Covered' /\ Final'
  BY <1>1, <1>5, <1>6 DEF Moments, Remembered, Covered, Final, Waiting, Considers
<1> QED
  BY <1>7, <1>8, <1>9 DEF PollInv

LEMMA TriggerKeepsPollInv ==
  ASSUME TypeOK, LockInv, PollInv, NEW r \in Runs, PollTrigger(r)
  PROVE  PollInv'
<1>1. /\ poll = "posting" /\ poll' = "head" /\ row.store = "live"
      /\ triggered' = WaitState(latest) /\ posts' = posts \cup {WaitState(latest)}
      /\ UNCHANGED <<row, clock, eligibleAt, latest>>
      /\ pc[r] = "idle" /\ \A q \in Runs : pc'[q] = IF q = r THEN "queued" ELSE pc[q]
  BY DEF PollTrigger, PostRun, Live, WaitState, Goto, TypeOK
<1>2. /\ WaitState(latest).gen = latest.gen /\ WaitState(latest).at = latest.at
      /\ WaitState(latest) = [gen |-> latest.gen, at |-> latest.at]
      /\ latest.gen \in Nat /\ latest.at \in Nat /\ latest.at <= clock
      /\ latest.gen <= row.gen /\ Considers
  BY <1>1 DEF WaitState, PollInv, PollTypes, PastRequests, MustTrigger
<1>3. PollTypes' /\ QuietClient'
  BY <1>1, <1>2 DEF PollInv, PollTypes, QuietClient
<1>4. Moments' /\ Final' /\ ~Considers'
  BY <1>1 DEF PollInv, Moments, Waiting, Final, Considers
<1>5. PastRequests'
  <2>1. (\E q \in Runs : pc'[q] \in Attempting) => \E q \in Runs : pc[q] \in Attempting
    BY <1>1 DEF Attempting
  <2> QED
    BY <1>1, <1>2, <1>4, <2>1 DEF PollInv, PastRequests
<1>6. Remembered'
  <2>1. WaitState(Snapshot)' = WaitState(Snapshot)
    BY <1>1 DEF WaitState, Snapshot
  <2> QED
    BY <1>1, <1>2, <1>4, <2>1 DEF PollInv, Remembered, Unasked, Waiting
<1>7. Covered'
  BY <1>1 DEF Covered
<1> QED
  BY <1>3, <1>4, <1>5, <1>6, <1>7 DEF PollInv

(* ... and by what the poller does with an answer.                          *)
LEMMA PollerKeepsPollInv ==
  ASSUME TypeOK, BackoffInv, PollInv, UNCHANGED <<vars, clock, eligibleAt, posts>>,
         \/ PollSubmitted \/ PollSleep \/ PollGet \/ PollEnds \/ PollSeesProgress
         \/ PollSeesWait \/ PollRaises
  PROVE  PollInv'
<1>0. /\ UNCHANGED <<row, pc, clock, eligibleAt, posts>>
      /\ row.gen \in Nat /\ clock \in Nat /\ eligibleAt \in Nat
  BY Typed DEF vars, PollInv, PollTypes
<1>1. WaitState(Snapshot)' = WaitState(Snapshot)
  BY <1>0 DEF WaitState, Snapshot
<1>2. Moments'
  BY <1>0 DEF PollInv, Moments, Waiting
<1>3. CASE PollGet
  <2>1. /\ poll = "asleep" /\ poll' = "judging" /\ latest' = Snapshot /\ triggered' = triggered
        /\ latest'.status = row.status /\ latest'.gen = row.gen /\ latest'.at = eligibleAt
        /\ WaitState(latest)' = WaitState(Snapshot)
    BY <1>3 DEF PollGet, Snapshot, WaitState
  <2>2. Considers' <=> Waiting
    BY <2>1 DEF Considers, Waiting
  <2>3. PollTypes' /\ QuietClient'
    BY <1>0, <2>1 DEF PollInv, PollTypes, QuietClient
  <2>4. PastRequests'
    <3>1. (\E q \in Runs : pc[q] \in Attempting) => ~Waiting
      BY DEF BackoffInv, Underway, Attempting, LockPcs, Midway, RunRecords, Waiting
    <3> QED
      BY <1>0, <2>1, <2>2, <3>1 DEF PollInv, PastRequests
  <2>5. Remembered' /\ Covered' /\ Final'
    BY <1>0, <1>1, <2>1, <2>2 DEF PollInv, Remembered, Covered, Final, Unasked, Waiting
  <2> QED
    BY <1>2, <2>3, <2>4, <2>5 DEF PollInv
<1>4. CASE PollSubmitted \/ PollSleep \/ PollEnds \/ PollRaises
  <2>1. /\ UNCHANGED <<latest, triggered>> /\ poll # "submitting"
        /\ poll' \in {"head", "asleep", "timedOut", "done", "raised"}
        /\ poll' = "done" => poll = "judging"
    BY <1>4 DEF PollSubmitted, PollSleep, PollEnds, PollRaises
  <2>2. PollTypes' /\ QuietClient' /\ ~Considers'
    BY <1>0, <2>1 DEF PollInv, PollTypes, QuietClient, Considers
  <2>3. PastRequests' /\ Remembered' /\ Covered' /\ Final'
    BY <1>0, <1>1, <2>1, <2>2 DEF PollInv, PastRequests, Remembered, Covered, Final, Unasked,
       Waiting
  <2> QED
    BY <1>2, <2>2, <2>3 DEF PollInv
<1>5. CASE PollSeesProgress
  <2>1. /\ latest' = latest /\ triggered' = NoWait /\ poll = "judging" /\ poll' = "head"
        /\ latest.status \notin Terminal /\ ~Considers
    BY <1>5 DEF PollSeesProgress, Considers
  <2>2. PollTypes' /\ QuietClient' /\ ~Considers'
    BY <1>0, <2>1 DEF PollInv, PollTypes, QuietClient, Considers
  <2>3. PastRequests' /\ Remembered' /\ Final'
    BY <1>0, <1>1, <2>1, <2>2 DEF PollInv, PastRequests, Remembered, Final, Unasked, Waiting
  <2>4. Covered'
    <3>1. WaitState(Snapshot)' # NoWait
      BY <1>0, <1>1 DEF WaitState, Snapshot, NoWait
    <3> QED
      BY <2>1, <3>1 DEF Covered
  <2> QED
    BY <1>2, <2>2, <2>3, <2>4 DEF PollInv
<1>6. CASE PollSeesWait
  <2>1. /\ UNCHANGED <<latest, triggered>> /\ poll = "judging" /\ Considers
        /\ poll' \in {"posting", "head"} /\ (poll' = "posting" => MustTrigger)
        /\ WaitState(latest)' = WaitState(latest)
    BY <1>6 DEF PollSeesWait, Considers, WaitState
  <2>2. /\ PollTypes' /\ QuietClient' /\ (Considers' <=> poll' = "posting")
        /\ poll' = "posting" => MustTrigger'
    BY <1>0, <2>1 DEF PollInv, PollTypes, QuietClient, Considers, MustTrigger
  <2>3. PastRequests' /\ Remembered' /\ Covered' /\ Final'
    BY <1>0, <1>1, <2>1, <2>2 DEF PollInv, PastRequests, Remembered, Covered, Final, Unasked,
       Waiting
  <2> QED
    BY <1>2, <2>2, <2>3 DEF PollInv
<1> QED
  BY <1>3, <1>4, <1>5, <1>6

(* Nothing was asked yet.                                                   *)
LEMMA PollInvInit == PollInit => PollInv
<1> SUFFICES ASSUME PollInit PROVE PollInv
  OBVIOUS
<1>1. /\ row.store = "none" /\ row.status = "ready" /\ row.gen = 0
      /\ \A r \in Runs : pc[r] = "idle"
      /\ clock = 0 /\ eligibleAt = 0 /\ poll = "submitting" /\ triggered = NoWait
      /\ posts = {} /\ latest.gen = 0 /\ latest.at = 0
  BY DEF PollInit, Init, EmptyRow, Snapshot
<1>2. PollTypes /\ QuietClient /\ PastRequests
  BY <1>1 DEF PollTypes, QuietClient, PastRequests, Considers, Attempting
<1>3. Moments /\ Remembered /\ Covered /\ Final
  BY <1>1 DEF Moments, Remembered, Covered, Final, Waiting, Considers
<1> QED
  BY <1>2, <1>3 DEF PollInv

LEMMA PollInvStep == TypeOK /\ Backed /\ PollInv /\ [PollNext]_allVars => PollInv'
<1> SUFFICES ASSUME TypeOK, Backed, PollInv, [PollNext]_allVars PROVE PollInv'
  OBVIOUS
<1>0. TypeOK' /\ GateInv /\ LockInv /\ BackoffInv
  BY PollSteps, TypeStep DEF Backed
<1>1. ASSUME NEW r \in Runs, RuntimeStep(r) PROVE PollInv'
  BY <1>0, <1>1, RuntimeKeepsPollInv
<1>2. ASSUME NEW r \in Runs, PollSubmit(r) PROVE PollInv'
  BY <1>0, <1>2, SubmitKeepsPollInv
<1>3. ASSUME NEW r \in Runs, PollTrigger(r) PROVE PollInv'
  BY <1>0, <1>3, TriggerKeepsPollInv
<1>4. CASE Time
  BY <1>4, TimeKeepsPollInv
<1>5. CASE PollSubmitted \/ PollSleep \/ PollGet \/ PollEnds \/ PollSeesProgress
           \/ PollSeesWait \/ PollRaises
  <2>1. UNCHANGED <<vars, clock, eligibleAt, posts>>
    BY <1>5 DEF PollSubmitted, PollSleep, PollGet, PollEnds, PollSeesProgress, PollSeesWait,
       PollRaises
  <2> QED
    BY <1>0, <1>5, <2>1, PollerKeepsPollInv
<1>6. CASE UNCHANGED allVars
  BY <1>6 DEF allVars, vars, pollVars, PollInv, PollTypes, QuietClient, Moments, PastRequests,
     Remembered, Covered, Final, Considers, Waiting, Unasked, WaitState, Snapshot, MustTrigger
<1> QED
  BY <1>1, <1>2, <1>3, <1>4, <1>5, <1>6 DEF PollNext

LEMMA PollInvHolds == PollSpec => [](TypeOK /\ Backed /\ PollInv)
BY PollImplementsRuntime, BackedHolds, PollInvInit, PollInvStep, PTL DEF PollSpec

-----------------------------------------------------------------------------
(* acceptance.py, _run_task: the poller keeps silent about a wait it        *)
(* remembers only while a run asked for that wait is still to begin, so its *)
(* memory never leaves a parked task without the run it needs.              *)
THEOREM SkipsAreCovered == PollSpec => []SkipIsCovered
<1>1. PollInv => SkipIsCovered
  BY DEF PollInv, Covered, Waiting, SkipIsCovered, Committed, LockPcs, Midway
<1> QED
  BY <1>1, PollInvHolds, PTL

(* The same wait is never asked for twice, whatever the poller saw of the   *)
(* task in between and however late its answers were.                       *)
THEOREM WaitsGetOneRun == PollSpec => OneRunPerWait
<1>1. PollInv => (poll = "posting" => [gen |-> latest.gen, at |-> latest.at] \notin posts)
  BY DEF PollInv, PastRequests, Remembered, MustTrigger, WaitState
<1>2. PollInv => [poll = "posting" /\ poll' = "head"
                   => [gen |-> latest.gen, at |-> latest.at] \notin posts]_allVars
  BY <1>1
<1> QED
  BY <1>2, PollInvHolds, PTL DEF OneRunPerWait

(* A completion, or a question for a human, that the poller reported is     *)
(* what the task says for ever after, whatever runs were still queued.      *)
THEOREM ReportsStand == PollSpec => []ReportStands
<1>1. PollInv => ReportStands
  BY DEF PollInv, Final, ReportStands
<1> QED
  BY <1>1, PollInvHolds, PTL
=============================================================================
