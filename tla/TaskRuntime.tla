---------------------------- MODULE TaskRuntime ----------------------------
(***************************************************************************)
(* One task of cortex_v5/runtime.py and the requests of cortex_v5/api.py   *)
(* that touch it.                                                          *)
(*                                                                         *)
(* A member of Runs is a coroutine of the one asyncio event loop: first    *)
(* the HTTP request (submit, answer, run), then, when the request          *)
(* schedules an execution, the background task that runs it.  pc names the *)
(* await a coroutine is suspended in.  The pcs of Midway are not awaits:   *)
(* they separate two commits of one uninterrupted stretch of code, so no   *)
(* other coroutine may step there, but the process may die there.          *)
(*                                                                         *)
(* row is the task's row in the journal; task[r] is the Python dictionary  *)
(* run r works on, a copy taken at its last get_task and written back      *)
(* whole.  attempt_count and generation are incremented together and never *)
(* apart, so gen stands for both.  Times are what is left to wait.  Model  *)
(* choice and the seat transition are free choices here (SharedSeating     *)
(* models them); messages, output and event payloads are left out.         *)
(***************************************************************************)
EXTENDS Integers, Sequences

CONSTANTS Runs,          \* coroutines that may serve this task
          Sinks,         \* telemetry sinks: local, gravebuster, langfuse
          MaxAttempts,   \* settings.max_attempts, attempts of one run()
          MaxToolRounds, \* settings.max_tool_rounds
          RetryDelay,    \* _RETRY_DELAY_SECONDS, and the longest wait modelled
          Executable,    \* the task type needs a successful tool call
          NeedTelemetry, \* verification.require_external_telemetry
          GenBound,      \* bound: generations explored
          MaxCrashes,    \* bound: process deaths
          MaxExpiries,   \* bound: TTL expiries
          MaxFaults      \* bound: transient journal errors

ASSUME BoundsAssumption ==
  /\ MaxAttempts \in Nat \ {0}
  /\ MaxToolRounds \in Nat
  /\ RetryDelay \in Nat \ {0}
  /\ GenBound \in Nat
  /\ MaxCrashes \in Nat /\ MaxExpiries \in Nat /\ MaxFaults \in Nat

ASSUME TaskAssumption == Executable \in BOOLEAN /\ NeedTelemetry \in BOOLEAN

Free == "free"   \* the asyncio.Lock of the task has no holder

ASSUME FreeAssumption == Free \notin Runs

VARIABLES
  row,       \* the task's row in the journal
  lock,      \* holder of self._locks[task_id]
  pc,        \* where each coroutine is suspended
  task,      \* the local variable `task` of each run()
  ctx,       \* the other locals of each run()
  receipts,  \* generations of the "model_attempt" receipts, in order
  outcomes,  \* rows of append_outcome, in order: [gen, ok]
  acked,     \* sinks that really accepted an event of this task (history)
  toolRan,   \* a tool really succeeded for this task (history)
  budget     \* crashes, expiries and faults still allowed

vars == <<row, lock, pc, task, ctx, receipts, outcomes, acked, toolRan, budget>>

-----------------------------------------------------------------------------
Statuses == {"waiting_for_human", "ready", "running", "waiting_for_model",
             "verifying", "completed", "failed"}

NoVerdict == [gen |-> 0, passed |-> FALSE]

(* A row that was never inserted ("none") or was deleted after its TTL.    *)
EmptyRow(store) ==
  [store |-> store, status |-> "ready", ambiguous |-> FALSE, gen |-> 0,
   used |-> FALSE, tel |-> {}, verdict |-> NoVerdict, wait |-> 0]

Verdicts == [gen : Nat, passed : BOOLEAN]

Rows == [store : {"none", "live", "expired", "deleted"}, status : Statuses,
         ambiguous : BOOLEAN, gen : Nat, used : BOOLEAN,
         tel : SUBSET Sinks, verdict : Verdicts, wait : 0..RetryDelay]

NoCtx == [start |-> 0, rounds |-> 0, passed |-> FALSE, wake |-> 0]

Ctxs == [start : Nat, rounds : 0..MaxToolRounds, passed : BOOLEAN, wake : 0..RetryDelay]

Midway == {"top", "choosing", "attemptSaved", "afterFailure", "judged", "completedSaved"}

(* Awaits of run() inside a _record whose failure escapes run().           *)
RunRecords == {"recCatFail", "recCatalog", "recExhausted", "recStarted",
               "recFailed", "recVerStart", "recVerResult", "recCompleted", "recWindow"}

LockPcs == Midway \cup RunRecords \cup {"catalog", "chat", "recTool", "sleep", "verify"}

Pcs == LockPcs \cup {"idle", "recSubmit", "recAnswer", "queued", "recFailure"}

(* The event loop runs one coroutine at a time.                            *)
Awake(r) == \A q \in Runs \ {r} : pc[q] \notin Midway

-----------------------------------------------------------------------------
(* Journal.get and Journal.put: a get of an expired row deletes it, a put  *)
(* updates the row it finds without touching its expiry and inserts one    *)
(* with a fresh expiry when there is none.                                 *)
Live == row.store = "live"

Put(t) ==
  row' = [t EXCEPT !.store = IF row.store \in {"live", "expired"} THEN row.store ELSE "live"]

Forget == row' = IF row.store = "expired" THEN EmptyRow("deleted") ELSE row

Goto(r, place) == pc' = [pc EXCEPT ![r] = place]

(* Mutant of Leave: an exit that keeps the lock.                           *)
LeaveHolding(r, place) ==
  /\ Goto(r, place)
  /\ task' = [task EXCEPT ![r] = EmptyRow("none")]
  /\ ctx' = [ctx EXCEPT ![r] = NoCtx]
  /\ UNCHANGED lock

(* Leave run(): the lock is released and the locals die.                   *)
Leave(r, place) ==
  /\ lock' = IF lock = r THEN Free ELSE lock
  /\ Goto(r, place)
  /\ task' = [task EXCEPT ![r] = EmptyRow("none")]
  /\ ctx' = [ctx EXCEPT ![r] = NoCtx]

(* Mutant of Raise: the exception is logged and nothing is persisted.      *)
RaiseSilently(r) == Forget /\ Leave(r, "idle")

(* An exception escapes run(): execute() in api.py calls                   *)
(* record_unexpected_failure without an await in between.                  *)
Raise(r) ==
  IF Live
  THEN Put([row EXCEPT !.status = "failed"]) /\ Leave(r, "recFailure")
  ELSE Forget /\ Leave(r, "idle")

(* The end of _record: the thread has delivered the event to the sinks of  *)
(* `acks`, and the flags are OR-ed into the row as it is now.              *)
Record(acks) ==
  /\ acked' = acked \cup acks
  /\ IF Live THEN Put([row EXCEPT !.tel = @ \cup acks]) ELSE Forget

-----------------------------------------------------------------------------
Init ==
  /\ row = EmptyRow("none")
  /\ lock = Free
  /\ pc = [r \in Runs |-> "idle"]
  /\ task = [r \in Runs |-> EmptyRow("none")]
  /\ ctx = [r \in Runs |-> NoCtx]
  /\ receipts = <<>>
  /\ outcomes = <<>>
  /\ acked = {}
  /\ toolRan = FALSE
  /\ budget = [crashes |-> MaxCrashes, expiries |-> MaxExpiries, faults |-> MaxFaults]

(* POST /v1/tasks *)
Submit(r) ==
  /\ pc[r] = "idle" /\ Awake(r)
  /\ row.store = "none"
  /\ \E ambiguous \in BOOLEAN :
       Put([EmptyRow("none") EXCEPT
              !.ambiguous = ambiguous,
              !.status = IF ambiguous THEN "waiting_for_human" ELSE "ready"])
  /\ Goto(r, "recSubmit")
  /\ UNCHANGED <<lock, task, ctx, receipts, outcomes, acked, toolRan, budget>>

(* POST /v1/tasks/{id}/answers *)
Answer(r) ==
  /\ pc[r] = "idle" /\ Awake(r)
  /\ Live /\ row.status = "waiting_for_human"
  /\ \E ambiguous \in BOOLEAN :
       Put([row EXCEPT
              !.ambiguous = ambiguous,
              !.status = IF ambiguous THEN "waiting_for_human" ELSE "ready"])
  /\ Goto(r, "recAnswer")
  /\ UNCHANGED <<lock, task, ctx, receipts, outcomes, acked, toolRan, budget>>

(* submit() and answer() return; the endpoint schedules a run when the     *)
(* snapshot taken after the await is ready and the caller wants it.        *)
RequestDone(r) ==
  /\ pc[r] \in {"recSubmit", "recAnswer"} /\ Awake(r)
  /\ \E acks \in SUBSET Sinks : Record(acks)
  /\ \E autostart \in BOOLEAN :
       Goto(r, IF autostart /\ Live /\ row.status = "ready" THEN "queued" ELSE "idle")
  /\ UNCHANGED <<lock, task, ctx, receipts, outcomes, toolRan, budget>>

(* Mutant of PostRun: the endpoint does not look at the status.            *)
PostRunUngated(r) ==
  /\ pc[r] = "idle" /\ Awake(r)
  /\ Live
  /\ Goto(r, "queued")
  /\ UNCHANGED <<row, lock, task, ctx, receipts, outcomes, acked, toolRan, budget>>

(* POST /v1/tasks/{id}/run *)
PostRun(r) ==
  /\ pc[r] = "idle" /\ Awake(r)
  /\ Live /\ row.status # "waiting_for_human"
  /\ Goto(r, "queued")
  /\ UNCHANGED <<row, lock, task, ctx, receipts, outcomes, acked, toolRan, budget>>

(* Any request that reads the task: the read deletes a row past its TTL.   *)
Poll ==
  /\ \A r \in Runs : pc[r] \notin Midway
  /\ row.store = "expired"
  /\ Forget
  /\ UNCHANGED <<lock, pc, task, ctx, receipts, outcomes, acked, toolRan, budget>>

-----------------------------------------------------------------------------
(* Mutants of MayExecute: next_eligible_at is ignored; a completed task is *)
(* executed again.                                                         *)
MayExecuteEarly == Live /\ row.status \notin {"completed", "waiting_for_human"}

MayExecuteAgain ==
  /\ Live
  /\ row.status # "waiting_for_human"
  /\ ~(row.status = "waiting_for_model" /\ row.wait > 0)

(* run(): the lock is taken, the task read and the early exits tested.     *)
MayExecute ==
  /\ Live
  /\ row.status \notin {"completed", "waiting_for_human"}
  /\ ~(row.status = "waiting_for_model" /\ row.wait > 0)

Acquire(r) ==
  /\ pc[r] = "queued" /\ Awake(r)
  /\ lock = Free
  /\ \/ MayExecute /\ lock' = r /\ Goto(r, "top")
        /\ task' = [task EXCEPT ![r] = row]
        /\ ctx' = [ctx EXCEPT ![r] = [NoCtx EXCEPT !.start = row.gen]]
        /\ UNCHANGED row
     \/ Live /\ ~MayExecute /\ row.status # "waiting_for_human"
        /\ Leave(r, "idle")
        /\ UNCHANGED row
     \* expired, a human answer missing, or the workspace cannot be opened
     \/ (MayExecute \/ ~Live \/ row.status = "waiting_for_human") /\ Raise(r)
  /\ UNCHANGED <<receipts, outcomes, acked, toolRan, budget>>

(* The head of the while loop. *)
WindowOpen(r) == task[r].gen - ctx[r].start < MaxAttempts

LoopTop(r) ==
  /\ pc[r] = "top" /\ Awake(r) /\ WindowOpen(r)
  /\ IF Live
     THEN /\ Put([row EXCEPT !.status = "running", !.wait = 0])
          /\ task' = [task EXCEPT ![r] = row']
          /\ Goto(r, "catalog")
          /\ UNCHANGED <<lock, ctx>>
     ELSE Raise(r)
  /\ UNCHANGED <<receipts, outcomes, acked, toolRan, budget>>

WindowExhausted(r) ==
  /\ pc[r] = "top" /\ Awake(r) /\ ~WindowOpen(r)
  /\ IF Live
     THEN /\ Put([row EXCEPT !.status = "waiting_for_model", !.wait = RetryDelay])
          /\ Goto(r, "recWindow")
          /\ UNCHANGED <<lock, task, ctx>>
     ELSE Raise(r)
  /\ UNCHANGED <<receipts, outcomes, acked, toolRan, budget>>

(* refresh_models() returned, or raised: the dictionary read before the    *)
(* await is what is written.                                               *)
CatalogRefreshed(r) ==
  /\ pc[r] = "catalog" /\ Awake(r)
  /\ Goto(r, "recCatalog")
  /\ UNCHANGED <<row, lock, task, ctx, receipts, outcomes, acked, toolRan, budget>>

CatalogFailed(r) ==
  /\ pc[r] = "catalog" /\ Awake(r)
  /\ Put([task[r] EXCEPT !.status = "waiting_for_model", !.wait = RetryDelay])
  /\ Goto(r, "recCatFail")
  /\ UNCHANGED <<lock, task, ctx, receipts, outcomes, acked, toolRan, budget>>

CatalogRecorded(r) ==
  /\ pc[r] = "recCatalog" /\ Awake(r)
  /\ \E acks \in SUBSET Sinks : Record(acks)
  /\ Goto(r, "choosing")
  /\ UNCHANGED <<lock, task, ctx, receipts, outcomes, toolRan, budget>>

(* _choose_model() found no eligible seat.                                 *)
Exhausted(r) ==
  /\ pc[r] = "choosing" /\ Awake(r)
  /\ \E wait \in 1..RetryDelay :
       Put([task[r] EXCEPT !.status = "waiting_for_model", !.wait = wait])
  /\ Goto(r, "recExhausted")
  /\ UNCHANGED <<lock, task, ctx, receipts, outcomes, acked, toolRan, budget>>

(* Mutant of BeginAttempt: the new generation stays in the dictionary.     *)
BeginAttemptUnsaved(r) ==
  /\ pc[r] = "choosing" /\ Awake(r)
  /\ task[r].gen < GenBound
  /\ task' = [task EXCEPT ![r].gen = @ + 1, ![r].status = "running"]
  /\ Goto(r, "attemptSaved")
  /\ UNCHANGED <<row, lock, ctx, receipts, outcomes, acked, toolRan, budget>>

(* A seat was chosen: the attempt gets its generation, then its receipt.   *)
BeginAttempt(r) ==
  /\ pc[r] = "choosing" /\ Awake(r)
  /\ task[r].gen < GenBound
  /\ task' = [task EXCEPT ![r].gen = @ + 1, ![r].status = "running"]
  /\ Put(task'[r])
  /\ Goto(r, "attemptSaved")
  /\ UNCHANGED <<lock, ctx, receipts, outcomes, acked, toolRan, budget>>

ReceiveAttempt(r) ==
  /\ pc[r] = "attemptSaved" /\ Awake(r)
  /\ receipts' = Append(receipts, task[r].gen)
  /\ Goto(r, "recStarted")
  /\ UNCHANGED <<row, lock, task, ctx, outcomes, acked, toolRan, budget>>

AttemptStarted(r) ==
  /\ pc[r] = "recStarted" /\ Awake(r)
  /\ \E acks \in SUBSET Sinks : Record(acks)
  /\ Goto(r, "chat")
  /\ ctx' = [ctx EXCEPT ![r].rounds = 0]
  /\ UNCHANGED <<lock, task, receipts, outcomes, toolRan, budget>>

-----------------------------------------------------------------------------
(* The loop records sse.started, sse.completed and tool.call as it goes.   *)
ChatRecorded(r) ==
  /\ pc[r] = "chat" /\ Awake(r)
  /\ \E acks \in SUBSET Sinks : Record(acks)
  /\ UNCHANGED <<lock, pc, task, ctx, receipts, outcomes, toolRan, budget>>

(* Mutant of ToolCall: the last call decides whether tools were used.      *)
ToolCallOverwrites(r) ==
  /\ pc[r] = "chat" /\ Awake(r)
  /\ ctx[r].rounds < MaxToolRounds
  /\ ctx' = [ctx EXCEPT ![r].rounds = @ + 1]
  /\ \E ok \in BOOLEAN :
       /\ toolRan' = (toolRan \/ ok)
       /\ task' = [task EXCEPT ![r].used = ok]
  /\ Goto(r, "recTool")
  /\ UNCHANGED <<row, lock, receipts, outcomes, acked, budget>>

(* _tool_loop: a tool call of a round, its result recorded and the count   *)
(* persisted; the loop's end; anything that raises inside it.              *)
ToolCall(r) ==
  /\ pc[r] = "chat" /\ Awake(r)
  /\ ctx[r].rounds < MaxToolRounds
  /\ ctx' = [ctx EXCEPT ![r].rounds = @ + 1]
  /\ \E ok \in BOOLEAN :
       /\ toolRan' = (toolRan \/ ok)
       /\ task' = [task EXCEPT ![r].used = @ \/ ok]
  /\ Goto(r, "recTool")
  /\ UNCHANGED <<row, lock, receipts, outcomes, acked, budget>>

(* A failed attempt is logged; what the seat transition asks for is chosen  *)
(* in AfterFailure.                                                        *)
LogOutcome(r, ok) == outcomes' = Append(outcomes, [gen |-> task[r].gen, ok |-> ok])

ToolRecorded(r) ==
  /\ pc[r] = "recTool" /\ Awake(r)
  /\ \E acks \in SUBSET Sinks :
       /\ acked' = acked \cup acks
       /\ IF Live
          THEN /\ Put([row EXCEPT !.tel = @ \cup acks, !.used = task[r].used])
               /\ Goto(r, "chat")
               /\ UNCHANGED outcomes
          ELSE Forget /\ LogOutcome(r, FALSE) /\ Goto(r, "recFailed")
  /\ UNCHANGED <<lock, task, ctx, receipts, toolRan, budget>>

ChatFailed(r) ==
  /\ pc[r] = "chat" /\ Awake(r)
  /\ LogOutcome(r, FALSE)
  /\ Goto(r, "recFailed")
  /\ UNCHANGED <<row, lock, task, ctx, receipts, acked, toolRan, budget>>

ChatDone(r) ==
  /\ pc[r] = "chat" /\ Awake(r)
  /\ Live
  /\ Put([row EXCEPT !.status = "verifying"])
  /\ Goto(r, "recVerStart")
  /\ UNCHANGED <<lock, task, ctx, receipts, outcomes, acked, toolRan, budget>>

(* Mutant of FailureRecorded: the outcome of a failed attempt is logged    *)
(* once more when its telemetry is through.                                *)
FailureLoggedAgain(r) ==
  /\ pc[r] = "recFailed" /\ Awake(r)
  /\ \E acks \in SUBSET Sinks : Record(acks)
  /\ LogOutcome(r, FALSE)
  /\ Goto(r, "afterFailure")
  /\ UNCHANGED <<lock, task, ctx, receipts, toolRan, budget>>

FailureRecorded(r) ==
  /\ pc[r] = "recFailed" /\ Awake(r)
  /\ \E acks \in SUBSET Sinks : Record(acks)
  /\ Goto(r, "afterFailure")
  /\ UNCHANGED <<lock, task, ctx, receipts, outcomes, toolRan, budget>>

(* After a failed attempt or a failed verification.  The methodology is    *)
(* decided again only after the latter; it depends on persisted fields     *)
(* alone, so it says what row.ambiguous says.                              *)
NeedsHuman == row.ambiguous /\ row.verdict.gen = row.gen

Park(r) ==
  /\ pc[r] = "afterFailure" /\ Awake(r)
  /\ IF Live
     THEN /\ \E wait \in 0..RetryDelay :
               Put([row EXCEPT
                      !.status = IF NeedsHuman THEN "waiting_for_human" ELSE "waiting_for_model",
                      !.wait = wait])
          /\ Leave(r, "idle")
     ELSE Raise(r)
  /\ UNCHANGED <<receipts, outcomes, acked, toolRan, budget>>

(* Mutant of RetryLater: max(1.0, eligible_at - clock()) loses its max.    *)
RetryLaterUnclamped(r) ==
  /\ pc[r] = "afterFailure" /\ Awake(r)
  /\ Live /\ ~NeedsHuman
  /\ \E delay \in -1..RetryDelay :
       /\ Put([row EXCEPT !.status = "waiting_for_model", !.wait = delay])
       /\ ctx' = [ctx EXCEPT ![r].wake = delay]
  /\ task' = [task EXCEPT ![r] = row']
  /\ Goto(r, "sleep")
  /\ UNCHANGED <<lock, receipts, outcomes, acked, toolRan, budget>>

RetryLater(r) ==
  /\ pc[r] = "afterFailure" /\ Awake(r)
  /\ Live /\ ~NeedsHuman
  /\ \E delay \in 1..RetryDelay :
       /\ Put([row EXCEPT !.status = "waiting_for_model", !.wait = delay])
       /\ ctx' = [ctx EXCEPT ![r].wake = delay]
  /\ task' = [task EXCEPT ![r] = row']
  /\ Goto(r, "sleep")
  /\ UNCHANGED <<lock, receipts, outcomes, acked, toolRan, budget>>

SleptOut(r) ==
  /\ pc[r] = "sleep" /\ Awake(r)
  /\ ctx[r].wake = 0
  /\ Goto(r, "top")
  /\ UNCHANGED <<row, lock, task, ctx, receipts, outcomes, acked, toolRan, budget>>

-----------------------------------------------------------------------------
(* Mutant of GatePasses: the checks alone decide.                          *)
GatePassesOnChecks(t, checks) == checks

(* The gate reads the dictionary fetched before the checks ran in their    *)
(* thread; `checks` stands for what module VerificationGate adds: texts,   *)
(* required files and checker commands.                                    *)
GatePasses(t, checks) ==
  /\ ~t.ambiguous
  /\ Executable => t.used
  /\ NeedTelemetry => t.tel = Sinks
  /\ checks

VerificationStarted(r) ==
  /\ pc[r] = "recVerStart" /\ Awake(r)
  /\ \E acks \in SUBSET Sinks : Record(acks)
  /\ IF Live
     THEN /\ task' = [task EXCEPT ![r] = row']
          /\ Goto(r, "verify")
          /\ UNCHANGED <<lock, ctx>>
     ELSE Leave(r, "idle")
  /\ UNCHANGED <<receipts, outcomes, toolRan, budget>>

Verify(r) ==
  /\ pc[r] = "verify" /\ Awake(r)
  /\ \E checks \in BOOLEAN :
       LET passed == GatePasses(task[r], checks)
       IN  /\ task' = [task EXCEPT ![r].verdict = [gen |-> task[r].gen, passed |-> passed]]
           /\ ctx' = [ctx EXCEPT ![r].passed = passed]
  /\ Put(task'[r])
  /\ Goto(r, "recVerResult")
  /\ UNCHANGED <<lock, receipts, outcomes, acked, toolRan, budget>>

VerdictRecorded(r) ==
  /\ pc[r] = "recVerResult" /\ Awake(r)
  /\ \E acks \in SUBSET Sinks : Record(acks)
  /\ Goto(r, "judged")
  /\ UNCHANGED <<lock, task, ctx, receipts, outcomes, toolRan, budget>>

(* Mutant of Complete: the model's final answer is believed.               *)
CompleteUnproven(r) ==
  /\ pc[r] = "judged" /\ Awake(r)
  /\ IF Live
     THEN /\ Put([row EXCEPT !.status = "completed"])
          /\ Goto(r, "completedSaved")
          /\ UNCHANGED <<lock, task, ctx>>
     ELSE Raise(r)
  /\ UNCHANGED <<receipts, outcomes, acked, toolRan, budget>>

Complete(r) ==
  /\ pc[r] = "judged" /\ Awake(r) /\ ctx[r].passed
  /\ IF Live
     THEN /\ Put([row EXCEPT !.status = "completed"])
          /\ Goto(r, "completedSaved")
          /\ UNCHANGED <<lock, task, ctx>>
     ELSE Raise(r)
  /\ UNCHANGED <<receipts, outcomes, acked, toolRan, budget>>

LogCompletion(r) ==
  /\ pc[r] = "completedSaved" /\ Awake(r)
  /\ LogOutcome(r, TRUE)
  /\ Goto(r, "recCompleted")
  /\ UNCHANGED <<row, lock, task, ctx, receipts, acked, toolRan, budget>>

Reject(r) ==
  /\ pc[r] = "judged" /\ Awake(r) /\ ~ctx[r].passed
  /\ LogOutcome(r, FALSE)
  /\ Goto(r, "afterFailure")
  /\ UNCHANGED <<row, lock, task, ctx, receipts, acked, toolRan, budget>>

(* The last _record of a run, then its return.                             *)
Return(r) ==
  /\ pc[r] \in {"recCatFail", "recExhausted", "recWindow", "recCompleted"} /\ Awake(r)
  /\ \E acks \in SUBSET Sinks : Record(acks)
  /\ Leave(r, "idle")
  /\ UNCHANGED <<receipts, outcomes, toolRan, budget>>

FailureReported(r) ==
  /\ pc[r] = "recFailure" /\ Awake(r)
  /\ \E acks \in SUBSET Sinks : Record(acks)
  /\ Goto(r, "idle")
  /\ UNCHANGED <<lock, task, ctx, receipts, outcomes, toolRan, budget>>

-----------------------------------------------------------------------------
(* The journal refuses a commit of _record ("database is locked", a full   *)
(* disk) and accepts the next one.                                         *)
RecordFaults(r) ==
  /\ pc[r] \in RunRecords /\ Awake(r)
  /\ budget.faults > 0 /\ budget' = [budget EXCEPT !.faults = @ - 1]
  /\ Raise(r)
  /\ UNCHANGED <<receipts, outcomes, acked, toolRan>>

(* The process dies, or the server shuts down and cancels its tasks.       *)
Crash ==
  /\ budget.crashes > 0 /\ budget' = [budget EXCEPT !.crashes = @ - 1]
  /\ lock' = Free
  /\ pc' = [r \in Runs |-> "idle"]
  /\ task' = [r \in Runs |-> EmptyRow("none")]
  /\ ctx' = [r \in Runs |-> NoCtx]
  /\ UNCHANGED <<row, receipts, outcomes, acked, toolRan>>

Expire ==
  /\ \A r \in Runs : pc[r] \notin Midway
  /\ budget.expiries > 0 /\ budget' = [budget EXCEPT !.expiries = @ - 1]
  /\ Live
  /\ row' = [row EXCEPT !.store = "expired"]
  /\ UNCHANGED <<lock, pc, task, ctx, receipts, outcomes, acked, toolRan>>

Less(n) == IF n > 0 THEN n - 1 ELSE 0

Tick ==
  /\ \A r \in Runs : pc[r] \notin Midway
  /\ row.wait > 0 \/ \E r \in Runs : ctx[r].wake > 0
  /\ row' = [row EXCEPT !.wait = Less(@)]
  /\ ctx' = [r \in Runs |-> [ctx[r] EXCEPT !.wake = Less(@)]]
  /\ UNCHANGED <<lock, pc, task, receipts, outcomes, acked, toolRan, budget>>

Request(r) == Submit(r) \/ Answer(r) \/ PostRun(r)

(* What a coroutine does once it is under way, apart from taking the lock. *)
Step(r) ==
  \/ RequestDone(r)
  \/ LoopTop(r) \/ WindowExhausted(r)
  \/ CatalogRefreshed(r) \/ CatalogFailed(r) \/ CatalogRecorded(r)
  \/ Exhausted(r) \/ BeginAttempt(r) \/ ReceiveAttempt(r) \/ AttemptStarted(r)
  \/ ChatRecorded(r) \/ ToolCall(r) \/ ToolRecorded(r) \/ ChatFailed(r) \/ ChatDone(r)
  \/ FailureRecorded(r) \/ Park(r) \/ RetryLater(r) \/ SleptOut(r)
  \/ VerificationStarted(r) \/ Verify(r) \/ VerdictRecorded(r)
  \/ Complete(r) \/ LogCompletion(r) \/ Reject(r)
  \/ Return(r) \/ FailureReported(r)

Next ==
  \/ \E r \in Runs : Request(r) \/ Acquire(r) \/ Step(r) \/ RecordFaults(r)
  \/ Poll \/ Crash \/ Expire \/ Tick

Spec == Init /\ [][Next]_vars

(* The event loop serves its ready coroutines, and asyncio.Lock its        *)
(* waiters, first come first served, so a coroutine that can go on again   *)
(* and again (it waits whenever another is in the middle of a stretch)     *)
(* does; network calls and threads have timeouts and time passes.  Nobody  *)
(* has to send a request.                                                  *)
FairSpec ==
  /\ Spec
  /\ SF_vars(Tick)
  /\ \A r \in Runs : SF_vars(Acquire(r) \/ Step(r))

-----------------------------------------------------------------------------
TypeOK ==
  /\ row \in Rows
  /\ lock \in Runs \cup {Free}
  /\ pc \in [Runs -> Pcs]
  /\ task \in [Runs -> Rows]
  /\ ctx \in [Runs -> Ctxs]
  /\ receipts \in Seq(Nat)
  /\ outcomes \in Seq([gen : Nat, ok : BOOLEAN])
  /\ acked \subseteq Sinks
  /\ toolRan \in BOOLEAN
  /\ budget \in [crashes : Nat, expiries : Nat, faults : Nat]

(* README step 3: a task whose scope is ambiguous waits for the human, and *)
(* no execution of it exists, queued or under way, whatever requests race. *)
HumanGate ==
  row.ambiguous \/ row.status = "waiting_for_human" =>
    /\ row.status = "waiting_for_human"
    /\ \A r \in Runs : pc[r] \notin LockPcs \cup {"queued"}

(* README step 7: "completed" is backed by a passing verdict on that very  *)
(* generation, by the attempt's receipt, by a tool that really succeeded   *)
(* and by events every required sink really accepted.                      *)
HasReceipt(gen) == \E i \in DOMAIN receipts : receipts[i] = gen

VerifiedCompletion ==
  row.status = "completed" =>
    /\ row.verdict = [gen |-> row.gen, passed |-> TRUE]
    /\ HasReceipt(row.gen)
    /\ Executable => toolRan
    /\ NeedTelemetry => acked = Sinks

(* README: "every retry or model switch is a distinct V5 attempt with a    *)
(* distinct receipt": no two receipts share a generation, across runs,     *)
(* crashes and stale writes, and no model is called without one.           *)
DistinctAttempts ==
  /\ \A i, j \in DOMAIN receipts : receipts[i] = receipts[j] => i = j
  /\ \A r \in Runs : pc[r] \in {"chat", "recTool"} => HasReceipt(task[r].gen)

(* Unless the process died, a task that says it is executing is executed   *)
(* by someone: no error path leaves it running or verifying for ever.      *)
NoOrphanedExecution ==
  /\ Live /\ row.status \in {"running", "verifying"}
  /\ budget.crashes = MaxCrashes
  => lock # Free

(* With no death, expiry or journal error, every attempt that has a        *)
(* receipt has exactly one row of an outcome once nobody executes the      *)
(* task, and no row of an outcome is without its attempt.                  *)
HasOneOutcome(gen) ==
  \E k \in DOMAIN outcomes :
    /\ outcomes[k].gen = gen
    /\ \A j \in DOMAIN outcomes : outcomes[j].gen = gen => j = k

AttemptsAccounted ==
  lock = Free /\ budget = [crashes |-> MaxCrashes, expiries |-> MaxExpiries, faults |-> MaxFaults]
  => /\ \A i \in DOMAIN receipts : HasOneOutcome(receipts[i])
     /\ \A k \in DOMAIN outcomes : HasReceipt(outcomes[k].gen)

(* The whole-row writes of stale dictionaries never undo progress: the     *)
(* generation does not go back and a successful tool call is not forgotten.*)
KeepsProgress ==
  [][Live /\ row'.store = "live" =>
       row'.gen >= row.gen /\ (row.used => row'.used)]_vars

(* README: exhausted candidates leave the task waiting "instead of         *)
(* creating a tight loop": no request, queued run or restart starts the    *)
(* task before its persisted next_eligible_at.                             *)
BackoffRespected ==
  [][row.status = "waiting_for_model" /\ row'.status = "running" => row.wait = 0]_vars

(* tests/test_journal.py, test_updates_do_not_renew_original_expiry: once  *)
(* its TTL has passed, no update brings a task's row back.                 *)
UpdatesDoNotRenewExpiry ==
  [][row.store \in {"expired", "deleted"} => row'.store # "live"]_vars

(* A scheduled execution ends: the lock is released on every path, so one  *)
(* queued behind it gets its turn.                                         *)
RunsReturn == \A r \in Runs : pc[r] = "queued" ~> pc[r] = "idle"

-----------------------------------------------------------------------------
(* The abstract lifecycle, read off the persisted row and the lock.        *)
Phase ==
  IF row.store = "none" THEN "absent"
  ELSE CASE row.status = "waiting_for_human" -> "asking"
         [] row.status = "completed" -> "done"
         [] OTHER -> IF lock = Free THEN "open" ELSE "executing"

Lifecycle == INSTANCE TaskLifecycle WITH
  phase <- Phase, attempts <- row.gen,
  proven <- row.verdict = [gen |-> row.gen, passed |-> TRUE]

(* README steps 3 to 7 and its closing line, "a model saying `done' is not *)
(* a gate": with no TTL expiry and no journal error, whatever is           *)
(* interleaved or cut off, every step of the runtime is a step the         *)
(* lifecycle allows a task, or invisible.                                  *)
ImplementsLifecycle == Lifecycle!Spec

-----------------------------------------------------------------------------
(* The inductive strengthening of HumanGate: an ambiguous row is gated, a  *)
(* gated row has no execution, nothing runs before the row exists, and no  *)
(* execution holds a stale copy that a write would turn into a gated row.  *)
Committed == LockPcs \cup {"queued"}

GateInv ==
  /\ row.ambiguous => row.status = "waiting_for_human"
  /\ \A r \in Runs : pc[r] \in Committed => row.status # "waiting_for_human"
  /\ row.store = "none" => \A r \in Runs : pc[r] = "idle"
  /\ \A r \in Runs : pc[r] \in LockPcs =>
       ~task[r].ambiguous /\ task[r].status # "waiting_for_human"
=============================================================================
