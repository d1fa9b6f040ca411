# TLA+ models of Cortex V5

Cortex V5 is a local task runtime: it accepts a task over HTTP, asks the human when the scope is
ambiguous, lets a model work on it through a tool loop, and accepts the result only when a
mechanical verification gate passes. This directory models that control flow in TLA+, checks it
with TLC on small instances, and proves the central facts with TLAPS for every instance.

## The system

| Component | State it keeps | Operations | Hard part | What makes it correct |
|---|---|---|---|---|
| Task runtime (`runtime.py`) | one row per task, a lock per task, locals of each execution | submit, answer, run | whole-row writes of dictionaries read before an await; crash, TTL expiry, journal error at every await | human gate, completion backed by evidence, distinct attempts, no lost progress, lifecycle |
| HTTP API (`api.py`) | set of background tasks | four endpoints, scheduling, shutdown | requests race with runs that are queued or under way | nothing runs without the human's answer; a failure becomes visible |
| Tool loop (`runtime.py`, `_tool_loop`) | conversation, count of successful calls | rounds of completion and tool calls | an attempt cut off between two persisted results | well-formed conversation, count matches it |
| Seating (`seating.py`) | global per-model counters | rank, choose, record, save | concurrent runs with private copies; thresholds at their boundaries | no lost outcome, bounded probing, backoff kept |
| Journal (`journal.py`) | three tables with a TTL in SQLite | put, get, update, append, read, model state, purge | the clock is read before the lock; rows dead but not deleted; a restart between two operations | an entry's end is fixed when it is added |
| Work orders (`workorders.py`, workflows) | files handed between runners | fan out, attempt, checkpoint, recover, fan in | lost, late, duplicate and stale receipts; runners that are not as dead as believed | closeout backed by the current generation; no stage run twice |
| SSE transport (`litellm.py`) | partial event, call fragments | parse, request | truncated streams | no partial answer taken as complete |
| Verification gate (`verification.py`) | none | verify | files and commands looked at one by one while others write the workspace | passes exactly what is acceptable, on the human's own checker |
| Acceptance client (`acceptance.py`) | last triggered wait state | submit, poll, trigger | answers that are old when judged; runs of its own still queued | one run per wait, none missing; its report stands |
| Arbitration (`arbitration.py`), `bcb_harness.py` | one workspace per candidate | run candidates, choose, resume | one candidate's failure among several | winner passed the checker |
| Observability (`observability.py`) | none | record: event, two sinks, receipt | a sink or one of the two local appends fails | a receipt vouches only for an event that can be read |
| Tools (`tools.py`), sandbox (`sandbox_runner.py`) | the workspace | read, write, edit, list; run a checker | several tasks in one workspace | protected files stay as the human left them |
| Methodology, settings, CLI | none | pure functions and I/O | | |

The API calls the runtime; the runtime calls seating, the transport, the tools and the gate, and
writes to the journal. All coroutines share one event loop; the gate, the tools and the event
recorder run in threads that the loop awaits. Runs of one task are serialised by its
`asyncio.Lock`; runs of different tasks share only the journal's global seating state. Work orders
are a separate control plane and share nothing with the runtime.

## The modules

| Module | Models | Composed with |
|---|---|---|
| `TaskRuntime` | one task: its row, lock, executions, requests, receipts and outcomes | instantiates `TaskLifecycle` |
| `TaskLifecycle` | what the runtime promises of a task, abstractly | |
| `TaskRuntimeProofs` | theorems about `TaskRuntime` (types and the human gate; completion, attempts, progress, refinement) and about its client | extends `AcceptancePoll`, and so `TaskRuntime` |
| `ToolLoop` | the conversation of one task across attempts | |
| `SharedSeating` | seating state, several runs | |
| `WorkOrders` | one work order on disposable runners | |
| `Arbitration` | candidates of several models, their workspaces and the choice of a winner | |
| `SseStream` | the parser of a streamed completion against provider and connection | |
| `Journal` | the three tables, threads that use them, the event recorder, restarts | instantiates `ExpiringStore` |
| `ExpiringStore` | what the journal promises its callers | |
| `AcceptancePoll` | the acceptance client | extends `TaskRuntime`, whose steps are its server's |
| `VerificationGate` | gates, tools and checkers of several tasks in one workspace | |
| `ToolLoopProofs`, `SharedSeatingProofs`, `WorkOrdersProofs`, `ArbitrationProofs`, `JournalProofs`, `VerificationGateProofs`, `SseStreamProofs` | theorems about the module of that name | extend it |
| `MC*` | TLC instances of the modules | extend them |

### TaskRuntime

A member of `Runs` is a coroutine: an HTTP request first and, when that request schedules one, the
background execution it leads to. `pc` names the await the coroutine is in. The pcs in `Midway` are
no awaits: they cut one uninterrupted stretch of code between two journal commits, so that the
process may die there, while `Awake` keeps other coroutines and time from stepping in.

| In the model | In the code |
|---|---|
| `row` | the row of `Journal.tasks`; `store` says whether it was never inserted, is live, is past its TTL but not yet deleted, or is deleted |
| `task[r]` | the dictionary `task` of `run()`, written back whole by `put` |
| `gen` | `generation` and `attempt_count`, always incremented together (runtime.py:371-372) |
| `used`, `tel`, `verdict`, `wait` | `successful_tool_calls > 0`, the three telemetry flags, `verification_result`, time left until `next_eligible_at` |
| `ctx[r]` | `invocation_start_attempts`, tool calls so far, `result.passed`, time left to sleep |
| `receipts`, `outcomes` | the rows of `Journal.receipts` that are attempts, and those of `Journal.outcomes`: a sequence, because each `append_outcome` is a row of its own, equal to an earlier one or not |
| `acked`, `toolRan` | history: which sinks really accepted an event, whether a tool really succeeded |
| `Raise` | an exception out of `run()`, caught in `schedule`, with `record_unexpected_failure` up to its await |
| `Record` | the end of `_record`: flags OR-ed into the row as it is after the thread |

Each other action is the code from one await to the next, or to the next commit. Simplifications:
requests that are refused, and reads of a live row, change nothing and are not there; the choice of the model
and the seat transition are free (module `SharedSeating`); messages are in `ToolLoop`; a journal
error is modelled only inside the `_record` calls whose failure escapes `run()`, not in a direct
`put`; a tool round has one call.

### TaskLifecycle

`Phase` maps the row and the lock to `absent`, `asking`, `open`, `executing`, `done`; `attempts` is
the generation; `proven` is "the verdict on this very generation passed". `ImplementsLifecycle`
says every step of the runtime is a lifecycle step or invisible; that a completed task stays
completed is part of it. It is checked without TTL expiry and journal errors, which the runtime does not hide (see Findings).

### ToolLoop

The attempt works on a copy of the conversation and writes it back after each tool result. A turn
with n calls needs n results, in order. `ToolRaised` stands for an exception of `tools.execute`
that is not one of the four it catches (`tools.py:226`), or of the `_record` after it.

### SharedSeating

`seats[r]` is the copy a run makes at its start, `stored` the row in the journal. Clocks are
modelled by what is left (`cool`) or has passed up to the inactivity window (`idle`); "never used"
and "longer than the window" behave the same in the code. Counters stop at the largest threshold
they are compared with. The score is a fixed preference: the order of equal candidates never
decides a property here.

The row in the journal has a fixed time to live that writes do not prolong (`journal.py:185-219`,
`test_expired_global_model_state_can_begin_a_fresh_ttl_window`). `live` says whether there is such
a row; `Expire` ends it, at any time, because any time to live begun at any time is allowed; the next
`Finish` begins a new one. A run that loaded before goes on with its copy and writes what it knows
into the new row, so expiry forgets only when no run has a copy, or when the last run that had one
ends without writing it (`Forgotten`). What the properties count (`recorded`, `burst`) is counted
from there: `Remembered` resets it.

### WorkOrders

Every command of `workorders.py` is a pure function of the files it is given, so the state is the
set of orders and receipts in existence and what each runner does. Identity and destination of an
attempt are hashes that contain generation and index, and the model uses the pair. `work` is the
list of stages that were really run, by whichever runner, and travels with the checkpoint
artifact. `RunStage` stands for the executor, which the repository has only as a fixture.

### Arbitration

A candidate awaits nothing but completions; tools and checker are called synchronously, so one
step goes from a reply to the next request. `cand[r][c]` is the result in the making of the
candidate of model `c` in run `r`, `permits[r]` the run's semaphore, `taken[c]` the runs whose
`mkdir` of the workspace of `c` succeeded: the name of a workspace depends on the model and its
index only, so two runs over one root (two processes, or a run after one that raised) meet there.
`RunOneRaises` is an exception from the lines before the `try` (`arbitration.py:187-188`): `gather`
raises at once and the other candidates go on until `Close`. The content of a workspace is what
the checker would say of it. The order of the names is independent of the order of the models.

### SseStream

The upper half of the module is the provider and the connection (external); the lower half is
`parse_sse`. A fragment is its number, and arguments decode when all their fragments are there
once and in order: no proper prefix of a JSON object is JSON. `Close` ends the connection between
two lines, in the middle of one, or with an error of httpx. A line cut before its `data:` is
ignored by the parser and so the same as a cut before the line. `disturbed` is history: it says
that something happened that entitles the parser to an error.

### Journal and ExpiringStore

A member of `Recorders` is a worker thread in `EventRecorder.record`; `Loop` is the event loop,
which does everything else. `client[c]` is the operation a thread has entered and the clock it read
on entry; the operation itself is one transaction, taken later and with that old clock. Reading
something that is not there deletes it (`get`, `_records`), and a row that is dead but not deleted
is still met by `put`, which keeps its old end. A failure is a rolled back transaction: `record`
goes on and says so in its receipt, a lost receipt is swallowed. `Restart` is a death at any point
and the purge of the next start.

One task and the one model state stand for all: no operation relates two tasks, except that reading
the records of one task deletes expired ones of all. The model state is the global seating state,
which has no task row, so the cap of `set_model_state` by a task's end does not apply. The clock is
assumed not to run backwards. `update` (which has no caller) is one step, because it holds the lock
around its `get` and `put`.

`Seen` maps the tables to the abstract store: what a caller could still read now. `ExpiringStore`
has no tables, no old clocks and no deletion; an entry is there until its moment.

### AcceptancePoll

`AcceptancePoll` extends `TaskRuntime`: its server is the same process, nobody else sends requests,
and every coroutine is a request of the client or the run it schedules. `RuntimeStep` is any step
of the runtime; `eligibleAt` turns the time left to wait (`row.wait`) into the moment the client
compares with its clock. The client's awaits are its pcs: a GET's answer (`latest`) is a snapshot
and judged later, a POST of a run is answered at once and the run is queued behind whatever is
executing. `waiting_reason` and `model`, also part of `_wait_state`, are fixed by the step that
parked the task and distinguish nothing that generation and moment do not. `Time` stops at the
deadline and does not pass inside an uninterrupted stretch of code. Requests may fail at any time
(`PollRaises`). Crashes end client and server together and are left to `TaskRuntime`.

### VerificationGate

Every task has its own tools, protected paths and gate over one workspace `ws`, in which a file is
absent, as the human put it, or changed by somebody. Files lie below directories (`Above`), and a
protected path may be either; `Guarded` is the test of `_writable` and of the sandbox's `sensitive`:
the path itself or one above it is protected. A model's `Edit` and `Write`, and what a running
checker does, go on between the steps of other tasks' gates: `verify` runs in a thread, and the
event loop serves other tasks. A checker writes files (`CheckerWrites`) and moves directories
(`CheckerMoves`). The sandbox tests the paths that a call names and nothing below them
(`sandbox_runner.py:43-46, 121-125`), so to move a directory replaces every file below it, the
protected ones included, unless the directory is `Guarded` too. The paths of an audit event are
taken to be the ones the call acts on. The files are looked at in order
(`LookAtFile`), then all commands are authorized together, then each is refused or started, which
compiles the checker from the file as it is then (`sandbox_runner.py:27`). A spec is what the human
submitted: executable or not, files, commands, what it requires. Checks whose inputs are texts
(prompt, acceptance, output, real input) are one flag; command evidence other than wiring repeats
what the command's own check already said and is left out, as is `evidence=`, which nobody passes.
What a checker finds is free: a checker is only as good as its text, which is what `GenuineChecker`
is about: it speaks of `Sealed` files, which no task can replace in either way.

## The runs

| Run | Shows | Bounds |
|---|---|---|
| `TaskRuntimeSafety` | type invariant; the human gate; completion backed by verdict, receipt, tool and telemetry; distinct receipts; no orphaned execution; one row of outcome per receipt; stale writes undo nothing; backoff respected | 2 coroutines, 2 generations, 2 sinks, 1 crash, 1 expiry, 1 journal error |
| `TaskRuntimeLifecycle` | refinement of `TaskLifecycle`; every scheduled run returns (under `FairSpec`) | 2 coroutines, 2 generations, 1 sink, 1 crash |
| `TaskRuntimeExpiry` | finding 1 | 1 expiry |
| `SeatingOneRun` | no outcome lost but by expiry, bounded probing, no futile wake-up, backoff respected, an idle model is probed | 1 run at a time, 2 models, 6 results per model, the row expires at any time and any number of times |
| `SeatingLostUpdate` | finding 2 | 2 runs, 2 models |
| `WorkOrdersRecovery` | closeout backed by the order's own runners; every stage once | 3 runners, 2 attempts, 2 stages, 3 generations |
| `ToolLoopFaults` | every result follows its call and is counted once, conversation only grows, calls answered while uncut | 2 rounds, 2 calls per turn, 2 attempts, 1 exception, 1 crash |
| `ArbitrationRuns` | workspaces isolated, permits balanced, the best passing candidate wins and only passed solutions are delivered, every run ends with its candidates (under `FairSpec`) | 2 runs, 3 candidates, 2 permits, 1 tool round of 1 or 2 calls |
| `SseStreamCuts` | accepted means whole, in order and without a broken event; a whole completion is no error | 2 content fragments, 2 calls of 2 fragments, every cut |
| `JournalThreads` | refinement of `ExpiringStore`; a receipt that vouches for its event is read beside it | 1 recorder and the loop, TTL 2, times 0 to 4, a wait of 1 for the lock, 2 records |
| `AcceptancePolling` | no wait without its run, no wait with two; a reported completion stands | 3 requests, 2 generations, 3 ticks to the deadline, delay 1 |
| `GateVerdicts` | the gate passes exactly what is acceptable; a verdict of a checker that all tasks protect, with the directories above it, is of the human's text | 2 tasks, 3 files, 2 directories, 4 commands, 8 specs of a change and 2 of a report |

Why these bounds are enough to see the interesting cases: two coroutines are a run and its rival;
more only queue behind the same lock. Two generations give an attempt a predecessor to be confused
with, and reach the end of the attempt window (`MaxAttempts` = 2). Two sinks let one be missing.
A wait of 2 can be interrupted half-way. The seating thresholds (2 probes, 5 failures, backoff from
3, doubling once before its cap) keep the order the constants of `seating.py` have (3, 20, 5). Six
results per model pass every threshold, and a model's idleness reaches the window, where it stops: what is exactly the
window and what is more are one state, which the inclusive test must call a probe. Three
runners
are enough for an attempt, its successor and the successor's successor, or for two attempts and
one recovery. Three candidates under two permits are two at work and one that waits; the first run
can raise with one straggler at work and one queued while the second run begins. Two calls of two
fragments (and their headers) interleave in every order. Two threads are the one that is in an
operation with an old clock and the one that overtakes it; four ticks with a TTL of 2 let a row
die, be met dead, be inserted again and die again; two records are an event and its receipt. Three
requests to the runtime are the submission and two triggers, so that one run waits, one is queued
and the client judges an old answer; three ticks hold two waits of one tick and a retry. Two tasks
are a gate and a neighbour. The three files are a checker in a directory both protect, a checker
they protect by itself in a directory they do not, and an unprotected file beside it, and the
command lists have none, one, or two commands, a refused one, and one that cannot be split.

Deadlock is checked except where the system may stop: in `TaskRuntime` the row may be deleted with
nothing left to do, or the bounds used up; in `WorkOrders` the runners are; in `ToolLoop` the task is completed or the attempts are used up; in `Arbitration` both runs have
returned; in `SseStream` the parser has; in `AcceptancePoll` the client has ended or its requests
are used up; in `VerificationGate` both tasks may have passed.

Each property has a mutant in `PROJECT.json`: an operator defined next to the one it replaces,
commented "Mutant of", which no module uses and with which TLC finds the property violated.

## Fairness

`FairSpec` gives each coroutine strong fairness for its next step, and the clock for `Tick`. Strong
rather than weak, because a coroutine ready to run or first in line for the lock is disabled each
time another coroutine holds the loop or the lock. The code justifies it: asyncio serves ready
callbacks first in, first out, `asyncio.Lock` wakes its waiters in order, the HTTP client has a
timeout of 120 s, sinks of 5 s, verification commands of their own, and at most
`max_tool_rounds + 1` requests make one attempt. No request is assumed to be sent, no crash
assumed or excluded, and inside an attempt the loop is free to end either way.

Fairness for the steps of a coroutine as a whole does not force one alternative among them: that
`RunsReturn` holds rests on the bounded counters of the code (`MaxToolRounds`, `MaxAttempts`), not
on a forced choice. The one unbounded alternative, `ChatRecorded`, records an event and changes
nothing else, so repeating it is a stutter as soon as all sinks accepted one.

In `Arbitration`, `FairSpec` is weak fairness of the start and of the reply of each candidate and
of each run's own steps: the semaphore is first come first served, a request ends by a reply or by
the timeout of httpx, and `MaxToolRounds` bounds the replies. No interrupt is assumed.

## What is proved

All theorems hold for every value of the constants that satisfies the named assumptions of the
module. These say that bounds are natural numbers (positive where `settings.py` or the code makes
them so), that functions given as constants have their types, and that a marker such as `Free` is
none of the values it marks the absence of. `PowersArePositive` (`2^n > 0` up to the last failure
that counts) is a fact of arithmetic the provers do not know. The atomicity of the event loop is
part of the models, not an assumption of the proofs. TLC checked each inductive invariant on the
bounds of its run before it was proved.

### Task runtime (`TaskRuntimeProofs`)

| Theorem | States |
|---|---|
| `TypeCorrect` | `[]TypeOK`, inductive as it stands |
| `HumanGateHolds` | `[]HumanGate` |
| `CompletionIsVerified` | `[]VerifiedCompletion` |
| `AttemptsAreDistinct` | `[]DistinctAttempts` |
| `ExecutionsAreOwned` | `[]NoOrphanedExecution` |
| `AttemptsAreAccounted` | `[]AttemptsAccounted` |
| `ProgressIsKept` | `KeepsProgress` (action property) |
| `BackoffIsRespected` | `BackoffRespected` (action property) |
| `RuntimeImplementsLifecycle` | the refinement of `TaskLifecycle`, if `MaxExpiries = 0` and `MaxFaults = 0` |

None of these is inductive alone, because an execution holds a private copy of the row and writes
it back whole. `GateInv` adds that no copy in use is ambiguous. The rest share one invariant,
`Backed`, the conjunction of

- `LockInv`: the lock's holder is the one coroutine inside `run()`;
- `CopyInv`: the holder's copy agrees with the row on generation and verdict and forgets no use,
  and neither claims what did not happen (`toolRan`, `acked`);
- `ReceiptInv`: receipts are distinct, never ahead of the generation in row and copy, and an
  attempt under way has its own;
- `CompletionInv`: a completed row, and a verdict that passed, are backed;
- `OrphanInv`: a run about to return has said so in the row;
- `AccountInv`: while nothing disturbed the task, a receipt's attempt is under way without an
  outcome or over with exactly one row of outcome, and no row is without its receipt;
- `BackoffInv`: what an execution still has to sleep is no less than what the row says.

The step lemmas follow the kinds of step rather than the single actions: polling, dying, expiring,
ticking, and what a coroutine does between two awaits (`AnyKind` covers `[Next]_vars`). The two
hypotheses of the refinement are the ones of the run `TaskRuntimeLifecycle`: a TTL that expires
under a run resurrects the row (finding 1), and a journal fault turns completed into failed.
`QuietInv` says what their absence gives. Crashes are not excluded.

### Acceptance client (`TaskRuntimeProofs`, part 4)

`PollImplementsRuntime` (`PollSpec => Spec`): the steps of the client and of its clock are requests
and ticks of the runtime or invisible to it, so every theorem above holds of the two together.
`SkipsAreCovered` (`SkipIsCovered`), `WaitsGetOneRun` (`OneRunPerWait`, an action property) and
`ReportsStand` (`ReportStands`) share `PollInv`, which relates what the client remembers and what it
is about to judge to the row as it has become meanwhile:

- `Moments`: while the task waits, the time left in the row and the moment the client compares with
  its clock are the same;
- `PastRequests`: requests were posted for moments that had come, and once an attempt is under way
  they, and the one the client may be about to post, are about earlier generations: hence a later
  wait is always another wait;
- `Remembered`: a run was asked for the row's wait, or for the one being judged, only if it is the
  one the client remembers;
- `Covered`: the run asked for is still to begin as long as its wait stands;
- `Final`: an answer that ends the polling stays true, which needs from `Backed` that a completed
  row and a waiting human stay as they are.

`QuietClient` says what is special about this client: it never answers a question, and the row is
there once it was submitted.

### Tool loop (`ToolLoopProofs`)

`TypeCorrect`, `ConversationIsKept` (`ConversationGrows`), `CountIsOfMessages`
(`CountMatchesMessages`) and `CallsAreAnswered` (`UncutCallsAnswered`), for any number of rounds,
calls in a turn, attempts, exceptions and crashes. `TurnInv` says where in its turn an attempt at
its tools is and that the results before are there in order; `CopyInv` that the persisted
conversation is a prefix of the copy; `CountInv` that both counts are of their own messages;
`AnswersInv` that, while nothing was cut off, everything before the present turn is answered.

### Seating (`SharedSeatingProofs`)

For any number of overlapping runs: `TypeCorrect`, and `OutcomesAreReal`: the journal never counts
an outcome that no attempt had. Overlapping runs do lose outcomes (finding 2), and the other
properties rest on the counts. They are proved for behaviours in which runs, of however many
tasks, follow one another (`[]Serial`; the run `SeatingOneRun` is such an instance):
`OutcomesAreConserved`, `BurstsAreBounded` (`ProbeBurstBounded`), `BackoffIsShared` and
`InactiveIsProbed`. The row may expire at any time, and the first two hold up to what is then
forgotten. The invariant is `Alone`: the copy of the run that is under way knows the outcomes and the
bursts there were (`Knows`), and is what the journal holds as long as the row lives; between two runs
the journal knows them; an active probe has counted the failures of its burst, and (`Kept`) a journal
without a row holds nothing.
`WakesAreUseful` (`NoFutileWake`) needs a single task (`OneRun`): between two runs of one task,
another task may use up the very model the first waits for. Its invariant `Parking` says that a
parked task waits for a model that is eligible by then.

### Work orders (`WorkOrdersProofs`)

`TypeCorrect`; `StagesOnce` (`EveryStageOnce`), by `Worked`: orders, receipts and jobs all carry
the stages they claim; `CloseoutsOfGeneration`, for any number of recoveries: what a closeout says
of an attempt was found by a runner of its generation. `CloseoutBacked`, which says "of that very
order", is proved (`CloseoutsBacked`) if `MaxRecoveries <= 1`, the bound of the run: with two
recoveries of one generation it is false, because identities do not depend on the recovery block
(see Findings, known). `OneOrder` says that a generation then has one order.

### Arbitration (`ArbitrationProofs`)

`TypeCorrect`; `PermitsHold` (`PermitsBalance`); `WorkspacesStayIsolated` (`WorkspacesIsolated`),
by `Owned`: a workspace has one taker, and who works in it is that one; `WinnerHolds`
(`WinnerIsBest`), by `Decided`, which repeats the choice in terms of what the candidates still are.
That a best candidate exists among any finite set is a lemma of its own (`BestExists`).

### Journal (`JournalProofs`)

`TypeCorrect`; `JournalImplementsStore`: every transaction, failure, purge and restart is a step of
`ExpiringStore` or a stutter under the mapping `Seen`. The step needs `Past`: everything in the
tables, and every clock a thread read before it got the lock, is of the past. `ReceiptsAreBacked`
(`ReceiptBacked`), by `BackedInv`: also the receipts a recorder has not written yet are backed, for
at least as long as they could be read.

### Verification gate (`VerificationGateProofs`)

`TypeCorrect`; `VerdictIsExact` (`VerdictExact`), by `TallyInv`: at each step of `verify` the errors
so far are empty exactly when everything looked at so far was fine; `CheckersAreGenuine`
(`GenuineChecker`), by `KeptInv`: a sealed file (`Sealed`: every task protects it and each directory
above it) is not changed, and no checker compiled from a changed text of it runs; no task can write
the file, nor move a directory above it. Lists of files and commands have any length.

### SSE transport (`SseStreamProofs`)

`StreamTypeCorrect` (`TypeOK`), `AcceptedIsWhole` (`AcceptedWhole`) and `NoFalseAlarms`
(`NoFalseAlarm`), for any number of content fragments, calls and fragments of a call. Between the
provider and what the parser has folded in there is nothing, one event, or `[DONE]`. `Reading` says
so line by line, and says for an event that folding it in (`Brings`) makes the parser's locals the
image of what was sent: `Whole` of the content and of the arguments of each call begun. The rest
is that a terminator was seen when it was announced (`ClosedInTime`, and the last conjuncts of
`Brings`), and that a group that is cut short does not decode (`ConsumedGroup`).

What one event adds to the calls is a flattened sequence of sequences, a recursive function in the
community modules. Induction over it is not needed, because at most one of the parts is not empty:
`OnePart` proves for that case that `FlattenSeq` is the part, from a function that satisfies its
recursion and a least index where the two would differ (`GatherFragments` applies it to
`Gathered`).

### Only model-checked

- Liveness (`RunsReturn`, `RunsEnd`): fairness and ENABLED are outside the prover's reach.
- The properties of the overlapping runs, of a twice recovered generation and of an expiring
  journal beyond what the hypotheses above allow: they are false, and the findings say how.

## Findings

1. A row that expired while a run was waiting is inserted again, with a fresh TTL, by the run's
   next whole-row write (runtime.py:329, 376), although `tests/test_journal.py` states that
   updates do not renew the expiry.
2. Concurrent runs overwrite each other's outcomes in the global seating state (runtime.py:306,
   247).

Known and not a run of its own:

- With a journal error while `task.completed` is recorded, completed becomes failed
  (runtime.py:519, 99). `ImplementsLifecycle` and `ReportStands` are therefore checked without
  journal errors.
- Two checkpoints of one generation lead to different successor orders whose attempts have one
  identity and one patch destination (workorders.py:213-240, 473): `_attempt_id` does not depend on
  the recovery block. Whoever runs the recovery has to choose one.
- An exception the tools do not catch, such as a file that is not UTF-8 (tools.py:226), leaves a
  tool call without its result in every later request of the task. `UncutCallsAnswered` is about
  conversations that nothing cut off.
- A record that finds no live task lives for a whole TTL (journal.py:142), and may be read beside a
  later row of the same task; `ReceiptBacked` excepts receipts of events begun before the row.
- A task the acceptance client reports as failed may still be executed by a run the client queued
  before; `ReportStands` is about completed tasks and those left to a human.
- The sandbox of a checker tests the paths of a call, not what lies below them: a running checker may
  move a directory that is not protected, and with it a protected file (sandbox_runner.py:43-46,
  121-125). `GenuineChecker` is about files that are protected with the directories above them.
- A task that does not protect another's checker may replace it, and a checker may remove a
  required file the gate has already looked at (`GenuineChecker`, `VerdictExact` say what holds).

## Plan

The modules were written and proved in the order of the components' weight: the runtime and its
lifecycle, seating, work orders and the tool loop; arbitration, the transport, the journal, the
acceptance client and the gate. All parts with protocol state are modelled except the benchmark
script, and every invariant and action property of a passing run is proved. What is left:

1. The results file and `--resume` of `bcb_harness.py`, composed with `Arbitration`.
2. A model of how a path is resolved (symbolic links, `..`, containment): `VerificationGate` has
   files and directories by their resolved names only.
3. `CloseoutBacked` for more than one recovery, once `_attempt_id` depends on the recovery block.

## Not modelled

- Methodology, settings and the command line: pure functions of text and of the environment. What
  the methodology decides (ambiguous or not) is a free choice of `TaskRuntime`, the settings are
  constants.
- `bcb_harness.py`: a stand-alone benchmark script. Its candidates follow the protocol of
  `Arbitration`; what is its own is the results file, written whole after each task and read by
  `--resume`, and that an interrupted task meets its own workspaces again (`bcb_harness.py:182`).
- Which operating-system call raises which audit event, the resolution and containment of paths, and
  the credential boundary of `tools.py`: they need a model of the file system. `VerificationGate`
  keeps what they decide for the gate: which file a task may write and which directory it may move.
- Preflight, dataset download and workspace preparation of `acceptance.py` and `arbitration.py`;
  payload construction and sanitizing of `observability.py`; the model catalog and request bodies
  of `litellm.py`: input and output without state between calls.
- Schema validation of a single envelope in `workorders.py`, authentication and request validation
  in `api.py`: a request that is refused changes nothing.
