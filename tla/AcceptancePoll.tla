--------------------------- MODULE AcceptancePoll ---------------------------
(***************************************************************************)
(* The client of cortex_v5/acceptance.py against the runtime: it submits   *)
(* one task with autostart, polls it until a terminal status or its        *)
(* deadline, and posts a run for every wait state it finds eligible, once. *)
(* The runtime is TaskRuntime; its server lives in the client's process,   *)
(* so a death ends both and is left out, and nobody else sends requests.   *)
(*                                                                         *)
(* TaskRuntime keeps times as what is left to wait.  The poller compares   *)
(* moments, so here a clock runs beside it and the moment of the present   *)
(* wait is kept.  waiting_reason and model are functions of the step that  *)
(* parked the task and add nothing to generation and moment.               *)
(***************************************************************************)
EXTENDS TaskRuntime

CONSTANT Timeout   \* timeout_seconds

ASSUME TimeoutAssumption == Timeout \in Nat

VARIABLES
  clock,       \* wall clock and monotonic clock
  eligibleAt,  \* the row's next_eligible_at
  poll,        \* where the poller is suspended
  latest,      \* the last answer it received
  triggered,   \* triggered_wait_state
  posts        \* wait states it posted a run for (history)

pollVars == <<poll, latest, triggered, posts>>
allVars == <<vars, clock, eligibleAt, pollVars>>

-----------------------------------------------------------------------------
NoWait == [gen |-> 0, at |-> -1]   \* None

Terminal == {"completed", "failed", "waiting_for_human"}

Snapshot == [status |-> row.status, gen |-> row.gen, at |-> eligibleAt]

(* Mutant of WaitState: _wait_state without next_eligible_at.              *)
WaitStateByGeneration(answer) == [gen |-> answer.gen, at |-> 0]

WaitState(answer) == [gen |-> answer.gen, at |-> answer.at]

PollInit ==
  /\ Init
  /\ clock = 0 /\ eligibleAt = 0
  /\ poll = "submitting" /\ latest = Snapshot /\ triggered = NoWait /\ posts = {}

-----------------------------------------------------------------------------
(* A step of the runtime; when it parks the task, next_eligible_at is the  *)
(* moment its wait is over.                                                *)
Parks(r) ==
  /\ pc[r] \in {"top", "catalog", "choosing", "afterFailure"}
  /\ row'.status = "waiting_for_model"

(* "autostart": True                                                       *)
Autostarts(r) == pc[r] = "recSubmit" /\ row.status = "ready" => pc'[r] = "queued"

RuntimeStep(r) ==
  /\ Acquire(r) \/ Step(r)
  /\ Autostarts(r)
  /\ eligibleAt' = IF Parks(r) THEN clock + row'.wait ELSE eligibleAt
  /\ UNCHANGED <<clock, pollVars>>

SomeoneWaits == row.wait > 0 \/ \E r \in Runs : ctx[r].wake > 0

Time ==
  /\ clock < Timeout
  /\ \A r \in Runs : pc[r] \notin Midway
  /\ clock' = clock + 1
  /\ Tick \/ (~SomeoneWaits /\ UNCHANGED vars)
  /\ UNCHANGED <<eligibleAt, pollVars>>

-----------------------------------------------------------------------------
(* The endpoint answers when submit() returns; the poller starts then.     *)
PollSubmit(r) ==
  /\ poll = "submitting"
  /\ Submit(r)
  /\ poll' = "submitted"
  /\ UNCHANGED <<clock, eligibleAt, latest, triggered, posts>>

PollSubmitted ==
  /\ poll = "submitted"
  /\ \A r \in Runs : pc[r] # "recSubmit"
  /\ poll' = "head"
  /\ UNCHANGED <<vars, clock, eligibleAt, latest, triggered, posts>>

(* while monotonic() < deadline: await sleeper(poll_interval)              *)
PollSleep ==
  /\ poll = "head"
  /\ poll' = IF clock < Timeout THEN "asleep" ELSE "timedOut"
  /\ UNCHANGED <<vars, clock, eligibleAt, latest, triggered, posts>>

(* GET: the snapshot is taken now and judged when it has arrived.          *)
PollGet ==
  /\ poll = "asleep"
  /\ \A r \in Runs : Awake(r)
  /\ latest' = Snapshot
  /\ poll' = "judging"
  /\ UNCHANGED <<vars, clock, eligibleAt, triggered, posts>>

PollEnds ==
  /\ poll = "judging"
  /\ latest.status \in Terminal
  /\ poll' = "done"
  /\ UNCHANGED <<vars, clock, eligibleAt, latest, triggered, posts>>

PollSeesProgress ==
  /\ poll = "judging"
  /\ latest.status \notin Terminal \cup {"waiting_for_model"}
  /\ triggered' = NoWait
  /\ poll' = "head"
  /\ UNCHANGED <<vars, clock, eligibleAt, latest, posts>>

(* Mutant of MustTrigger: the memory of the last trigger is not consulted. *)
MustTriggerAlways == latest.at <= clock

MustTrigger == latest.at <= clock /\ WaitState(latest) # triggered

PollSeesWait ==
  /\ poll = "judging"
  /\ latest.status = "waiting_for_model"
  /\ poll' = IF MustTrigger THEN "posting" ELSE "head"
  /\ UNCHANGED <<vars, clock, eligibleAt, latest, triggered, posts>>

(* POST .../run: whatever the task has become meanwhile, a run is queued.  *)
PollTrigger(r) ==
  /\ poll = "posting"
  /\ PostRun(r)
  /\ triggered' = WaitState(latest)
  /\ posts' = posts \cup {[gen |-> latest.gen, at |-> latest.at]}
  /\ poll' = "head"
  /\ UNCHANGED <<clock, eligibleAt, latest>>

(* A request times out or is refused: raise_for_status ends the poller.    *)
PollRaises ==
  /\ poll \in {"asleep", "posting"}
  /\ poll' = "raised"
  /\ UNCHANGED <<vars, clock, eligibleAt, latest, triggered, posts>>

PollNext ==
  \/ \E r \in Runs : RuntimeStep(r) \/ PollSubmit(r) \/ PollTrigger(r)
  \/ Time
  \/ PollSubmitted \/ PollSleep \/ PollGet \/ PollEnds \/ PollSeesProgress \/ PollSeesWait
  \/ PollRaises

PollSpec == PollInit /\ [][PollNext]_allVars

-----------------------------------------------------------------------------
(* The poller does not trigger again only while a run of the wait state it *)
(* would skip is still to come: its memory never suppresses the one        *)
(* request without which the parked task would stay where it is.           *)
SkipIsCovered ==
  /\ row.status = "waiting_for_model"
  /\ triggered = WaitState(Snapshot)
  => \E r \in Runs : pc[r] \in Committed

(* However GETs, runs and retries overlap, one wait state gets one run     *)
(* request, also when the poller saw the task at work in between.          *)
OneRunPerWait ==
  [][poll = "posting" /\ poll' = "head"
       => [gen |-> latest.gen, at |-> latest.at] \notin posts]_allVars

(* What the poller reports as completed, or as left to a human, is what    *)
(* the task is from then on, although runs it queued may still come.       *)
ReportStands ==
  poll = "done" /\ latest.status \in {"completed", "waiting_for_human"}
    => row.status = latest.status
=============================================================================
