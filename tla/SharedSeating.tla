--------------------------- MODULE SharedSeating ---------------------------
(***************************************************************************)
(* Model seating: cortex_v5/seating.py and the way runtime.py uses it.     *)
(* Every run() loads the one global seating state of the journal once, at  *)
(* its start, works on that copy, and writes the whole of it back after    *)
(* each attempt.  Runs of different tasks share the state and nothing      *)
(* orders them.                                                            *)
(*                                                                         *)
(* The state is one row of the journal, and the row has a time to live     *)
(* that writes do not prolong: once it is over a reader finds nothing, and *)
(* the next write begins a new row.  A run that loaded before goes on with *)
(* its copy, and writes that into the new row.                             *)
(*                                                                         *)
(* Absolute times are modelled by what is left (cool) or has passed (idle, *)
(* which stops at Inactivity: longer, and "never active", look the same).  *)
(* The row may reach its end at any time: any time to live, begun at any   *)
(* time, is allowed.                                                       *)
(* Failure counters stop at the largest threshold they are compared with.  *)
(* The score is abstracted to a fixed preference among the models of a     *)
(* catalog: tag overlap and tier come before the outcome counts.           *)
(***************************************************************************)
EXTENDS Integers, FiniteSets

CONSTANTS Models, Runs,
          Preference,       \* Models -> Nat, injective; the larger, the better
          MaxAttempts,      \* settings.max_attempts
          Inactivity,       \* INACTIVITY_PROBE_SECONDS
          ProbeLimit,       \* PROBE_FAILURE_LIMIT
          ContinuousLimit,  \* CONTINUOUS_FAILURE_LIMIT
          BackoffFrom,      \* failures after which _backoff delays
          BackoffBase, MaxBackoff,
          ResultBound       \* bound: attempts recorded per model

ASSUME SeatingAssumption ==
  /\ IsFiniteSet(Models)
  /\ Preference \in [Models -> Nat]
  /\ \A m, n \in Models : Preference[m] = Preference[n] => m = n
  /\ {MaxAttempts, Inactivity, ProbeLimit, ContinuousLimit, BackoffFrom,
      BackoffBase, MaxBackoff} \subseteq Nat \ {0}
  /\ ProbeLimit < BackoffFrom /\ BackoffFrom < ContinuousLimit
  /\ BackoffBase <= MaxBackoff /\ MaxBackoff <= Inactivity
  /\ BackoffBase * 2^(ContinuousLimit - BackoffFrom) >= MaxBackoff
  /\ ResultBound \in Nat

(* A fact of arithmetic, for every value of the constants; the provers do  *)
(* not know it.                                                            *)
ASSUME PowersArePositive == \A n \in 0..(ContinuousLimit - BackoffFrom) : 2^n > 0

None == "none"   \* no forced model
ASSUME NoneAssumption == None \notin Models

VARIABLES
  live,      \* the journal has a row of seating state that has not expired
  stored,    \* the seating state a reader of the journal finds
  seats,     \* each run's copy
  pc,        \* idle, looping or attempt
  cur,       \* what a run holds of its present attempt
  recorded,  \* attempts finished per model since all was forgotten (history)
  idleFor,   \* time since a model's last finished attempt (history)
  burst,     \* failed probes since a model's last success or idleness, or
             \* since all was forgotten (history)
  park       \* the wait a run told its task to keep (history)

vars == <<live, stored, seats, pc, cur, recorded, idleFor, burst, park>>

-----------------------------------------------------------------------------
Least(a, b) == IF a < b THEN a ELSE b
Most(a, b) == IF a > b THEN a ELSE b
Less(n) == IF n > 0 THEN n - 1 ELSE 0

ModelStates == [probes : 0..ProbeLimit, fails : 0..ContinuousLimit, active : BOOLEAN,
                idle : 0..Inactivity, cool : 0..MaxBackoff, results : 0..ResultBound]

FreshState == [probes |-> 0, fails |-> 0, active |-> FALSE,
               idle |-> Inactivity, cool |-> 0, results |-> 0]

Fresh == [m \in Models |-> FreshState]

(* Mutant of Backoff: the delay doubles for ever.                          *)
BackoffUncapped(failures) ==
  IF failures < BackoffFrom THEN 0 ELSE BackoffBase * 2^(failures - BackoffFrom)

Backoff(failures) ==
  IF failures < BackoffFrom THEN 0
  ELSE Least(BackoffBase * 2^(failures - BackoffFrom), MaxBackoff)

Eligible(s, m) == s[m].cool = 0

(* Mutant of IsProbe: the window is exceeded, not reached.                 *)
IsProbeLate(s, m) == s[m].active \/ s[m].idle > Inactivity

IsProbe(s, m) == s[m].active \/ s[m].idle >= Inactivity

(* rank: the models available at the time of ranking come first, and       *)
(* within each part the preferred ones.                                    *)
Before(available, m, n) ==
  IF (m \in available) # (n \in available) THEN m \in available
  ELSE Preference[m] > Preference[n]

First(available, S) == CHOOSE m \in S : \A n \in S \ {m} : Before(available, m, n)

(* Mutant of Available: models that back off are ranked with the others.   *)
AvailableAnyway(s, catalog) == catalog

(* _choose_model *)
Available(s, catalog) == {m \in catalog : Eligible(s, m)}

Chosen(s, catalog, forced) ==
  IF forced \in Available(s, catalog) THEN forced
  ELSE First(Available(s, catalog), Available(s, catalog))

(* Mutant of Soonest: with no other model the task may wake at once.       *)
SoonestAtOnce(s, S, default) ==
  IF S = {} THEN 0
  ELSE CHOOSE w \in {s[m].cool : m \in S} : \A m \in S : w <= s[m].cool

(* The earliest time one of a set of models becomes eligible.              *)
Soonest(s, S, default) ==
  IF S = {} THEN default
  ELSE CHOOSE w \in {s[m].cool : m \in S} : \A m \in S : w <= s[m].cool

(* record_result: the model's new state ...                                *)
AfterSuccess(st) ==
  [probes |-> 0, fails |-> 0, active |-> FALSE, idle |-> 0, cool |-> 0,
   results |-> st.results + 1]

(* Mutant of AfterFailure: the probe stays active at the limit.            *)
AfterFailureProbing(st, probe) ==
  LET probes == IF probe THEN Least(st.probes + 1, ProbeLimit) ELSE st.probes
      fails  == Least(st.fails + 1, ContinuousLimit)
  IN  [probes |-> probes, fails |-> fails, idle |-> 0,
       active |-> IF probe THEN probes <= ProbeLimit ELSE st.active,
       cool |-> Backoff(fails), results |-> st.results + 1]

AfterFailure(st, probe) ==
  LET probes == IF probe THEN Least(st.probes + 1, ProbeLimit) ELSE st.probes
      fails  == Least(st.fails + 1, ContinuousLimit)
  IN  [probes |-> probes, fails |-> fails, idle |-> 0,
       active |-> IF probe THEN probes < ProbeLimit ELSE st.active,
       cool |-> Backoff(fails), results |-> st.results + 1]

(* ... and the transition it asks for.                                     *)
MustSwitch(st, probe) ==
  (probe /\ st.probes >= ProbeLimit) \/ st.fails >= ContinuousLimit

-----------------------------------------------------------------------------
(* What run() holds of an attempt in its locals, and a task left waiting.  *)
Attempts == [model : Models \cup {None}, probe : BOOLEAN,
             catalog : SUBSET Models, available : SUBSET Models,
             forced : Models \cup {None}, left : 0..MaxAttempts,
             wake : 0..Most(1, MaxBackoff)]

Waits == [on : BOOLEAN, wait : 0..Inactivity, catalog : SUBSET Models]

(* Between two attempts: the attempts left, the model a switch or a retry  *)
(* forces, and the time to sleep before.                                   *)
Between(left, forced, wake) ==
  [model |-> None, probe |-> FALSE, catalog |-> {}, available |-> {},
   forced |-> forced, left |-> left, wake |-> wake]

NoAttempt == Between(0, None, 0)

NoPark == [on |-> FALSE, wait |-> 0, catalog |-> {}]

Init ==
  /\ live = FALSE
  /\ stored = Fresh
  /\ seats = [r \in Runs |-> Fresh]
  /\ pc = [r \in Runs |-> "idle"]
  /\ cur = [r \in Runs |-> NoAttempt]
  /\ recorded = [m \in Models |-> 0]
  /\ idleFor = [m \in Models |-> Inactivity]
  /\ burst = [m \in Models |-> 0]
  /\ park = [r \in Runs |-> NoPark]

(* Nobody knows any more of what happened: the row has expired, and no run *)
(* is left with a copy.                                                    *)
Forgotten == ~live /\ \A r \in Runs : pc[r] = "idle"

(* The histories of what there is to know begin anew when all is           *)
(* forgotten.                                                              *)
Remembered ==
  /\ recorded' = IF Forgotten' THEN [m \in Models |-> 0] ELSE recorded
  /\ burst' = IF Forgotten' THEN [m \in Models |-> 0] ELSE burst

(* run() starts: the global state is read, once; no state is the default.  *)
Load(r) ==
  /\ pc[r] = "idle"
  /\ pc' = [pc EXCEPT ![r] = "looping"]
  /\ seats' = [seats EXCEPT ![r] = stored]
  /\ cur' = [cur EXCEPT ![r] = Between(MaxAttempts, None, 0)]
  /\ park' = [park EXCEPT ![r] = NoPark]
  /\ UNCHANGED <<live, stored, recorded, idleFor, burst>>

(* run() returns or is cut off; the task waits `wait` if it was parked.    *)
End(r) ==
  /\ pc' = [pc EXCEPT ![r] = "idle"]
  /\ seats' = [seats EXCEPT ![r] = Fresh]
  /\ cur' = [cur EXCEPT ![r] = NoAttempt]

Parked(r, wait, catalog) ==
  park' = [park EXCEPT ![r] = [on |-> TRUE, wait |-> wait, catalog |-> catalog]]

Ready(r) == pc[r] = "looping" /\ cur[r].wake = 0 /\ cur[r].left > 0

Choose(r, catalog) ==
  /\ Ready(r)
  /\ Available(seats[r], catalog) # {}
  /\ LET m == Chosen(seats[r], catalog, cur[r].forced)
     IN  /\ recorded[m] < ResultBound
         /\ cur' = [cur EXCEPT ![r] =
              [model |-> m, probe |-> IsProbe(seats[r], m), catalog |-> catalog,
               available |-> Available(seats[r], catalog), forced |-> None,
               left |-> cur[r].left - 1, wake |-> 0]]
         /\ burst' = [burst EXCEPT ![m] = IF idleFor[m] >= Inactivity THEN 0 ELSE @]
  /\ pc' = [pc EXCEPT ![r] = "attempt"]
  /\ UNCHANGED <<live, stored, seats, recorded, idleFor, park>>

NoneEligible(r, catalog) ==
  /\ Ready(r)
  /\ Available(seats[r], catalog) = {}
  /\ Parked(r, Soonest(seats[r], catalog, Inactivity), catalog)
  /\ End(r)
  /\ UNCHANGED <<live, stored, idleFor>>
  /\ Remembered

(* Mutant of Copy: only the model of the attempt is written back.          *)
CopyAlone(r, st) == [Fresh EXCEPT ![cur[r].model] = st]

(* The attempt is over: record_result, then _save_seating writes the       *)
(* run's whole copy: into the row there is, or into a new one.             *)
Copy(r, st) == [seats[r] EXCEPT ![cur[r].model] = st]

Finish(r, st) ==
  /\ live' = TRUE
  /\ stored' = Copy(r, st)
  /\ recorded' = [recorded EXCEPT ![cur[r].model] = @ + 1]
  /\ idleFor' = [idleFor EXCEPT ![cur[r].model] = 0]

FailedState(r) == AfterFailure(seats[r][cur[r].model], cur[r].probe)

Succeed(r) ==
  /\ pc[r] = "attempt"
  /\ Finish(r, AfterSuccess(seats[r][cur[r].model]))
  /\ burst' = [burst EXCEPT ![cur[r].model] = 0]
  /\ End(r)
  /\ UNCHANGED park

Fail(r) ==
  /\ pc[r] = "attempt"
  /\ Finish(r, FailedState(r))
  /\ burst' = [burst EXCEPT ![cur[r].model] = @ + IF cur[r].probe THEN 1 ELSE 0]

Others(r) == {m \in cur[r].catalog \ {cur[r].model} : Eligible(seats[r], m)}

(* The run goes on with `next` after at least one time unit.               *)
GoOn(r, next, delay) ==
  /\ seats' = [seats EXCEPT ![r] = Copy(r, FailedState(r))]
  /\ cur' = [cur EXCEPT ![r] = Between(cur[r].left, next, Most(1, delay))]
  /\ pc' = [pc EXCEPT ![r] = "looping"]
  /\ UNCHANGED park

Retry(r) ==
  /\ Fail(r)
  /\ ~MustSwitch(FailedState(r), cur[r].probe)
  /\ GoOn(r, cur[r].model, FailedState(r).cool)

Switch(r) ==
  /\ Fail(r)
  /\ MustSwitch(FailedState(r), cur[r].probe)
  /\ Others(r) # {}
  /\ GoOn(r, First(cur[r].available, Others(r)), 0)

Wait(r) ==
  /\ Fail(r)
  /\ MustSwitch(FailedState(r), cur[r].probe)
  /\ Others(r) = {}
  /\ Parked(r, Soonest(seats[r], cur[r].catalog \ {cur[r].model},
                       Most(FailedState(r).cool, Inactivity)), cur[r].catalog)
  /\ End(r)

(* The attempt window is over, the catalog is unavailable, the run raises, *)
(* or the process dies: nothing more is recorded.                          *)
Stop(r) ==
  /\ pc[r] # "idle"
  /\ End(r)
  /\ UNCHANGED <<live, stored, idleFor, park>>
  /\ Remembered

(* The row's time is over: readers find no state, runs keep their copies.  *)
Expire ==
  /\ live
  /\ live' = FALSE
  /\ stored' = Fresh
  /\ UNCHANGED <<seats, pc, cur, idleFor, park>>
  /\ Remembered

AgedState(st) == [st EXCEPT !.idle = Least(@ + 1, Inactivity), !.cool = Less(@)]
Aged(s) == [m \in Models |-> AgedState(s[m])]

Tick ==
  /\ stored' = Aged(stored)
  /\ seats' = [r \in Runs |-> IF pc[r] = "idle" THEN Fresh ELSE Aged(seats[r])]
  /\ cur' = [r \in Runs |-> [cur[r] EXCEPT !.wake = Less(@)]]
  /\ idleFor' = [m \in Models |-> Least(idleFor[m] + 1, Inactivity)]
  /\ park' = [r \in Runs |-> [park[r] EXCEPT !.wait = Less(@)]]
  /\ UNCHANGED <<live, pc, recorded, burst>>

Next ==
  \/ \E r \in Runs :
       \/ Load(r) \/ Succeed(r) \/ Retry(r) \/ Switch(r) \/ Wait(r) \/ Stop(r)
       \/ \E catalog \in SUBSET Models : Choose(r, catalog) \/ NoneEligible(r, catalog)
  \/ Tick \/ Expire

Spec == Init /\ [][Next]_vars

-----------------------------------------------------------------------------
TypeOK ==
  /\ live \in BOOLEAN
  /\ stored \in [Models -> ModelStates]
  /\ seats \in [Runs -> [Models -> ModelStates]]
  /\ pc \in [Runs -> {"idle", "looping", "attempt"}]
  /\ cur \in [Runs -> Attempts]
  /\ recorded \in [Models -> Nat]
  /\ idleFor \in [Models -> 0..Inactivity]
  /\ burst \in [Models -> Nat]
  /\ park \in [Runs -> Waits]

(* The persisted outcomes count every finished attempt, as                 *)
(* tests/test_runtime.py expects of the global seating state: no write of  *)
(* a run's copy forgets what another run recorded.  They count from when   *)
(* all was last forgotten: a row that expires while a run has a copy is    *)
(* written anew with the old counts, one that expires while none has is    *)
(* lost (test_expired_global_model_state_can_begin_a_fresh_ttl_window), as *)
(* it is when the only run that had a copy ends without writing it.        *)
OutcomesConserved ==
  (\A r \in Runs : pc[r] = "idle") => \A m \in Models : stored[m].results = recorded[m]

(* README: the first real task after five minutes of inactivity is the     *)
(* model's probe: an attempt that is no probe is for a model that really   *)
(* was used within the inactivity window, by whichever run.                *)
InactiveMeansProbe ==
  [][\A r \in Runs :
       pc[r] = "looping" /\ pc'[r] = "attempt" /\ ~cur'[r].probe
       => idleFor[cur'[r].model] < Inactivity]_vars

(* seating.py: the thresholds "override a persistently failing model":     *)
(* whatever tasks and catalogs come in between, a model is probed at most  *)
(* ProbeLimit times before it succeeds, rests for the whole inactivity     *)
(* window, or all is forgotten.  The row's expiry alone is not enough: a   *)
(* run that remembers carries the burst over into the next row.            *)
ProbeBurstBounded ==
  \A r \in Runs : pc[r] = "attempt" /\ cur[r].probe => burst[cur[r].model] < ProbeLimit

(* README: exhausted candidates leave the task waiting: for just so long   *)
(* that, when the wait is over, some candidate can be called.              *)
NoFutileWake ==
  \A r \in Runs : park[r].on /\ park[r].wait = 0 /\ park[r].catalog # {}
    => \E m \in park[r].catalog : Eligible(stored, m)

(* A model is called only when the backoff every earlier failure earned it *)
(* is over, according to what the journal holds: a row that has expired    *)
(* holds no backoff.                                                       *)
BackoffShared ==
  [][\A r \in Runs : pc[r] = "looping" /\ pc'[r] = "attempt"
       => Eligible(stored, cur'[r].model)]_vars
=============================================================================
