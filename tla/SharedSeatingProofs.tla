------------------------ MODULE SharedSeatingProofs ------------------------
(* What TLAPS proves about SharedSeating: for any models, any number of    *)
(* runs, and any thresholds and delays in the order the code has them.     *)
(* What only holds when no two runs overlap says so.                       *)
EXTENDS SharedSeating, FiniteSetTheorems, WellFoundedInduction, TLAPS

-----------------------------------------------------------------------------
(* Constants, delays and the state of one model                            *)

LEMMA ConstantTypes ==
  /\ MaxAttempts \in Nat /\ MaxAttempts > 0
  /\ Inactivity \in Nat /\ Inactivity > 0
  /\ ProbeLimit \in Nat /\ ProbeLimit > 0
  /\ ContinuousLimit \in Nat /\ ContinuousLimit > 0
  /\ BackoffFrom \in Nat /\ BackoffBase \in Nat /\ BackoffBase > 0
  /\ MaxBackoff \in Nat /\ MaxBackoff > 0 /\ MaxBackoff <= Inactivity
  /\ ResultBound \in Nat
  /\ None \notin Models
BY SeatingAssumption, NoneAssumption

LEMMA BackoffType ==
  ASSUME NEW f \in 0..ContinuousLimit
  PROVE  Backoff(f) \in 0..MaxBackoff
<1>1. CASE f < BackoffFrom
  BY <1>1, ConstantTypes DEF Backoff
<1>2. CASE f >= BackoffFrom
  <2>1. f - BackoffFrom \in 0..(ContinuousLimit - BackoffFrom) /\ f - BackoffFrom \in Nat
    BY <1>2, ConstantTypes
  <2>2. PICK p : p = 2^(f - BackoffFrom)
    OBVIOUS
  <2>3. p > 0
    BY <2>1, <2>2, PowersArePositive
  <2>4. p \in Int
    <3>1. \A n \in Nat : 2^n \in Int
      BY SMT
    <3> QED
      BY <2>1, <2>2, <3>1
  <2>5. BackoffBase * p \in Nat
    BY <2>3, <2>4, ConstantTypes
  <2>6. Backoff(f) = Least(BackoffBase * p, MaxBackoff)
    <3>1. ~ (f < BackoffFrom)
      BY <1>2, ConstantTypes
    <3> QED
      BY <2>2, <3>1 DEF Backoff
  <2> QED
    BY <2>5, <2>6, ConstantTypes DEF Least
<1> QED
  BY <1>1, <1>2, ConstantTypes

LEMMA FreshType ==
  /\ FreshState \in ModelStates
  /\ Fresh \in [Models -> ModelStates]
  /\ \A m \in Models : Fresh[m] = FreshState
<1>1. FreshState \in ModelStates
  BY ConstantTypes DEF FreshState, ModelStates
<1> QED
  BY <1>1 DEF Fresh

LEMMA StateFields ==
  ASSUME NEW st \in ModelStates
  PROVE  /\ st = [probes |-> st.probes, fails |-> st.fails, active |-> st.active,
                  idle |-> st.idle, cool |-> st.cool, results |-> st.results]
         /\ st.probes \in 0..ProbeLimit /\ st.fails \in 0..ContinuousLimit
         /\ st.active \in BOOLEAN /\ st.idle \in 0..Inactivity
         /\ st.cool \in 0..MaxBackoff /\ st.results \in 0..ResultBound
BY DEF ModelStates

LEMMA SuccessFields ==
  ASSUME NEW st \in ModelStates, st.results < ResultBound
  PROVE  /\ AfterSuccess(st) \in ModelStates
         /\ AfterSuccess(st).results = st.results + 1
         /\ AfterSuccess(st).idle = 0
         /\ AfterSuccess(st).active = FALSE
<1> DEFINE after == AfterSuccess(st)
<1>1. after = [probes |-> 0, fails |-> 0, active |-> FALSE, idle |-> 0, cool |-> 0,
               results |-> st.results + 1]
  BY StateFields DEF AfterSuccess
<1>2. st.results + 1 \in 0..ResultBound
  BY StateFields, ConstantTypes
<1>3. after \in ModelStates
  BY <1>1, <1>2, ConstantTypes DEF ModelStates
<1> QED
  BY <1>1, <1>3

LEMMA FailureFields ==
  ASSUME NEW st \in ModelStates, NEW probe \in BOOLEAN, st.results < ResultBound
  PROVE  /\ AfterFailure(st, probe) \in ModelStates
         /\ AfterFailure(st, probe).results = st.results + 1
         /\ AfterFailure(st, probe).idle = 0
         /\ probe => /\ AfterFailure(st, probe).probes = Least(st.probes + 1, ProbeLimit)
                     /\ AfterFailure(st, probe).active <=>
                          AfterFailure(st, probe).probes < ProbeLimit
         /\ ~probe => /\ AfterFailure(st, probe).probes = st.probes
                      /\ AfterFailure(st, probe).active = st.active
<1> DEFINE probes == IF probe THEN Least(st.probes + 1, ProbeLimit) ELSE st.probes
           fails  == Least(st.fails + 1, ContinuousLimit)
           active == IF probe THEN probes < ProbeLimit ELSE st.active
           cool   == Backoff(fails)
<1>2. probes \in 0..ProbeLimit
  BY StateFields, ConstantTypes DEF Least
<1>3. fails \in 0..ContinuousLimit
  BY StateFields, ConstantTypes DEF Least
<1>4. active \in BOOLEAN
  <2>1. st.active \in BOOLEAN
    BY StateFields
  <2>2. (probes < ProbeLimit) \in BOOLEAN
    BY <1>2, ConstantTypes
  <2> HIDE DEF probes
  <2> QED
    BY <2>1, <2>2, Zenon
<1>5. cool \in 0..MaxBackoff
  <2> HIDE DEF fails
  <2> QED
    BY <1>3, BackoffType
<1>6. AfterFailure(st, probe) = [probes |-> probes, fails |-> fails, idle |-> 0,
         active |-> active, cool |-> cool, results |-> st.results + 1]
  BY DEF AfterFailure
<1>7. /\ probe => probes = Least(st.probes + 1, ProbeLimit)
      /\ ~probe => probes = st.probes
  OBVIOUS
<1>8. /\ probe => (active <=> probes < ProbeLimit)
      /\ ~probe => active = st.active
  OBVIOUS
<1> HIDE DEF probes, fails, active, cool
<1> DEFINE after == AfterFailure(st, probe)
<1>9. after = [probes |-> probes, fails |-> fails, active |-> active, idle |-> 0,
               cool |-> cool, results |-> st.results + 1]
  BY <1>6, StateFields
<1>10. st.results + 1 \in 0..ResultBound /\ 0 \in 0..Inactivity
  BY StateFields, ConstantTypes
<1>11. after \in ModelStates
  BY <1>2, <1>3, <1>4, <1>5, <1>9, <1>10 DEF ModelStates
<1>12. after.probes = probes /\ after.active = active /\ after.idle = 0
       /\ after.results = st.results + 1
  BY <1>9
<1> HIDE DEF after
<1>13. /\ probe => after.probes = Least(st.probes + 1, ProbeLimit)
       /\ probe => (after.active <=> after.probes < ProbeLimit)
       /\ ~probe => after.probes = st.probes
       /\ ~probe => after.active = st.active
  BY <1>7, <1>8, <1>12
<1> QED
  BY <1>11, <1>12, <1>13 DEF after

LEMMA AgedType ==
  ASSUME NEW st \in ModelStates
  PROVE  /\ AgedState(st) \in ModelStates
         /\ AgedState(st).results = st.results
         /\ AgedState(st).active = st.active
         /\ AgedState(st).probes = st.probes
         /\ AgedState(st).idle = Least(st.idle + 1, Inactivity)
         /\ AgedState(st).cool = Less(st.cool)
<1> DEFINE after == AgedState(st)
           idle == Least(st.idle + 1, Inactivity)
           cool == Less(st.cool)
<1>1. idle \in 0..Inactivity
  BY StateFields, ConstantTypes DEF Least
<1>2. cool \in 0..MaxBackoff
  BY StateFields, ConstantTypes DEF Less
<1>3. after = [st EXCEPT !.idle = idle, !.cool = cool]
  BY DEF AgedState
<1> HIDE DEF idle, cool
<1>4. after = [probes |-> st.probes, fails |-> st.fails, active |-> st.active,
               idle |-> idle, cool |-> cool, results |-> st.results]
  BY <1>3, StateFields
<1>5. after \in ModelStates
  BY <1>1, <1>2, <1>4, StateFields DEF ModelStates
<1> QED
  BY <1>4, <1>5 DEF idle, cool

LEMMA AgedAll ==
  ASSUME NEW s \in [Models -> ModelStates]
  PROVE  /\ Aged(s) \in [Models -> ModelStates]
         /\ \A m \in Models : Aged(s)[m] = AgedState(s[m])
BY AgedType DEF Aged

(* A model nothing is known of stays so.                                   *)
LEMMA FreshAged == Aged(Fresh) = Fresh
<1>1. AgedState(FreshState) = FreshState
  <2>1. Least(Inactivity + 1, Inactivity) = Inactivity /\ Less(0) = 0
    BY ConstantTypes DEF Least, Less
  <2>2. /\ FreshState.probes = 0 /\ FreshState.fails = 0 /\ FreshState.active = FALSE
        /\ FreshState.idle = Inactivity /\ FreshState.cool = 0 /\ FreshState.results = 0
    BY DEF FreshState
  <2>3. AgedState(FreshState) = [FreshState EXCEPT !.idle = Inactivity, !.cool = 0]
    BY <2>1, <2>2 DEF AgedState
  <2>4. FreshState \in ModelStates
    BY FreshType
  <2>5. [FreshState EXCEPT !.idle = Inactivity, !.cool = 0] = FreshState
    BY <2>2, <2>4 DEF ModelStates
  <2> QED
    BY <2>3, <2>5
<1> QED
  BY <1>1, FreshType DEF Aged, Fresh

-----------------------------------------------------------------------------
(* The choices                                                             *)

(* A finite set that a relation orders strictly and totally has a first    *)
(* element: the one with the smallest set of predecessors.                 *)
LEMMA LeadExists ==
  ASSUME NEW T, IsFiniteSet(T), T # {}, NEW R,
         \A x \in T : <<x, x>> \notin R,
         \A x, y, z \in T : <<x, y>> \in R /\ <<y, z>> \in R => <<x, z>> \in R,
         \A x, y \in T : x # y => <<x, y>> \in R \/ <<y, x>> \in R
  PROVE  \E x \in T : \A y \in T \ {x} : <<x, y>> \in R
<1> DEFINE Below(x) == {y \in T : <<y, x>> \in R}
           Belows == {Below(x) : x \in T}
<1>0. \A x \in T : Below(x) \in SUBSET T /\ Below(x) \in Belows
  OBVIOUS
<1>1. Belows \subseteq FiniteSubsetsOf(T) /\ Belows # {}
  <2>1. \A x \in T : IsFiniteSet(Below(x))
    <3> HIDE DEF Below, Belows
    <3> QED
      BY <1>0, FS_Subset
  <2>2. \A B \in Belows : \E x \in T : B = Below(x)
    OBVIOUS
  <2> HIDE DEF Below, Belows
  <2>3. \A B \in Belows : B \in SUBSET T /\ IsFiniteSet(B)
    BY <1>0, <2>1, <2>2
  <2> QED
    BY <1>0, <2>3 DEF FiniteSubsetsOf
<1>2. IsWellFoundedOn(StrictSubsetOrdering(T), FiniteSubsetsOf(T))
  BY FS_StrictSubsetOrderingWellFounded
<1>3. PICK B \in Belows : \A C \in Belows : <<C, B>> \notin StrictSubsetOrdering(T)
  <2> HIDE DEF Belows
  <2> QED
    BY <1>1, <1>2, WFMin
<1>4. PICK x \in T : B = Below(x)
  BY <1>3
<1>5. \A y \in T : <<y, x>> \notin R
  <2> SUFFICES ASSUME NEW y \in T, <<y, x>> \in R PROVE FALSE
    OBVIOUS
  <2>1. Below(y) \subseteq Below(x) /\ y \in Below(x) /\ y \notin Below(y)
    OBVIOUS
  <2>2. Below(y) \in Belows /\ Below(y) \in SUBSET T /\ Below(x) \in SUBSET T
    BY <1>0
  <2>3. <<Below(y), Below(x)>> \in StrictSubsetOrdering(T)
    <3> HIDE DEF Below
    <3> QED
      BY <2>1, <2>2 DEF StrictSubsetOrdering
  <2> QED
    BY <1>3, <1>4, <2>2, <2>3
<1> QED
  BY <1>5

(* The preferred one of a set of models, the available ones first.         *)
LEMMA FirstIsMember ==
  ASSUME NEW available, NEW S \in SUBSET Models, S # {}
  PROVE  First(available, S) \in S
<1> DEFINE R == {p \in S \X S : Before(available, p[1], p[2])}
<1>1. IsFiniteSet(S)
  BY SeatingAssumption, FS_Subset
<1>2. \A m \in S : Preference[m] \in Nat
  BY SeatingAssumption
<1>3. \A m, n \in S : Preference[m] = Preference[n] => m = n
  BY SeatingAssumption
<1>4. \A m, n \in S : <<m, n>> \in R <=> Before(available, m, n)
  OBVIOUS
<1>5. /\ \A x \in S : ~Before(available, x, x)
      /\ \A x, y, z \in S :
           Before(available, x, y) /\ Before(available, y, z) => Before(available, x, z)
      /\ \A x, y \in S : x # y => Before(available, x, y) \/ Before(available, y, x)
  BY <1>2, <1>3 DEF Before
<1>6. \E m \in S : \A n \in S \ {m} : Before(available, m, n)
  <2> HIDE DEF R
  <2>1. /\ \A x \in S : <<x, x>> \notin R
        /\ \A x, y, z \in S : <<x, y>> \in R /\ <<y, z>> \in R => <<x, z>> \in R
        /\ \A x, y \in S : x # y => <<x, y>> \in R \/ <<y, x>> \in R
    BY <1>4, <1>5
  <2>2. \E x \in S : \A y \in S \ {x} : <<x, y>> \in R
    BY <1>1, <2>1, LeadExists
  <2> QED
    BY <1>4, <2>2
<1> QED
  BY <1>6 DEF First

(* The model of the next attempt may be called.                            *)
LEMMA ChosenIsAvailable ==
  ASSUME NEW s, NEW catalog \in SUBSET Models, NEW forced,
         Available(s, catalog) # {}
  PROVE  /\ Chosen(s, catalog, forced) \in Available(s, catalog)
         /\ Chosen(s, catalog, forced) \in catalog
<1>1. Available(s, catalog) \subseteq catalog
  BY DEF Available
<1>2. First(Available(s, catalog), Available(s, catalog)) \in Available(s, catalog)
  BY <1>1, FirstIsMember
<1> QED
  BY <1>1, <1>2 DEF Chosen

(* The time until the first model of a set may be called is the time of    *)
(* one of them.                                                            *)
LEMMA SoonestIsOne ==
  ASSUME NEW s \in [Models -> ModelStates], NEW S \in SUBSET Models,
         NEW default \in Nat
  PROVE  /\ S = {} => Soonest(s, S, default) = default
         /\ S # {} => \E m \in S : Soonest(s, S, default) = s[m].cool
<1>1. CASE S = {}
  BY <1>1 DEF Soonest
<1>2. CASE S # {}
  <2> DEFINE T == {s[m].cool : m \in S}
  <2>1. \A m \in S : s[m].cool \in Nat
    BY StateFields, ConstantTypes
  <2>2. T \subseteq Nat /\ T # {}
    BY <1>2, <2>1
  <2>3. IsWellFoundedOn({p \in Nat \X Nat : p[1] < p[2]}, Nat)
    BY NatLessThanWellFounded, Zenon DEF OpToRel
  <2>4. PICK w \in T : \A v \in T : <<v, w>> \notin {p \in Nat \X Nat : p[1] < p[2]}
    <3> HIDE DEF T
    <3> QED
      BY <2>2, <2>3, WFMin
  <2>5. \A m \in S : w <= s[m].cool
    <3> SUFFICES ASSUME NEW m \in S PROVE w <= s[m].cool
      OBVIOUS
    <3>1. s[m].cool \in T /\ s[m].cool \in Nat /\ w \in Nat
      BY <2>1, <2>2
    <3>2. ~ (s[m].cool < w)
      BY <2>4, <3>1
    <3> QED
      BY <3>1, <3>2
  <2>6. \E v \in T : \A m \in S : v <= s[m].cool
    BY <2>5
  <2>7. Soonest(s, S, default) \in T
    BY <1>2, <2>6 DEF Soonest
  <2> QED
    BY <1>2, <2>7
<1> QED
  BY <1>1, <1>2

-----------------------------------------------------------------------------
(* Types, and outcomes that are never invented                             *)

(* No copy counts more outcomes of a model than were recorded; an attempt  *)
(* that is under way has a model and is within the bound.                  *)
Counted ==
  /\ \A m \in Models : stored[m].results <= recorded[m]
  /\ \A r \in Runs : \A m \in Models : seats[r][m].results <= recorded[m]
  /\ \A r \in Runs : pc[r] = "attempt" =>
       /\ cur[r].model \in Models
       /\ seats[r][cur[r].model].results < ResultBound

(* An expired row holds nothing, and a run that has ended remembers        *)
(* nothing.                                                                *)
Kept ==
  /\ ~live => stored = Fresh
  /\ \A r \in Runs : pc[r] = "idle" => seats[r] = Fresh

TypeInv == TypeOK /\ Counted /\ Kept

LEMMA AttemptFields ==
  ASSUME NEW a \in Attempts
  PROVE  /\ a.model \in Models \cup {None} /\ a.probe \in BOOLEAN
         /\ a.catalog \in SUBSET Models /\ a.available \in SUBSET Models
         /\ a.forced \in Models \cup {None} /\ a.left \in 0..MaxAttempts
         /\ a.wake \in 0..Most(1, MaxBackoff)
BY DEF Attempts

LEMMA BetweenType ==
  ASSUME NEW left \in 0..MaxAttempts, NEW forced \in Models \cup {None},
         NEW wake \in 0..Most(1, MaxBackoff)
  PROVE  Between(left, forced, wake) \in Attempts
BY DEF Between, Attempts

LEMMA NoAttemptType == NoAttempt \in Attempts /\ NoPark \in Waits
<1>1. 0 \in 0..Most(1, MaxBackoff)
  BY ConstantTypes DEF Most
<1>2. NoAttempt \in Attempts
  BY <1>1, BetweenType, ConstantTypes DEF NoAttempt
<1>3. NoPark \in Waits
  BY ConstantTypes DEF NoPark, Waits
<1> QED
  BY <1>2, <1>3

(* What End does.                                                          *)
LEMMA EndFacts ==
  ASSUME TypeOK, NEW r \in Runs, End(r)
  PROVE  /\ pc' \in [Runs -> {"idle", "looping", "attempt"}]
         /\ seats' \in [Runs -> [Models -> ModelStates]]
         /\ cur' \in [Runs -> Attempts]
         /\ pc'[r] = "idle" /\ seats'[r] = Fresh
         /\ \A q \in Runs \ {r} : pc'[q] = pc[q] /\ seats'[q] = seats[q] /\ cur'[q] = cur[q]
BY FreshType, NoAttemptType DEF TypeOK, End

(* What a step that may forget does to the histories.                      *)
LEMMA RememberedFacts ==
  ASSUME TypeOK, Remembered
  PROVE  /\ recorded' \in [Models -> Nat] /\ burst' \in [Models -> Nat]
         /\ ~Forgotten' => recorded' = recorded /\ burst' = burst
         /\ Forgotten' => \A m \in Models : recorded'[m] = 0 /\ burst'[m] = 0
BY DEF TypeOK, Remembered

(* What an attempt that is over writes, and what it counts.                *)
LEMMA FinishFacts ==
  ASSUME TypeInv, NEW r \in Runs, pc[r] = "attempt", NEW st \in ModelStates,
         st.results = seats[r][cur[r].model].results + 1, Finish(r, st)
  PROVE  /\ Copy(r, st) \in [Models -> ModelStates]
         /\ Copy(r, st)[cur[r].model] = st
         /\ \A m \in Models \ {cur[r].model} : Copy(r, st)[m] = seats[r][m]
         /\ stored' = Copy(r, st)
         /\ recorded' \in [Models -> Nat]
         /\ recorded'[cur[r].model] = recorded[cur[r].model] + 1
         /\ \A m \in Models \ {cur[r].model} : recorded'[m] = recorded[m]
         /\ \A m \in Models : recorded[m] <= recorded'[m] /\ stored'[m].results <= recorded'[m]
         /\ idleFor' \in [Models -> 0..Inactivity]
         /\ idleFor'[cur[r].model] = 0
         /\ \A m \in Models \ {cur[r].model} : idleFor'[m] = idleFor[m]
<1>1. cur[r].model \in Models
  BY DEF TypeInv, Counted
<1>2. seats[r] \in [Models -> ModelStates] /\ recorded \in [Models -> Nat]
      /\ idleFor \in [Models -> 0..Inactivity]
  BY DEF TypeInv, TypeOK
<1>3. /\ Copy(r, st) \in [Models -> ModelStates]
      /\ Copy(r, st)[cur[r].model] = st
      /\ \A m \in Models \ {cur[r].model} : Copy(r, st)[m] = seats[r][m]
  BY <1>1, <1>2 DEF Copy
<1>4. /\ recorded' \in [Models -> Nat]
      /\ recorded'[cur[r].model] = recorded[cur[r].model] + 1
      /\ \A m \in Models \ {cur[r].model} : recorded'[m] = recorded[m]
  BY <1>1, <1>2 DEF Finish
<1>5. /\ idleFor' \in [Models -> 0..Inactivity]
      /\ idleFor'[cur[r].model] = 0
      /\ \A m \in Models \ {cur[r].model} : idleFor'[m] = idleFor[m]
  BY <1>1, <1>2, ConstantTypes DEF Finish
<1>6. \A m \in Models : recorded[m] <= recorded'[m]
  BY <1>2, <1>4
<1>7. \A m \in Models : Copy(r, st)[m].results <= recorded'[m]
  <2> SUFFICES ASSUME NEW m \in Models PROVE Copy(r, st)[m].results <= recorded'[m]
    OBVIOUS
  <2>1. seats[r][m].results <= recorded[m] /\ seats[r][m].results \in Nat
    <3>1. seats[r][m] \in ModelStates
      BY <1>2
    <3> QED
      BY <3>1, StateFields, ConstantTypes DEF TypeInv, Counted
  <2>2. CASE m = cur[r].model
    BY <1>2, <1>3, <1>4, <2>1, <2>2
  <2>3. CASE m # cur[r].model
    BY <1>2, <1>3, <1>4, <2>1, <2>3
  <2> QED
    BY <2>2, <2>3
<1>8. stored' = Copy(r, st)
  BY DEF Finish
<1> QED
  BY <1>3, <1>4, <1>5, <1>6, <1>7, <1>8

LEMMA FailedFacts ==
  ASSUME TypeInv, NEW r \in Runs, pc[r] = "attempt"
  PROVE  /\ cur[r].model \in Models /\ cur[r].probe \in BOOLEAN
         /\ seats[r][cur[r].model] \in ModelStates
         /\ seats[r][cur[r].model].results < ResultBound
         /\ FailedState(r) \in ModelStates
         /\ FailedState(r).results = seats[r][cur[r].model].results + 1
         /\ FailedState(r).cool \in 0..MaxBackoff
<1>1. cur[r].model \in Models /\ seats[r][cur[r].model].results < ResultBound
  BY DEF TypeInv, Counted
<1>2. cur[r] \in Attempts /\ seats[r] \in [Models -> ModelStates]
  BY DEF TypeInv, TypeOK
<1>3. cur[r].probe \in BOOLEAN
  BY <1>2, AttemptFields
<1>4. seats[r][cur[r].model] \in ModelStates
  BY <1>1, <1>2
<1>5. FailedState(r) \in ModelStates
      /\ FailedState(r).results = seats[r][cur[r].model].results + 1
  BY <1>1, <1>3, <1>4, FailureFields DEF FailedState
<1> QED
  BY <1>1, <1>3, <1>4, <1>5, StateFields

LEMMA BurstFacts ==
  ASSUME TypeInv, NEW r \in Runs, Fail(r)
  PROVE  /\ burst' \in [Models -> Nat]
         /\ burst'[cur[r].model] = burst[cur[r].model] + IF cur[r].probe THEN 1 ELSE 0
         /\ \A m \in Models \ {cur[r].model} : burst'[m] = burst[m]
<1>1. PICK more \in {0, 1} : more = IF cur[r].probe THEN 1 ELSE 0
  OBVIOUS
<1>2. burst' = [burst EXCEPT ![cur[r].model] = @ + more]
  BY <1>1 DEF Fail
<1>3. burst \in [Models -> Nat] /\ cur[r].model \in Models
  BY DEF TypeInv, TypeOK, Counted, Fail
<1> QED
  BY <1>1, <1>2, <1>3

(* What GoOn does: the run loops on with its copy and a forced model.      *)
LEMMA GoOnFacts ==
  ASSUME TypeInv, NEW r \in Runs, pc[r] = "attempt",
         NEW next \in Models, NEW delay \in 0..MaxBackoff, GoOn(r, next, delay)
  PROVE  /\ pc' \in [Runs -> {"idle", "looping", "attempt"}]
         /\ Copy(r, FailedState(r)) \in [Models -> ModelStates]
            => seats' \in [Runs -> [Models -> ModelStates]]
         /\ cur' \in [Runs -> Attempts] /\ park' = park
         /\ pc'[r] = "looping" /\ seats'[r] = Copy(r, FailedState(r))
         /\ \A q \in Runs \ {r} : pc'[q] = pc[q] /\ seats'[q] = seats[q] /\ cur'[q] = cur[q]
<1>1. pc \in [Runs -> {"idle", "looping", "attempt"}] /\ cur \in [Runs -> Attempts]
      /\ seats \in [Runs -> [Models -> ModelStates]]
  BY DEF TypeInv, TypeOK
<1>2. cur[r].left \in 0..MaxAttempts
  BY <1>1, AttemptFields
<1>3. Most(1, delay) \in 0..Most(1, MaxBackoff)
  BY ConstantTypes DEF Most
<1> DEFINE again == Between(cur[r].left, next, Most(1, delay))
<1>5. again \in Attempts
  BY <1>2, <1>3, BetweenType
<1>6. cur' = [cur EXCEPT ![r] = again]
  BY DEF GoOn
<1> HIDE DEF again
<1> QED
  BY <1>1, <1>5, <1>6 DEF GoOn

LEMMA TypeInit == Init => TypeInv
<1> SUFFICES ASSUME Init PROVE TypeInv
  OBVIOUS
<1>1. TypeOK
  <2>1. /\ recorded \in [Models -> Nat] /\ burst \in [Models -> Nat]
        /\ idleFor \in [Models -> 0..Inactivity]
    BY ConstantTypes DEF Init
  <2>2. /\ stored \in [Models -> ModelStates] /\ seats \in [Runs -> [Models -> ModelStates]]
        /\ pc \in [Runs -> {"idle", "looping", "attempt"}]
        /\ cur \in [Runs -> Attempts] /\ park \in [Runs -> Waits]
    BY FreshType, NoAttemptType DEF Init
  <2>3. live \in BOOLEAN
    BY Zenon DEF Init
  <2> QED
    BY <2>1, <2>2, <2>3 DEF TypeOK
<1>2. \A m \in Models : Fresh[m].results = 0
  BY FreshType DEF FreshState
<1>3. Counted
  BY <1>2, ConstantTypes DEF Init, Counted
<1>4. Kept
  BY DEF Init, Kept
<1> QED
  BY <1>1, <1>3, <1>4 DEF TypeInv

LEMMA TypeLoad ==
  ASSUME TypeInv, NEW r \in Runs, Load(r)
  PROVE  TypeOK' /\ Counted'
<1> DEFINE begun == Between(MaxAttempts, None, 0)
<1>1. begun \in Attempts
  <2>1. MaxAttempts \in 0..MaxAttempts /\ 0 \in 0..Most(1, MaxBackoff)
    BY ConstantTypes DEF Most
  <2> QED
    BY <2>1, BetweenType
<1>2. cur' = [cur EXCEPT ![r] = begun]
  BY DEF Load
<1> HIDE DEF begun
<1>3. TypeOK'
  BY <1>1, <1>2, NoAttemptType DEF TypeInv, TypeOK, Load
<1>4. Counted'
  BY <1>2 DEF TypeInv, TypeOK, Counted, Load
<1> QED
  BY <1>3, <1>4 DEF TypeInv

LEMMA TypeEnd ==
  ASSUME TypeInv, NEW r \in Runs, End(r), UNCHANGED <<live, stored, idleFor>>,
         Remembered, park' \in [Runs -> Waits]
  PROVE  TypeOK' /\ Counted'
<1>1. \A m \in Models : Fresh[m].results = 0
  BY FreshType DEF FreshState
<1>2. TypeOK'
  BY EndFacts, RememberedFacts DEF TypeInv, TypeOK
<1>3. \A q \in Runs : pc'[q] = "idle" => seats'[q] = Fresh
  BY EndFacts DEF TypeInv, Kept
<1>4. recorded' \in [Models -> Nat] /\ recorded \in [Models -> Nat]
  BY RememberedFacts DEF TypeInv, TypeOK
<1>5. \A q \in Runs : seats'[q] = seats[q] \/ seats'[q] = Fresh
  BY EndFacts DEF TypeInv
<1>6. /\ \A m \in Models : stored'[m].results <= recorded'[m]
      /\ \A q \in Runs : \A m \in Models : seats'[q][m].results <= recorded'[m]
  <2>1. CASE ~Forgotten'
    <3>1. recorded' = recorded
      BY <2>1, RememberedFacts DEF TypeInv
    <3> QED
      BY <1>1, <1>4, <1>5, <3>1 DEF TypeInv, Counted
  <2>2. CASE Forgotten'
    <3>1. stored' = Fresh /\ \A q \in Runs : seats'[q] = Fresh
      BY <1>3, <2>2 DEF TypeInv, Kept, Forgotten
    <3>2. \A m \in Models : recorded'[m] = 0
      BY <2>2, RememberedFacts DEF TypeInv
    <3> QED
      BY <1>1, <3>1, <3>2
  <2> QED
    BY <2>1, <2>2
<1>7. \A q \in Runs : pc'[q] = "attempt" => q # r
  BY EndFacts DEF TypeInv
<1>8. Counted'
  BY <1>6, <1>7, EndFacts DEF TypeInv, Counted
<1> QED
  BY <1>2, <1>8

LEMMA TypeExpire ==
  ASSUME TypeInv, Expire
  PROVE  TypeOK' /\ Counted'
<1>1. \A m \in Models : Fresh[m].results = 0
  BY FreshType DEF FreshState
<1>2. TypeOK'
  BY FreshType, RememberedFacts DEF Expire, TypeInv, TypeOK
<1>3. recorded' \in [Models -> Nat] /\ stored' = Fresh /\ seats' = seats
      /\ pc' = pc /\ cur' = cur
  BY RememberedFacts DEF Expire, TypeInv
<1>4. \A m \in Models : stored'[m].results <= recorded'[m]
  BY <1>1, <1>3
<1>5. \A q \in Runs : \A m \in Models : seats'[q][m].results <= recorded'[m]
  <2>1. CASE ~Forgotten'
    BY <1>3, <2>1, RememberedFacts DEF Expire, TypeInv, Counted
  <2>2. CASE Forgotten'
    <3>1. \A q \in Runs : seats'[q] = Fresh
      BY <1>3, <2>2 DEF TypeInv, Kept, Forgotten
    <3> QED
      BY <1>1, <1>3, <3>1
  <2> QED
    BY <2>1, <2>2
<1>6. Counted'
  BY <1>3, <1>4, <1>5 DEF TypeInv, Counted
<1> QED
  BY <1>2, <1>6

LEMMA TypeChoose ==
  ASSUME TypeInv, NEW r \in Runs, NEW catalog \in SUBSET Models, Choose(r, catalog)
  PROVE  TypeOK' /\ Counted'
<1> DEFINE m == Chosen(seats[r], catalog, cur[r].forced)
           some == Available(seats[r], catalog)
           probe == IsProbe(seats[r], m)
           taken == [model |-> m, probe |-> probe, catalog |-> catalog,
                     available |-> some, forced |-> None,
                     left |-> cur[r].left - 1, wake |-> 0]
<1>1. m \in Models /\ some \in SUBSET Models
  <2>1. some # {} /\ some \subseteq Models
    BY DEF Choose, Available
  <2> QED
    BY <2>1, ChosenIsAvailable
<1>2. /\ pc \in [Runs -> {"idle", "looping", "attempt"}] /\ cur \in [Runs -> Attempts]
      /\ seats \in [Runs -> [Models -> ModelStates]]
  BY DEF TypeInv, TypeOK
<1>3. probe \in BOOLEAN
  <2>1. seats[r][m].active \in BOOLEAN
    BY <1>1, <1>2, StateFields
  <2> QED
    BY <2>1 DEF IsProbe
<1>5. /\ cur' = [cur EXCEPT ![r] = taken] /\ pc' = [pc EXCEPT ![r] = "attempt"]
      /\ cur[r].left > 0 /\ recorded[m] < ResultBound
      /\ burst' = [burst EXCEPT ![m] = IF idleFor[m] >= Inactivity THEN 0 ELSE @]
      /\ UNCHANGED <<live, stored, seats, recorded, idleFor, park>>
  BY DEF Choose, Ready
<1> HIDE DEF m, some, probe
<1>6. taken.model = m
  OBVIOUS
<1>7. taken \in Attempts
  <2>1. cur[r].left - 1 \in 0..MaxAttempts /\ 0 \in 0..Most(1, MaxBackoff)
    BY <1>2, <1>5, AttemptFields, ConstantTypes DEF Most
  <2> QED
    BY <1>1, <1>3, <2>1 DEF Attempts
<1> HIDE DEF taken
<1>8. TypeOK'
  BY <1>1, <1>5, <1>7, ConstantTypes DEF TypeInv, TypeOK
<1>9. seats[r][m].results < ResultBound
  <2>1. seats[r][m].results <= recorded[m] /\ recorded[m] \in Nat
    BY <1>1 DEF TypeInv, TypeOK, Counted
  <2>2. seats[r][m].results \in Nat
    BY <1>1, <1>2, StateFields, ConstantTypes
  <2> QED
    BY <1>5, <2>1, <2>2, ConstantTypes
<1>10. Counted'
  BY <1>1, <1>2, <1>5, <1>6, <1>9 DEF TypeInv, Counted
<1> QED
  BY <1>8, <1>10 DEF TypeInv

(* An attempt is over and its run returns.                                 *)
LEMMA TypeFinishEnd ==
  ASSUME TypeInv, NEW r \in Runs, pc[r] = "attempt", NEW st \in ModelStates,
         st.results = seats[r][cur[r].model].results + 1, Finish(r, st), End(r),
         burst' \in [Models -> Nat], park' \in [Runs -> Waits]
  PROVE  TypeOK' /\ Counted'
<1>1. TypeOK'
  <2>1. /\ stored' \in [Models -> ModelStates]
        /\ recorded' \in [Models -> Nat] /\ idleFor' \in [Models -> 0..Inactivity]
    BY FinishFacts
  <2>2. /\ pc' \in [Runs -> {"idle", "looping", "attempt"}]
        /\ seats' \in [Runs -> [Models -> ModelStates]] /\ cur' \in [Runs -> Attempts]
    BY EndFacts DEF TypeInv
  <2>3. live' \in BOOLEAN
    BY Zenon DEF Finish
  <2> QED
    BY <2>1, <2>2, <2>3 DEF TypeOK
<1>2. \A m \in Models : Fresh[m].results = 0
  BY FreshType DEF FreshState
<1>3. \A m \in Models : recorded[m] \in Nat /\ recorded'[m] \in Nat
                       /\ recorded[m] <= recorded'[m]
  BY <1>1, FinishFacts DEF TypeInv, TypeOK
<1>4. \A q \in Runs : \A m \in Models : seats'[q][m].results <= recorded'[m]
  <2> SUFFICES ASSUME NEW q \in Runs, NEW m \in Models
               PROVE  seats'[q][m].results <= recorded'[m]
    OBVIOUS
  <2>1. CASE q = r
    <3>1. seats'[q][m].results = 0
      BY <1>2, <2>1, EndFacts DEF TypeInv
    <3> QED
      BY <1>3, <3>1
  <2>2. CASE q # r
    <3>1. seats'[q][m] = seats[q][m] /\ seats[q][m].results <= recorded[m]
      BY <2>2, EndFacts DEF TypeInv, Counted
    <3>2. seats[q][m].results \in Nat
      <4>1. seats[q][m] \in ModelStates
        BY DEF TypeInv, TypeOK
      <4> QED
        BY <4>1, StateFields, ConstantTypes
    <3> QED
      BY <1>3, <3>1, <3>2
  <2> QED
    BY <2>1, <2>2
<1>5. \A q \in Runs : pc'[q] = "attempt" => q # r
  BY EndFacts DEF TypeInv
<1>6. Counted'
  BY <1>4, <1>5, EndFacts, FinishFacts DEF TypeInv, Counted
<1> QED
  BY <1>1, <1>6 DEF TypeInv

(* An attempt has failed and its run goes on.                              *)
LEMMA TypeGoOn ==
  ASSUME TypeInv, NEW r \in Runs, Fail(r),
         NEW next \in Models, NEW delay \in 0..MaxBackoff, GoOn(r, next, delay)
  PROVE  TypeOK' /\ Counted'
<1>0. pc[r] = "attempt" /\ Finish(r, FailedState(r))
  BY DEF Fail
<1> DEFINE st == FailedState(r)
<1>1. st \in ModelStates /\ st.results = seats[r][cur[r].model].results + 1
  BY <1>0, FailedFacts
<1> HIDE DEF st
<1>2. Finish(r, st) /\ Copy(r, st) = Copy(r, FailedState(r))
  BY <1>0 DEF st
<1>3. burst' \in [Models -> Nat]
  BY BurstFacts
<1>4. TypeOK'
  <2>1. /\ Copy(r, FailedState(r)) \in [Models -> ModelStates] /\ stored' = Copy(r, st)
        /\ recorded' \in [Models -> Nat] /\ idleFor' \in [Models -> 0..Inactivity]
    BY <1>0, <1>1, <1>2, FinishFacts
  <2>2. /\ pc' \in [Runs -> {"idle", "looping", "attempt"}]
        /\ seats' \in [Runs -> [Models -> ModelStates]]
        /\ cur' \in [Runs -> Attempts] /\ park' = park
    BY <1>0, <2>1, GoOnFacts
  <2>3. live' \in BOOLEAN
    BY <1>0, Zenon DEF Finish
  <2> QED
    BY <1>2, <1>3, <2>1, <2>2, <2>3 DEF TypeInv, TypeOK
<1>5. \A m \in Models : recorded[m] \in Nat /\ recorded'[m] \in Nat
                       /\ recorded[m] <= recorded'[m] /\ stored'[m].results <= recorded'[m]
  BY <1>0, <1>1, <1>2, <1>4, FinishFacts DEF TypeInv, TypeOK
<1>6. seats'[r] = stored'
  BY <1>0, <1>1, <1>2, FinishFacts, GoOnFacts
<1>7. \A q \in Runs : \A m \in Models : seats'[q][m].results <= recorded'[m]
  <2> SUFFICES ASSUME NEW q \in Runs, NEW m \in Models
               PROVE  seats'[q][m].results <= recorded'[m]
    OBVIOUS
  <2>1. CASE q = r
    BY <1>5, <1>6, <2>1
  <2>2. CASE q # r
    <3>1. seats'[q][m] = seats[q][m] /\ seats[q][m].results <= recorded[m]
      BY <1>0, <2>2, GoOnFacts DEF TypeInv, Counted
    <3>2. seats[q][m].results \in Nat
      <4>1. seats[q][m] \in ModelStates
        BY DEF TypeInv, TypeOK
      <4> QED
        BY <4>1, StateFields, ConstantTypes
    <3> QED
      BY <1>5, <3>1, <3>2
  <2> QED
    BY <2>1, <2>2
<1>8. \A q \in Runs : pc'[q] = "attempt" => q # r
  BY <1>0, GoOnFacts
<1>9. Counted'
  BY <1>0, <1>5, <1>7, <1>8, GoOnFacts DEF TypeInv, Counted
<1> QED
  BY <1>4, <1>9 DEF TypeInv

(* A task that is left waiting.                                            *)
LEMMA ParkedFacts ==
  ASSUME TypeOK, NEW r \in Runs, NEW wait \in 0..Inactivity,
         NEW catalog \in SUBSET Models, Parked(r, wait, catalog)
  PROVE  /\ park' \in [Runs -> Waits]
         /\ park'[r].on /\ park'[r].wait = wait /\ park'[r].catalog = catalog
         /\ \A q \in Runs \ {r} : park'[q] = park[q]
<1> DEFINE waits == [on |-> TRUE, wait |-> wait, catalog |-> catalog]
<1>1. waits \in Waits /\ waits.on /\ waits.wait = wait /\ waits.catalog = catalog
  BY DEF Waits
<1>2. park' = [park EXCEPT ![r] = waits]
  BY DEF Parked
<1> HIDE DEF waits
<1> QED
  BY <1>1, <1>2 DEF TypeOK

LEMMA TypeSucceed ==
  ASSUME TypeInv, NEW r \in Runs, Succeed(r)
  PROVE  TypeOK' /\ Counted'
<1> DEFINE st == AfterSuccess(seats[r][cur[r].model])
<1>1. pc[r] = "attempt" /\ Finish(r, st) /\ End(r) /\ park' = park
      /\ burst' = [burst EXCEPT ![cur[r].model] = 0]
  BY DEF Succeed
<1>2. st \in ModelStates /\ st.results = seats[r][cur[r].model].results + 1
  BY <1>1, FailedFacts, SuccessFields
<1> HIDE DEF st
<1>3. burst' \in [Models -> Nat] /\ park' \in [Runs -> Waits]
  BY <1>1 DEF TypeInv, TypeOK
<1> QED
  BY <1>1, <1>2, <1>3, TypeFinishEnd

LEMMA TypeRetry ==
  ASSUME TypeInv, NEW r \in Runs, Retry(r)
  PROVE  TypeOK' /\ Counted'
<1>1. pc[r] = "attempt" /\ Fail(r) /\ GoOn(r, cur[r].model, FailedState(r).cool)
  BY DEF Retry, Fail
<1> QED
  BY <1>1, FailedFacts, TypeGoOn

(* The model a run switches to.                                            *)
LEMMA NextIsOther ==
  ASSUME TypeInv, NEW r \in Runs, Others(r) # {}
  PROVE  First(cur[r].available, Others(r)) \in Models
<1>1. cur[r].catalog \in SUBSET Models
  <2>1. cur[r] \in Attempts
    BY DEF TypeInv, TypeOK
  <2> QED
    BY <2>1, AttemptFields
<1>2. Others(r) \in SUBSET Models
  BY <1>1 DEF Others
<1> QED
  BY <1>2, FirstIsMember

LEMMA TypeSwitch ==
  ASSUME TypeInv, NEW r \in Runs, Switch(r)
  PROVE  TypeOK' /\ Counted'
<1>1. Fail(r) /\ Others(r) # {} /\ GoOn(r, First(cur[r].available, Others(r)), 0)
  BY DEF Switch
<1>2. 0 \in 0..MaxBackoff
  BY ConstantTypes
<1> QED
  BY <1>1, <1>2, NextIsOther, TypeGoOn

(* How long the task waits when every other model is exhausted.            *)
LEMMA WaitFacts ==
  ASSUME TypeInv, NEW r \in Runs, Wait(r)
  PROVE  LET S == cur[r].catalog \ {cur[r].model}
             default == Most(FailedState(r).cool, Inactivity)
         IN  /\ pc[r] = "attempt" /\ S \in SUBSET Models /\ default = Inactivity
             /\ cur[r].catalog \in SUBSET Models
             /\ Soonest(seats[r], S, default) \in 0..Inactivity
             /\ S # {} => \E m \in S : Soonest(seats[r], S, default) = seats[r][m].cool
             /\ S = {} => Soonest(seats[r], S, default) = Inactivity
<1> DEFINE S == cur[r].catalog \ {cur[r].model}
           default == Most(FailedState(r).cool, Inactivity)
<1>1. pc[r] = "attempt"
  BY DEF Wait, Fail
<1>2. default = Inactivity
  BY <1>1, FailedFacts, ConstantTypes DEF Most
<1>3. cur[r].catalog \in SUBSET Models /\ S \in SUBSET Models
  <2>1. cur[r] \in Attempts
    BY DEF TypeInv, TypeOK
  <2> QED
    BY <2>1, AttemptFields
<1>4. seats[r] \in [Models -> ModelStates]
  BY DEF TypeInv, TypeOK
<1>5. default \in Nat
  BY <1>2, ConstantTypes
<1> HIDE DEF S, default
<1>6. /\ S = {} => Soonest(seats[r], S, default) = default
      /\ S # {} => \E m \in S : Soonest(seats[r], S, default) = seats[r][m].cool
  BY <1>3, <1>4, <1>5, SoonestIsOne
<1>7. \A m \in Models : seats[r][m].cool \in 0..Inactivity
  BY <1>4, StateFields, ConstantTypes
<1>8. Soonest(seats[r], S, default) \in 0..Inactivity
  BY <1>2, <1>3, <1>6, <1>7, ConstantTypes
<1> QED
  BY <1>1, <1>2, <1>3, <1>6, <1>8 DEF S, default

LEMMA TypeWait ==
  ASSUME TypeInv, NEW r \in Runs, Wait(r)
  PROVE  TypeOK' /\ Counted'
<1> DEFINE wait == Soonest(seats[r], cur[r].catalog \ {cur[r].model},
                           Most(FailedState(r).cool, Inactivity))
<1>1. pc[r] = "attempt" /\ Finish(r, FailedState(r)) /\ End(r) /\ Fail(r)
      /\ Parked(r, wait, cur[r].catalog)
  BY DEF Wait, Fail
<1>2. wait \in 0..Inactivity /\ cur[r].catalog \in SUBSET Models
  BY WaitFacts
<1> HIDE DEF wait
<1>3. park' \in [Runs -> Waits]
  BY <1>1, <1>2, ParkedFacts DEF TypeInv
<1>4. burst' \in [Models -> Nat]
  BY <1>1, BurstFacts
<1> QED
  BY <1>1, <1>3, <1>4, FailedFacts, TypeFinishEnd

LEMMA TypeNoneEligible ==
  ASSUME TypeInv, NEW r \in Runs, NEW catalog \in SUBSET Models, NoneEligible(r, catalog)
  PROVE  TypeOK' /\ Counted'
<1> DEFINE wait == Soonest(seats[r], catalog, Inactivity)
<1>1. End(r) /\ Parked(r, wait, catalog) /\ Remembered
      /\ UNCHANGED <<live, stored, idleFor>>
  BY DEF NoneEligible
<1>2. seats[r] \in [Models -> ModelStates]
  BY DEF TypeInv, TypeOK
<1>3. \A m \in Models : seats[r][m].cool \in 0..Inactivity
  BY <1>2, StateFields, ConstantTypes
<1>4. wait \in 0..Inactivity
  BY <1>2, <1>3, SoonestIsOne, ConstantTypes
<1> HIDE DEF wait
<1>5. park' \in [Runs -> Waits]
  BY <1>1, <1>4, ParkedFacts DEF TypeInv
<1> QED
  BY <1>1, <1>5, TypeEnd

LEMMA TypeStop ==
  ASSUME TypeInv, NEW r \in Runs, Stop(r)
  PROVE  TypeOK' /\ Counted'
<1>1. End(r) /\ Remembered /\ UNCHANGED <<live, stored, idleFor, park>>
  BY DEF Stop
<1>2. park' \in [Runs -> Waits]
  BY <1>1 DEF TypeInv, TypeOK
<1> QED
  BY <1>1, <1>2, TypeEnd

LEMMA TypeTick ==
  ASSUME TypeInv, Tick
  PROVE  TypeOK' /\ Counted'
<1>1. /\ pc \in [Runs -> {"idle", "looping", "attempt"}] /\ cur \in [Runs -> Attempts]
      /\ stored \in [Models -> ModelStates] /\ seats \in [Runs -> [Models -> ModelStates]]
      /\ recorded \in [Models -> Nat] /\ idleFor \in [Models -> 0..Inactivity]
      /\ park \in [Runs -> Waits]
  BY DEF TypeInv, TypeOK
<1>2. stored' = Aged(stored) /\ stored' \in [Models -> ModelStates]
  BY <1>1, AgedAll DEF Tick
<1>3. /\ seats' \in [Runs -> [Models -> ModelStates]]
      /\ \A r \in Runs : seats'[r] = IF pc[r] = "idle" THEN Fresh ELSE Aged(seats[r])
  BY <1>1, AgedAll, FreshType DEF Tick
<1>4. /\ cur' \in [Runs -> Attempts]
      /\ \A r \in Runs : cur'[r].model = cur[r].model
  <2>1. \A a \in Attempts : /\ [a EXCEPT !.wake = Less(@)] \in Attempts
                            /\ [a EXCEPT !.wake = Less(@)].model = a.model
    BY ConstantTypes DEF Attempts, Less, Most
  <2> QED
    BY <1>1, <2>1 DEF Tick
<1>5. park' \in [Runs -> Waits]
  <2>1. \A w \in Waits : [w EXCEPT !.wait = Less(@)] \in Waits
    BY ConstantTypes DEF Waits, Less
  <2> QED
    BY <1>1, <2>1 DEF Tick
<1>6. idleFor' \in [Models -> 0..Inactivity]
  BY <1>1, ConstantTypes DEF Tick, Least
<1>7. TypeOK'
  BY <1>1, <1>2, <1>3, <1>4, <1>5, <1>6 DEF TypeInv, TypeOK, Tick
<1>8. \A m \in Models : stored'[m].results = stored[m].results
  BY <1>1, <1>2, AgedAll, AgedType
<1>9. \A r \in Runs : \A m \in Models :
        seats'[r][m].results = IF pc[r] = "idle" THEN 0 ELSE seats[r][m].results
  <2> SUFFICES ASSUME NEW r \in Runs, NEW m \in Models
               PROVE  seats'[r][m].results = IF pc[r] = "idle" THEN 0 ELSE seats[r][m].results
    OBVIOUS
  <2>1. CASE pc[r] = "idle"
    BY <1>3, <2>1, FreshType DEF FreshState
  <2>2. CASE pc[r] # "idle"
    <3>1. seats'[r] = Aged(seats[r]) /\ seats[r] \in [Models -> ModelStates]
      BY <1>1, <1>3, <2>2
    <3>2. seats'[r][m] = AgedState(seats[r][m]) /\ seats[r][m] \in ModelStates
      BY <3>1, AgedAll
    <3> QED
      BY <2>2, <3>2, AgedType
  <2> QED
    BY <2>1, <2>2
<1>10. pc' = pc /\ recorded' = recorded
  BY DEF Tick
<1>11. Counted'
  <2>1. \A m \in Models : stored'[m].results <= recorded'[m]
    BY <1>8, <1>10 DEF TypeInv, Counted
  <2>2. \A r \in Runs : \A m \in Models : seats'[r][m].results <= recorded'[m]
    BY <1>1, <1>9, <1>10 DEF TypeInv, Counted
  <2>3. \A r \in Runs : pc'[r] = "attempt" =>
          cur'[r].model \in Models /\ seats'[r][cur'[r].model].results < ResultBound
    BY <1>4, <1>9, <1>10 DEF TypeInv, Counted
  <2> QED
    BY <2>1, <2>2, <2>3 DEF Counted
<1> QED
  BY <1>7, <1>11 DEF TypeInv

LEMMA KeptStep == TypeInv /\ [Next]_vars => Kept'
<1> SUFFICES ASSUME TypeInv, [Next]_vars PROVE Kept'
  OBVIOUS
<1>1. ASSUME NEW r \in Runs, End(r)
      PROVE  \A q \in Runs : pc'[q] = "idle" => seats'[q] = Fresh
  BY <1>1, EndFacts DEF TypeInv, Kept
<1>2. ASSUME NEW r \in Runs, Load(r) PROVE Kept'
  BY <1>2 DEF Load, TypeInv, TypeOK, Kept
<1>3. ASSUME NEW r \in Runs, Succeed(r) \/ Wait(r) PROVE Kept'
  BY <1>1, <1>3 DEF Succeed, Wait, Fail, Finish, Kept
<1>4. ASSUME NEW r \in Runs, Retry(r) \/ Switch(r) PROVE Kept'
  <2>1. PICK next, delay : GoOn(r, next, delay)
    BY <1>4 DEF Retry, Switch
  <2>2. live' = TRUE
    BY <1>4 DEF Retry, Switch, Fail, Finish
  <2> QED
    BY <2>1, <2>2 DEF GoOn, TypeInv, TypeOK, Kept
<1>5. ASSUME NEW r \in Runs, Stop(r) PROVE Kept'
  BY <1>1, <1>5 DEF Stop, TypeInv, Kept
<1>6. ASSUME NEW r \in Runs, NEW catalog \in SUBSET Models, Choose(r, catalog)
      PROVE  Kept'
  BY <1>6 DEF Choose, TypeInv, TypeOK, Kept
<1>7. ASSUME NEW r \in Runs, NEW catalog \in SUBSET Models, NoneEligible(r, catalog)
      PROVE  Kept'
  BY <1>1, <1>7 DEF NoneEligible, TypeInv, Kept
<1>8. CASE Tick
  BY <1>8, FreshAged DEF Tick, TypeInv, Kept
<1>9. CASE Expire
  BY <1>9 DEF Expire, TypeInv, Kept
<1>10. CASE UNCHANGED vars
  BY <1>10 DEF vars, TypeInv, Kept
<1> QED
  BY <1>2, <1>3, <1>4, <1>5, <1>6, <1>7, <1>8, <1>9, <1>10 DEF Next

LEMMA TypeStep == TypeInv /\ [Next]_vars => TypeInv'
<1> SUFFICES ASSUME TypeInv, [Next]_vars PROVE TypeOK' /\ Counted'
  BY KeptStep DEF TypeInv
<1>1. ASSUME NEW r \in Runs, Load(r) PROVE TypeOK' /\ Counted'
  BY <1>1, TypeLoad
<1>2. ASSUME NEW r \in Runs, Succeed(r) PROVE TypeOK' /\ Counted'
  BY <1>2, TypeSucceed
<1>3. ASSUME NEW r \in Runs, Retry(r) PROVE TypeOK' /\ Counted'
  BY <1>3, TypeRetry
<1>4. ASSUME NEW r \in Runs, Switch(r) PROVE TypeOK' /\ Counted'
  BY <1>4, TypeSwitch
<1>5. ASSUME NEW r \in Runs, Wait(r) PROVE TypeOK' /\ Counted'
  BY <1>5, TypeWait
<1>6. ASSUME NEW r \in Runs, Stop(r) PROVE TypeOK' /\ Counted'
  BY <1>6, TypeStop
<1>7. ASSUME NEW r \in Runs, NEW catalog \in SUBSET Models, Choose(r, catalog)
      PROVE  TypeOK' /\ Counted'
  BY <1>7, TypeChoose
<1>8. ASSUME NEW r \in Runs, NEW catalog \in SUBSET Models, NoneEligible(r, catalog)
      PROVE  TypeOK' /\ Counted'
  BY <1>8, TypeNoneEligible
<1>9. CASE Tick
  BY <1>9, TypeTick
<1>10. CASE Expire
  BY <1>10, TypeExpire
<1>11. CASE UNCHANGED vars
  BY <1>11 DEF vars, TypeInv, TypeOK, Counted
<1> QED
  BY <1>1, <1>2, <1>3, <1>4, <1>5, <1>6, <1>7, <1>8, <1>9, <1>10, <1>11 DEF Next

LEMMA TypeHolds == Spec => []TypeInv
BY TypeInit, TypeStep, PTL DEF Spec

(* However many runs overlap: the counters stay within the thresholds of   *)
(* seating.py, delays within the backoff's cap, waits within the window.   *)
THEOREM TypeCorrect == Spec => []TypeOK
<1>1. TypeInv => TypeOK
  BY DEF TypeInv
<1> QED
  BY <1>1, TypeHolds, PTL

(* The persisted counts never exceed the outcomes that were recorded.      *)
OutcomesReal == \A m \in Models : stored[m].results <= recorded[m]

(* However many runs overlap: the journal never counts an outcome that was *)
(* not recorded (runtime.py:246-247); an overlap can only lose outcomes.   *)
THEOREM OutcomesAreReal == Spec => []OutcomesReal
<1>1. TypeInv => OutcomesReal
  BY DEF TypeInv, Counted, OutcomesReal
<1> QED
  BY <1>1, TypeHolds, PTL

-----------------------------------------------------------------------------
(* Runs that do not overlap                                                *)

(* One run at a time, of however many tasks: a run starts when the one     *)
(* before has returned or was cut off.                                     *)
Serial == \A r, s \in Runs : pc[r] # "idle" /\ pc[s] # "idle" => r = s

(* A seating state knows everything there is to know: every outcome, the   *)
(* last use of every model (one it takes for never used has had no probe   *)
(* since all was forgotten), and the failures of a burst of probes.        *)
Knows(s) ==
  \A m \in Models :
    /\ s[m].results = recorded[m]
    /\ s[m].idle = idleFor[m] \/ (s[m].idle = Inactivity /\ burst[m] = 0)
    /\ s[m].active => burst[m] <= s[m].probes /\ s[m].probes < ProbeLimit

(* Then the copy of the run there is knows everything, and as long as the  *)
(* row lives it holds the same; between two runs it is the journal that    *)
(* knows everything (which is nothing, once its row has expired); and a    *)
(* probe under way has room in its burst.                                  *)
Alone ==
  /\ \A r \in Runs : pc[r] # "idle" => Knows(seats[r]) /\ (live => seats[r] = stored)
  /\ (\A r \in Runs : pc[r] = "idle") => Knows(stored)
  /\ \A r \in Runs : pc[r] = "attempt" /\ cur[r].probe =>
       /\ burst[cur[r].model] <= seats[r][cur[r].model].probes
       /\ burst[cur[r].model] < ProbeLimit

(* Nothing is known of a model without history.                            *)
LEMMA FreshKnows ==
  ASSUME \A m \in Models : recorded[m] = 0 /\ burst[m] = 0
  PROVE  Knows(Fresh)
<1>1. \A m \in Models : Fresh[m].results = 0 /\ Fresh[m].idle = Inactivity
                        /\ Fresh[m].active = FALSE
  BY FreshType DEF FreshState
<1> QED
  BY <1>1 DEF Knows

LEMMA AloneInit == Init => Alone
<1> SUFFICES ASSUME Init PROVE Alone
  OBVIOUS
<1>1. Knows(Fresh)
  BY FreshKnows DEF Init
<1> QED
  BY <1>1 DEF Init, Alone

(* What Choose does.                                                       *)
LEMMA ChooseFacts ==
  ASSUME TypeInv, NEW r \in Runs, NEW catalog \in SUBSET Models, Choose(r, catalog)
  PROVE  \E m \in Models :
           /\ Eligible(seats[r], m)
           /\ cur'[r].model = m /\ cur'[r].probe = IsProbe(seats[r], m)
           /\ burst'[m] = IF idleFor[m] >= Inactivity THEN 0 ELSE burst[m]
           /\ \A n \in Models \ {m} : burst'[n] = burst[n]
           /\ pc[r] = "looping" /\ pc'[r] = "attempt"
           /\ \A q \in Runs \ {r} : pc'[q] = pc[q] /\ cur'[q] = cur[q]
           /\ UNCHANGED <<live, stored, seats, recorded, idleFor, park>>
<1> DEFINE m == Chosen(seats[r], catalog, cur[r].forced)
           taken == [model |-> m, probe |-> IsProbe(seats[r], m), catalog |-> catalog,
                     available |-> Available(seats[r], catalog), forced |-> None,
                     left |-> cur[r].left - 1, wake |-> 0]
<1>1. m \in catalog /\ m \in Available(seats[r], catalog)
  <2>1. Available(seats[r], catalog) # {}
    BY DEF Choose
  <2> QED
    BY <2>1, ChosenIsAvailable
<1>2. Eligible(seats[r], m)
  BY <1>1 DEF Available
<1>3. /\ cur' = [cur EXCEPT ![r] = taken] /\ pc' = [pc EXCEPT ![r] = "attempt"]
      /\ burst' = [burst EXCEPT ![m] = IF idleFor[m] >= Inactivity THEN 0 ELSE @]
      /\ UNCHANGED <<live, stored, seats, recorded, idleFor, park>> /\ pc[r] = "looping"
  BY DEF Choose, Ready
<1>4. taken.model = m /\ taken.probe = IsProbe(seats[r], m)
  BY Zenon
<1> HIDE DEF m, taken
<1>5. cur'[r] = taken /\ pc'[r] = "attempt"
      /\ \A q \in Runs \ {r} : pc'[q] = pc[q] /\ cur'[q] = cur[q]
  BY <1>3 DEF TypeInv, TypeOK
<1>6. /\ burst'[m] = IF idleFor[m] >= Inactivity THEN 0 ELSE burst[m]
      /\ \A n \in Models \ {m} : burst'[n] = burst[n]
  BY <1>1, <1>3 DEF TypeInv, TypeOK
<1> QED
  BY <1>1, <1>2, <1>3, <1>4, <1>5, <1>6

LEMMA AloneLoad ==
  ASSUME TypeInv, Alone, Serial', NEW r \in Runs, Load(r)
  PROVE  Alone'
<1>1. /\ pc[r] = "idle" /\ pc'[r] = "looping" /\ seats'[r] = stored
      /\ UNCHANGED <<live, stored, recorded, idleFor, burst>>
      /\ \A q \in Runs \ {r} : pc'[q] = pc[q]
  BY DEF Load, TypeInv, TypeOK
<1>2. \A q \in Runs : pc'[q] # "idle" => q = r
  BY <1>1 DEF Serial
<1>3. \A q \in Runs : pc[q] = "idle"
  BY <1>1, <1>2
<1>4. Knows(stored)
  BY <1>3 DEF Alone
<1>5. Knows(seats[r])'
  BY <1>1, <1>4 DEF Knows
<1> QED
  BY <1>1, <1>2, <1>5 DEF Alone

(* Nothing is known of what has just been forgotten.                       *)
LEMMA FreshKnowsNext ==
  ASSUME \A m \in Models : recorded'[m] = 0 /\ burst'[m] = 0
  PROVE  Knows(Fresh)'
<1>1. \A m \in Models : Fresh[m].results = 0 /\ Fresh[m].idle = Inactivity
                        /\ Fresh[m].active = FALSE
  BY FreshType DEF FreshState
<1> QED
  BY <1>1 DEF Knows

(* A run that ends without a write leaves what the journal holds, or, once *)
(* the row has expired, nothing.                                           *)
LEMMA AloneEnd ==
  ASSUME TypeInv, Alone, Serial, NEW r \in Runs, pc[r] # "idle", End(r),
         Remembered, UNCHANGED <<live, stored, idleFor>>
  PROVE  Alone'
<1>1. \A q \in Runs : pc'[q] = "idle"
  BY EndFacts DEF TypeInv, Serial
<1>2. CASE live
  <2>1. UNCHANGED <<recorded, burst>>
    BY <1>2, RememberedFacts DEF TypeInv, Forgotten
  <2>2. Knows(stored)
    BY <1>2 DEF Alone
  <2>3. Knows(stored)'
    BY <2>1, <2>2 DEF Knows
  <2> QED
    BY <1>1, <2>3 DEF Alone
<1>3. CASE ~live
  <2>1. \A m \in Models : recorded'[m] = 0 /\ burst'[m] = 0
    BY <1>1, <1>3, RememberedFacts DEF TypeInv, Forgotten
  <2>2. stored' = Fresh
    BY <1>3 DEF TypeInv, Kept
  <2>3. Knows(Fresh)'
    BY <2>1, FreshKnowsNext
  <2>4. Knows(stored)'
    BY <2>2, <2>3 DEF Knows
  <2> QED
    BY <1>1, <2>4 DEF Alone
<1> QED
  BY <1>2, <1>3

LEMMA AloneExpire ==
  ASSUME TypeInv, Alone, Serial, Expire
  PROVE  Alone'
<1>1. ~live' /\ stored' = Fresh /\ UNCHANGED <<seats, pc, cur, idleFor>> /\ Remembered
  BY DEF Expire
<1>2. CASE \A r \in Runs : pc[r] = "idle"
  <2>1. \A m \in Models : recorded'[m] = 0 /\ burst'[m] = 0
    BY <1>1, <1>2, RememberedFacts DEF TypeInv, Forgotten
  <2>2. Knows(Fresh)'
    BY <2>1, FreshKnowsNext
  <2>3. Knows(stored)'
    BY <1>1, <2>2 DEF Knows
  <2> QED
    BY <1>1, <1>2, <2>3 DEF Alone
<1>3. CASE \E r \in Runs : pc[r] # "idle"
  <2>1. UNCHANGED <<recorded, burst>>
    BY <1>1, <1>3, RememberedFacts DEF TypeInv, Forgotten
  <2>2. \A r \in Runs : pc[r] # "idle" => Knows(seats[r])'
    BY <1>1, <2>1 DEF Alone, Knows
  <2> QED
    BY <1>1, <1>3, <2>1, <2>2 DEF Alone
<1> QED
  BY <1>2, <1>3

LEMMA AloneChoose ==
  ASSUME TypeInv, Alone, Serial, NEW r \in Runs, NEW catalog \in SUBSET Models,
         Choose(r, catalog)
  PROVE  Alone'
<1>1. PICK m \in Models :
           /\ cur'[r].model = m /\ cur'[r].probe = IsProbe(seats[r], m)
           /\ burst'[m] = IF idleFor[m] >= Inactivity THEN 0 ELSE burst[m]
           /\ \A n \in Models \ {m} : burst'[n] = burst[n]
           /\ pc[r] = "looping" /\ pc'[r] = "attempt"
           /\ \A q \in Runs \ {r} : pc'[q] = pc[q] /\ cur'[q] = cur[q]
           /\ UNCHANGED <<live, stored, seats, recorded, idleFor, park>>
  BY ChooseFacts
<1>2. \A q \in Runs : pc'[q] # "idle" => q = r
  BY <1>1 DEF Serial
<1>3. \A n \in Models : /\ burst[n] \in Nat /\ burst'[n] \in Nat /\ idleFor[n] \in Nat
                       /\ seats[r][n].probes \in Nat /\ burst'[n] <= burst[n]
  <2>1. \A n \in Models : burst[n] \in Nat /\ idleFor[n] \in Nat /\ seats[r][n] \in ModelStates
    BY ConstantTypes DEF TypeInv, TypeOK
  <2> QED
    BY <1>1, <2>1, StateFields, ConstantTypes
<1>4. Knows(seats[r]) /\ (live => seats[r] = stored)
  BY <1>1 DEF Alone
<1>5. cur'[r].probe => burst'[m] <= seats[r][m].probes /\ burst'[m] < ProbeLimit
  <2>1. CASE burst'[m] = 0
    BY <1>3, <2>1, ConstantTypes
  <2>2. CASE burst'[m] # 0
    <3>1. burst'[m] = burst[m] /\ ~ (idleFor[m] >= Inactivity)
      BY <1>1, <2>2
    <3>2. seats[r][m].idle = idleFor[m]
      BY <1>4, <2>2, <3>1 DEF Knows
    <3>3. cur'[r].probe => seats[r][m].active
      BY <1>1, <3>1, <3>2 DEF IsProbe
    <3> QED
      BY <1>3, <1>4, <3>1, <3>3, ConstantTypes DEF Knows
  <2> QED
    BY <2>1, <2>2
<1>6. \A n \in Models : /\ burst[n] = 0 => burst'[n] = 0
                       /\ burst[n] <= seats[r][n].probes => burst'[n] <= seats[r][n].probes
  BY <1>3, ConstantTypes
<1>7. Knows(seats[r])'
  BY <1>1, <1>4, <1>6 DEF Knows
<1> QED
  BY <1>1, <1>2, <1>4, <1>5, <1>7 DEF Alone

(* What the journal knows after an attempt.                                *)
LEMMA AloneFinish ==
  ASSUME TypeInv, Alone, NEW r \in Runs, pc[r] = "attempt", NEW st \in ModelStates,
         st.results = seats[r][cur[r].model].results + 1, st.idle = 0, Finish(r, st),
         \A n \in Models \ {cur[r].model} : burst'[n] = burst[n],
         st.active => burst'[cur[r].model] <= st.probes /\ st.probes < ProbeLimit
  PROVE  Knows(stored)'
<1>1. Knows(seats[r])
  BY DEF Alone
<1>2. \A m \in Models \ {cur[r].model} :
        /\ stored'[m] = seats[r][m] /\ recorded'[m] = recorded[m]
        /\ idleFor'[m] = idleFor[m] /\ burst'[m] = burst[m]
  BY FinishFacts
<1>3. stored'[cur[r].model] = st /\ idleFor'[cur[r].model] = 0
      /\ recorded'[cur[r].model] = recorded[cur[r].model] + 1
  BY FinishFacts
<1>4. cur[r].model \in Models
  BY FailedFacts
<1>5. st.results = recorded[cur[r].model] + 1
  BY <1>1, <1>4 DEF Knows
<1> SUFFICES ASSUME NEW m \in Models
             PROVE  /\ stored'[m].results = recorded'[m]
                    /\ \/ stored'[m].idle = idleFor'[m]
                       \/ stored'[m].idle = Inactivity /\ burst'[m] = 0
                    /\ stored'[m].active =>
                         burst'[m] <= stored'[m].probes /\ stored'[m].probes < ProbeLimit
  BY DEF Knows
<1>6. CASE m = cur[r].model
  BY <1>3, <1>5, <1>6
<1>7. CASE m # cur[r].model
  BY <1>1, <1>2, <1>7 DEF Knows
<1> QED
  BY <1>6, <1>7

(* A failed probe is counted by the model and by its burst alike.          *)
LEMMA AloneFailed ==
  ASSUME TypeInv, Alone, NEW r \in Runs, Fail(r)
  PROVE  Knows(stored)'
<1> DEFINE m == cur[r].model
           before == seats[r][m]
           st == FailedState(r)
<1>1. pc[r] = "attempt" /\ Finish(r, st)
  BY DEF Fail
<1>2. /\ m \in Models /\ cur[r].probe \in BOOLEAN /\ before \in ModelStates
      /\ before.results < ResultBound
      /\ st \in ModelStates /\ st.results = before.results + 1
  BY <1>1, FailedFacts
<1>3. st = AfterFailure(before, cur[r].probe)
  BY DEF FailedState
<1>4. Knows(seats[r])
  BY <1>1 DEF Alone
<1>5. burst[m] \in Nat /\ before.probes \in 0..ProbeLimit
  BY <1>2, StateFields DEF TypeInv, TypeOK
<1>6. burst'[m] = burst[m] + (IF cur[r].probe THEN 1 ELSE 0)
      /\ \A n \in Models \ {m} : burst'[n] = burst[n]
  BY BurstFacts
<1>7. cur[r].probe => burst[m] <= before.probes
  BY <1>1 DEF Alone
<1>8. before.active => burst[m] <= before.probes /\ before.probes < ProbeLimit
  BY <1>2, <1>4 DEF Knows
<1> HIDE DEF m, before, st
<1>9. /\ st.idle = 0
      /\ cur[r].probe => /\ st.probes = Least(before.probes + 1, ProbeLimit)
                         /\ st.active <=> st.probes < ProbeLimit
      /\ ~cur[r].probe => st.probes = before.probes /\ st.active = before.active
  BY <1>2, <1>3, FailureFields
<1>10. st.active => burst'[m] <= st.probes /\ st.probes < ProbeLimit
  <2>1. CASE cur[r].probe
    BY <1>5, <1>6, <1>7, <1>9, <2>1, ConstantTypes DEF Least
  <2>2. CASE ~cur[r].probe
    <3>1. burst'[m] = burst[m] /\ st.probes = before.probes
      BY <1>5, <1>6, <1>9, <2>2
    <3>2. st.active = before.active
      BY <1>9, <2>2, Zenon
    <3> QED
      BY <1>8, <3>1, <3>2, Zenon
  <2> QED
    BY <2>1, <2>2
<1>11. st.idle = 0 /\ st.results = seats[r][cur[r].model].results + 1
  BY <1>2, <1>9 DEF before, m
<1>12. /\ \A n \in Models \ {cur[r].model} : burst'[n] = burst[n]
       /\ st.active => burst'[cur[r].model] <= st.probes /\ st.probes < ProbeLimit
  BY <1>6, <1>10 DEF m
<1> QED
  BY <1>1, <1>2, <1>11, <1>12, AloneFinish

LEMMA AloneSucceed ==
  ASSUME TypeInv, Alone, Serial, NEW r \in Runs, Succeed(r)
  PROVE  Alone'
<1> DEFINE st == AfterSuccess(seats[r][cur[r].model])
<1>1. pc[r] = "attempt" /\ Finish(r, st) /\ End(r)
      /\ burst' = [burst EXCEPT ![cur[r].model] = 0]
  BY DEF Succeed
<1>2. /\ st \in ModelStates /\ st.results = seats[r][cur[r].model].results + 1
      /\ st.idle = 0 /\ st.active = FALSE
  BY <1>1, FailedFacts, SuccessFields
<1> HIDE DEF st
<1>3. \A n \in Models \ {cur[r].model} : burst'[n] = burst[n]
  BY <1>1 DEF TypeInv, TypeOK
<1>4. Knows(stored)'
  BY <1>1, <1>2, <1>3, AloneFinish
<1>5. \A q \in Runs : pc'[q] = "idle"
  BY <1>1, EndFacts DEF TypeInv, Serial
<1> QED
  BY <1>4, <1>5 DEF Alone

LEMMA AloneWait ==
  ASSUME TypeInv, Alone, Serial, NEW r \in Runs, Wait(r)
  PROVE  Alone'
<1>1. Fail(r) /\ End(r) /\ pc[r] = "attempt"
  BY DEF Wait, Fail
<1>2. \A q \in Runs : pc'[q] = "idle"
  BY <1>1, EndFacts DEF TypeInv, Serial
<1> QED
  BY <1>1, <1>2, AloneFailed DEF Alone

LEMMA AloneGoOn ==
  ASSUME TypeInv, Alone, Serial, NEW r \in Runs, Fail(r),
         NEW next \in Models, NEW delay \in 0..MaxBackoff, GoOn(r, next, delay)
  PROVE  Alone'
<1>1. pc[r] = "attempt" /\ stored' = Copy(r, FailedState(r))
  BY DEF Fail, Finish
<1>2. pc'[r] = "looping" /\ seats'[r] = stored'
      /\ \A q \in Runs \ {r} : pc'[q] = pc[q]
  BY <1>1, GoOnFacts
<1>3. \A q \in Runs : pc'[q] # "idle" => q = r
  BY <1>1, <1>2 DEF Serial
<1>4. Knows(stored)'
  BY AloneFailed
<1>5. Knows(seats[r])'
  BY <1>2, <1>4 DEF Knows
<1> QED
  BY <1>2, <1>3, <1>5 DEF Alone

(* Time passes for what a seating state holds as it does in fact.          *)
LEMMA KnowsAged ==
  ASSUME TypeInv, Tick, NEW s \in [Models -> ModelStates], Knows(s)
  PROVE  \A m \in Models :
           /\ Aged(s)[m].results = recorded'[m]
           /\ \/ Aged(s)[m].idle = idleFor'[m]
              \/ Aged(s)[m].idle = Inactivity /\ burst'[m] = 0
           /\ Aged(s)[m].active =>
                burst'[m] <= Aged(s)[m].probes /\ Aged(s)[m].probes < ProbeLimit
<1>1. recorded' = recorded /\ burst' = burst
      /\ \A m \in Models : idleFor'[m] = Least(idleFor[m] + 1, Inactivity)
  BY DEF Tick
<1>2. \A m \in Models : /\ Aged(s)[m].results = s[m].results
                       /\ Aged(s)[m].active = s[m].active
                       /\ Aged(s)[m].probes = s[m].probes
                       /\ Aged(s)[m].idle = Least(s[m].idle + 1, Inactivity)
  BY AgedAll, AgedType
<1>3. Least(Inactivity + 1, Inactivity) = Inactivity
  BY ConstantTypes DEF Least
<1> SUFFICES ASSUME NEW m \in Models
             PROVE  /\ Aged(s)[m].results = recorded'[m]
                    /\ \/ Aged(s)[m].idle = idleFor'[m]
                       \/ Aged(s)[m].idle = Inactivity /\ burst'[m] = 0
                    /\ Aged(s)[m].active =>
                         burst'[m] <= Aged(s)[m].probes /\ Aged(s)[m].probes < ProbeLimit
  OBVIOUS
<1>4. \/ Aged(s)[m].idle = idleFor'[m]
      \/ Aged(s)[m].idle = Inactivity /\ burst'[m] = 0
  BY <1>1, <1>2, <1>3 DEF Knows
<1> QED
  BY <1>1, <1>2, <1>4 DEF Knows

LEMMA AloneTick ==
  ASSUME TypeInv, Alone, Tick
  PROVE  Alone'
<1>1. /\ stored \in [Models -> ModelStates] /\ cur \in [Runs -> Attempts]
      /\ \A r \in Runs : seats[r] \in [Models -> ModelStates]
      /\ \A r \in Runs : pc[r] = "attempt" => cur[r].model \in Models
  BY DEF TypeInv, TypeOK, Counted
<1>2. live' = live /\ stored' = Aged(stored) /\ pc' = pc /\ burst' = burst
  BY DEF Tick
<1>3. \A r \in Runs : pc[r] # "idle" => seats'[r] = Aged(seats[r])
  BY DEF Tick
<1>4. \A r \in Runs : cur'[r].model = cur[r].model /\ cur'[r].probe = cur[r].probe
  <2>1. \A a \in Attempts : /\ [a EXCEPT !.wake = Less(@)].model = a.model
                            /\ [a EXCEPT !.wake = Less(@)].probe = a.probe
    BY DEF Attempts
  <2> QED
    BY <1>1, <2>1 DEF Tick
<1>5. ASSUME NEW r \in Runs, pc[r] # "idle"
      PROVE  Knows(seats[r])' /\ (live' => seats'[r] = stored')
  <2>1. Knows(seats[r]) /\ (live => seats[r] = stored)
    BY <1>5 DEF Alone
  <2>2. Knows(seats[r])'
    BY <1>1, <1>3, <1>5, <2>1, KnowsAged DEF Knows
  <2> QED
    BY <1>2, <1>3, <1>5, <2>1, <2>2
<1>6. (\A r \in Runs : pc[r] = "idle") => Knows(stored)'
  BY <1>1, <1>2, KnowsAged DEF Alone, Knows
<1>7. ASSUME NEW r \in Runs, pc[r] = "attempt", cur[r].probe
      PROVE  /\ burst[cur[r].model] <= seats'[r][cur[r].model].probes
             /\ burst[cur[r].model] < ProbeLimit
  <2>1. /\ burst[cur[r].model] <= seats[r][cur[r].model].probes
        /\ burst[cur[r].model] < ProbeLimit
    BY <1>7 DEF Alone
  <2>2. seats'[r][cur[r].model].probes = seats[r][cur[r].model].probes
    BY <1>1, <1>3, <1>7, AgedAll, AgedType
  <2> QED
    BY <2>1, <2>2
<1> QED
  BY <1>2, <1>4, <1>5, <1>6, <1>7 DEF Alone

LEMMA AloneStep == TypeInv /\ Serial /\ Serial' /\ Alone /\ [Next]_vars => Alone'
<1> SUFFICES ASSUME TypeInv, Serial, Serial', Alone, [Next]_vars PROVE Alone'
  OBVIOUS
<1>1. ASSUME NEW r \in Runs, Load(r) PROVE Alone'
  BY <1>1, AloneLoad
<1>2. ASSUME NEW r \in Runs, Succeed(r) PROVE Alone'
  BY <1>2, AloneSucceed
<1>3. ASSUME NEW r \in Runs, Retry(r) PROVE Alone'
  <2>1. pc[r] = "attempt" /\ Fail(r) /\ GoOn(r, cur[r].model, FailedState(r).cool)
    BY <1>3 DEF Retry, Fail
  <2> QED
    BY <2>1, FailedFacts, AloneGoOn
<1>4. ASSUME NEW r \in Runs, Switch(r) PROVE Alone'
  <2>1. Fail(r) /\ Others(r) # {} /\ GoOn(r, First(cur[r].available, Others(r)), 0)
    BY <1>4 DEF Switch
  <2>2. 0 \in 0..MaxBackoff
    BY ConstantTypes
  <2> QED
    BY <2>1, <2>2, NextIsOther, AloneGoOn
<1>5. ASSUME NEW r \in Runs, Wait(r) PROVE Alone'
  BY <1>5, AloneWait
<1>6. ASSUME NEW r \in Runs, Stop(r) PROVE Alone'
  <2>1. pc[r] # "idle" /\ End(r) /\ Remembered /\ UNCHANGED <<live, stored, idleFor>>
    BY <1>6 DEF Stop
  <2> QED
    BY <2>1, AloneEnd
<1>7. ASSUME NEW r \in Runs, NEW catalog \in SUBSET Models, Choose(r, catalog)
      PROVE  Alone'
  BY <1>7, AloneChoose
<1>8. ASSUME NEW r \in Runs, NEW catalog \in SUBSET Models, NoneEligible(r, catalog)
      PROVE  Alone'
  <2>1. pc[r] # "idle" /\ End(r) /\ Remembered /\ UNCHANGED <<live, stored, idleFor>>
    BY <1>8 DEF NoneEligible, Ready
  <2> QED
    BY <2>1, AloneEnd
<1>9. CASE Tick
  BY <1>9, AloneTick
<1>10. CASE Expire
  BY <1>10, AloneExpire
<1>11. CASE UNCHANGED vars
  BY <1>11 DEF vars, Alone, Knows
<1> QED
  BY <1>1, <1>2, <1>3, <1>4, <1>5, <1>6, <1>7, <1>8, <1>9, <1>10, <1>11 DEF Next

LEMMA AloneHolds == Spec /\ []Serial => []Alone
BY AloneInit, AloneStep, TypeHolds, PTL DEF Spec

(* One run at a time loses no outcome but with the row's expiry: between   *)
(* two runs the journal counts every attempt since all was last forgotten. *)
(* (Two overlapping runs do lose one: the run SeatingLostUpdate.)          *)
THEOREM OutcomesAreConserved == Spec /\ []Serial => []OutcomesConserved
<1>1. Alone => OutcomesConserved
  BY DEF Alone, Knows, OutcomesConserved
<1> QED
  BY <1>1, AloneHolds, PTL

(* One run at a time: a model that keeps failing is probed at most         *)
(* ProbeLimit times in a row, over all tasks and catalogs, as long as the  *)
(* journal or a run remembers the row it was counted in.                   *)
THEOREM BurstsAreBounded == Spec /\ []Serial => []ProbeBurstBounded
<1>1. Alone => ProbeBurstBounded
  BY DEF Alone, ProbeBurstBounded
<1> QED
  BY <1>1, AloneHolds, PTL

(* Nothing but Choose begins an attempt.                                   *)
LEMMA OnlyChoose ==
  ASSUME TypeInv, [Next]_vars, NEW r \in Runs, pc[r] = "looping", pc'[r] = "attempt"
  PROVE  \E catalog \in SUBSET Models : Choose(r, catalog)
<1>1. pc \in [Runs -> {"idle", "looping", "attempt"}]
  BY DEF TypeInv, TypeOK
<1>2. ASSUME NEW q \in Runs, End(q) PROVE FALSE
  BY <1>1, <1>2 DEF End
<1>3. ASSUME NEW q \in Runs, pc' = [pc EXCEPT ![q] = "looping"] PROVE FALSE
  BY <1>1, <1>3
<1>4. ASSUME NEW q \in Runs,
             Load(q) \/ Succeed(q) \/ Retry(q) \/ Switch(q) \/ Wait(q) \/ Stop(q)
      PROVE  FALSE
  BY <1>2, <1>3, <1>4 DEF Load, Succeed, Retry, Switch, Wait, Stop, GoOn
<1>5. ASSUME NEW q \in Runs, NEW catalog \in SUBSET Models, NoneEligible(q, catalog)
      PROVE  FALSE
  BY <1>2, <1>5 DEF NoneEligible
<1>6. ~Tick /\ ~Expire /\ ~UNCHANGED vars
  BY DEF Tick, Expire, vars
<1>7. ASSUME NEW q \in Runs, NEW catalog \in SUBSET Models, Choose(q, catalog)
      PROVE  q = r
  BY <1>1, <1>7 DEF Choose
<1> QED
  BY <1>4, <1>5, <1>6, <1>7 DEF Next

(* A model may be called according to the journal when it may be according *)
(* to the copy of the run: an expired row holds no backoff.                *)
LEMMA JournalIsMilder ==
  ASSUME TypeInv, Alone, NEW r \in Runs, pc[r] # "idle", NEW m \in Models
  PROVE  /\ stored[m].cool <= seats[r][m].cool
         /\ Eligible(seats[r], m) => Eligible(stored, m)
<1>1. seats[r][m].cool \in Nat
  <2>1. seats[r][m] \in ModelStates
    BY DEF TypeInv, TypeOK
  <2> QED
    BY <2>1, StateFields, ConstantTypes
<1>2. CASE live
  BY <1>1, <1>2 DEF Alone
<1>3. CASE ~live
  <2>1. stored[m].cool = 0
    BY <1>3, FreshType DEF TypeInv, Kept, FreshState
  <2> QED
    BY <1>1, <2>1 DEF Eligible
<1> QED
  BY <1>2, <1>3 DEF Eligible

(* One run at a time: no model is called before its backoff is over.       *)
THEOREM BackoffIsShared == Spec /\ []Serial => BackoffShared
<1>1. ASSUME TypeInv, Alone, [Next]_vars, NEW r \in Runs,
             pc[r] = "looping", pc'[r] = "attempt"
      PROVE  Eligible(stored, cur'[r].model)
  <2>1. PICK catalog \in SUBSET Models : Choose(r, catalog)
    BY <1>1, OnlyChoose
  <2>2. cur'[r].model \in Models /\ Eligible(seats[r], cur'[r].model)
    BY <1>1, <2>1, ChooseFacts
  <2> QED
    BY <1>1, <2>2, JournalIsMilder
<1>2. TypeInv /\ Alone /\ [Next]_vars
      => [\A r \in Runs : pc[r] = "looping" /\ pc'[r] = "attempt"
            => Eligible(stored, cur'[r].model)]_vars
  BY <1>1
<1> QED
  BY <1>2, TypeHolds, AloneHolds, PTL DEF Spec, BackoffShared

(* One run at a time: a model nobody has used for the whole inactivity     *)
(* window is called as a probe.                                            *)
THEOREM InactiveIsProbed == Spec /\ []Serial => InactiveMeansProbe
<1>1. ASSUME TypeInv, Alone, [Next]_vars, NEW r \in Runs,
             pc[r] = "looping", pc'[r] = "attempt", ~cur'[r].probe
      PROVE  idleFor[cur'[r].model] < Inactivity
  <2>1. PICK catalog \in SUBSET Models : Choose(r, catalog)
    BY <1>1, OnlyChoose
  <2>2. PICK m \in Models : cur'[r].model = m /\ cur'[r].probe = IsProbe(seats[r], m)
    BY <1>1, <2>1, ChooseFacts
  <2>3. ~ (seats[r][m].idle >= Inactivity)
    BY <1>1, <2>2 DEF IsProbe
  <2>4. idleFor[m] \in 0..Inactivity
    BY <1>1 DEF TypeInv, TypeOK
  <2>5. seats[r][m].idle = idleFor[m]
    BY <1>1, <2>3, ConstantTypes DEF Alone, Knows
  <2> QED
    BY <2>2, <2>3, <2>4, <2>5, ConstantTypes
<1>2. TypeInv /\ Alone /\ [Next]_vars
      => [\A r \in Runs : pc[r] = "looping" /\ pc'[r] = "attempt" /\ ~cur'[r].probe
            => idleFor[cur'[r].model] < Inactivity]_vars
  BY <1>1
<1> QED
  BY <1>2, TypeHolds, AloneHolds, PTL DEF Spec, InactiveMeansProbe

-----------------------------------------------------------------------------
(* A single run, again and again                                           *)

OneRun == \A r, s \in Runs : r = s

(* A parked task is not running, and one of the models it waits for may be *)
(* called by the time it wakes.                                            *)
Parking ==
  \A r \in Runs : park[r].on =>
    /\ pc[r] = "idle"
    /\ park[r].catalog # {} =>
         \E m \in park[r].catalog : m \in Models /\ stored[m].cool <= park[r].wait

LEMMA ParkingInit == Init => Parking
BY DEF Init, NoPark, Parking

LEMMA ParkingWait ==
  ASSUME OneRun, TypeInv, Alone, NEW r \in Runs, Wait(r)
  PROVE  Parking'
<1> DEFINE S == cur[r].catalog \ {cur[r].model}
           wait == Soonest(seats[r], S, Most(FailedState(r).cool, Inactivity))
           st == FailedState(r)
<1>1. pc[r] = "attempt" /\ Finish(r, st) /\ End(r) /\ Parked(r, wait, cur[r].catalog)
  BY DEF Wait, Fail
<1>2. /\ wait \in 0..Inactivity /\ cur[r].catalog \in SUBSET Models
      /\ S # {} => \E m \in S : wait = seats[r][m].cool
      /\ S = {} => wait = Inactivity
  BY WaitFacts
<1>3. /\ st \in ModelStates /\ st.results = seats[r][cur[r].model].results + 1
      /\ st.cool \in 0..MaxBackoff
  BY <1>1, FailedFacts
<1> HIDE DEF wait, st
<1>4. /\ stored'[cur[r].model] = st
      /\ \A m \in Models \ {cur[r].model} : stored'[m] = seats[r][m]
  BY <1>1, <1>3, FinishFacts
<1>5. park'[r].wait = wait /\ park'[r].catalog = cur[r].catalog
  BY <1>1, <1>2, ParkedFacts DEF TypeInv
<1>6. pc'[r] = "idle"
  BY <1>1, EndFacts DEF TypeInv
<1>7. ASSUME cur[r].catalog # {}
      PROVE  \E m \in cur[r].catalog : m \in Models /\ stored'[m].cool <= wait
  <2>1. CASE S = {}
    <3>1. cur[r].model \in cur[r].catalog
      BY <1>7, <2>1
    <3>2. st.cool <= wait
      BY <1>2, <1>3, <2>1, ConstantTypes
    <3> QED
      BY <1>2, <1>4, <3>1, <3>2
  <2>2. CASE S # {}
    <3>1. PICK m \in S : wait = seats[r][m].cool
      BY <1>2, <2>2
    <3>2. m \in cur[r].catalog /\ m \in Models /\ stored'[m].cool = wait
      BY <1>2, <1>4, <3>1
    <3> QED
      BY <1>2, <3>2
  <2> QED
    BY <2>1, <2>2
<1>8. \A q \in Runs : q = r
  BY DEF OneRun
<1> QED
  BY <1>5, <1>6, <1>7, <1>8 DEF Parking

LEMMA ParkingNoneEligible ==
  ASSUME OneRun, TypeInv, Alone, NEW r \in Runs, NEW catalog \in SUBSET Models,
         NoneEligible(r, catalog)
  PROVE  Parking'
<1> DEFINE wait == Soonest(seats[r], catalog, Inactivity)
<1>1. pc[r] = "looping" /\ End(r) /\ Parked(r, wait, catalog) /\ stored' = stored
  BY DEF NoneEligible, Ready
<1>2. /\ seats[r] \in [Models -> ModelStates]
      /\ \A m \in Models : stored[m].cool <= seats[r][m].cool
  BY <1>1, JournalIsMilder DEF TypeInv, TypeOK
<1>3. \A m \in Models : seats[r][m].cool \in 0..Inactivity
  BY <1>2, StateFields, ConstantTypes
<1>4. /\ wait \in 0..Inactivity
      /\ catalog # {} => \E m \in catalog : wait = seats[r][m].cool
  BY <1>2, <1>3, SoonestIsOne, ConstantTypes
<1> HIDE DEF wait
<1>5. park'[r].wait = wait /\ park'[r].catalog = catalog
  BY <1>1, <1>4, ParkedFacts DEF TypeInv
<1>6. pc'[r] = "idle"
  BY <1>1, EndFacts DEF TypeInv
<1>7. catalog # {} => \E m \in catalog : m \in Models /\ stored'[m].cool <= wait
  BY <1>1, <1>2, <1>4
<1>8. \A q \in Runs : q = r
  BY DEF OneRun
<1> QED
  BY <1>5, <1>6, <1>7, <1>8 DEF Parking

(* A run that has begun is not parked, and stays so.                       *)
LEMMA ParkingBusy ==
  ASSUME OneRun, Parking, NEW r \in Runs, pc[r] # "idle", park' = park
  PROVE  Parking'
<1>1. \A q \in Runs : q = r
  BY DEF OneRun
<1>2. ~park'[r].on
  BY DEF Parking
<1> QED
  BY <1>1, <1>2 DEF Parking

LEMMA ParkingTick ==
  ASSUME TypeInv, Parking, Tick
  PROVE  Parking'
<1>1. \A r \in Runs : /\ park[r].on = park'[r].on /\ park'[r].catalog = park[r].catalog
                     /\ park'[r].wait = Less(park[r].wait) /\ park[r].wait \in Nat
  <2>1. \A w \in Waits : /\ [w EXCEPT !.wait = Less(@)].on = w.on
                         /\ [w EXCEPT !.wait = Less(@)].catalog = w.catalog
                         /\ [w EXCEPT !.wait = Less(@)].wait = Less(w.wait)
                         /\ w.wait \in Nat
    BY ConstantTypes DEF Waits
  <2> QED
    BY <2>1 DEF TypeInv, TypeOK, Tick
<1>2. \A m \in Models : stored'[m].cool = Less(stored[m].cool) /\ stored[m].cool \in Nat
  <2>1. stored \in [Models -> ModelStates] /\ stored' = Aged(stored)
    BY DEF TypeInv, TypeOK, Tick
  <2>2. \A m \in Models : stored'[m] = AgedState(stored[m]) /\ stored[m] \in ModelStates
    BY <2>1, AgedAll
  <2> QED
    BY <2>2, AgedType, StateFields, ConstantTypes
<1>3. pc' = pc
  BY DEF Tick
<1> SUFFICES ASSUME NEW r \in Runs, park'[r].on
             PROVE  /\ pc'[r] = "idle"
                    /\ park'[r].catalog # {} =>
                         \E m \in park'[r].catalog : m \in Models /\ stored'[m].cool <= park'[r].wait
  BY DEF Parking
<1>4. park[r].on
  BY <1>1
<1>5. ASSUME park'[r].catalog # {}
      PROVE  \E m \in park'[r].catalog : m \in Models /\ stored'[m].cool <= park'[r].wait
  <2>1. PICK m \in park[r].catalog : m \in Models /\ stored[m].cool <= park[r].wait
    BY <1>1, <1>4, <1>5 DEF Parking
  <2>2. Less(stored[m].cool) <= Less(park[r].wait)
    BY <1>1, <1>2, <2>1 DEF Less
  <2> QED
    BY <1>1, <1>2, <2>1, <2>2
<1> QED
  BY <1>3, <1>4, <1>5 DEF Parking

(* An expired row delays nobody.                                           *)
LEMMA ParkingExpire ==
  ASSUME TypeInv, Parking, Expire
  PROVE  Parking'
<1>1. UNCHANGED <<pc, park>> /\ \A m \in Models : stored'[m].cool = 0
  BY FreshType DEF Expire, FreshState
<1>2. \A r \in Runs : park[r].wait \in Nat
  BY ConstantTypes DEF TypeInv, TypeOK, Waits
<1> QED
  BY <1>1, <1>2 DEF Parking

LEMMA ParkingStep == OneRun /\ TypeInv /\ Alone /\ Parking /\ [Next]_vars => Parking'
<1> SUFFICES ASSUME OneRun, TypeInv, Alone, Parking, [Next]_vars PROVE Parking'
  OBVIOUS
<1>1. ASSUME NEW r \in Runs, Load(r) PROVE Parking'
  <2>1. park'[r] = NoPark /\ ~NoPark.on
    BY <1>1 DEF Load, NoPark, TypeInv, TypeOK
  <2>2. \A q \in Runs : q = r
    BY DEF OneRun
  <2> QED
    BY <2>1, <2>2 DEF Parking
<1>2. ASSUME NEW r \in Runs, Wait(r) PROVE Parking'
  BY <1>2, ParkingWait
<1>3. ASSUME NEW r \in Runs, NEW catalog \in SUBSET Models, NoneEligible(r, catalog)
      PROVE  Parking'
  BY <1>3, ParkingNoneEligible
<1>4. ASSUME NEW r \in Runs, Succeed(r) \/ Retry(r) \/ Switch(r) \/ Stop(r) PROVE Parking'
  <2>1. pc[r] # "idle" /\ park' = park
    BY <1>4 DEF Succeed, Retry, Switch, Stop, Fail, GoOn
  <2> QED
    BY <2>1, ParkingBusy
<1>5. ASSUME NEW r \in Runs, NEW catalog \in SUBSET Models, Choose(r, catalog)
      PROVE  Parking'
  <2>1. pc[r] # "idle" /\ park' = park
    BY <1>5 DEF Choose, Ready
  <2> QED
    BY <2>1, ParkingBusy
<1>6. CASE Tick
  BY <1>6, ParkingTick
<1>7. CASE Expire
  BY <1>7, ParkingExpire
<1>8. CASE UNCHANGED vars
  BY <1>8 DEF vars, Parking
<1> QED
  BY <1>1, <1>2, <1>3, <1>4, <1>5, <1>6, <1>7, <1>8 DEF Next

(* When one task is all there is, no wake-up is in vain: when its wait is  *)
(* over, some model of its catalog may be called.  (Another task may use   *)
(* that model up in the meantime.)                                         *)
THEOREM WakesAreUseful ==
  ASSUME OneRun
  PROVE  Spec => []NoFutileWake
<1>1. Serial
  BY DEF OneRun, Serial
<1>2. TypeInv /\ Parking => NoFutileWake
  <2> SUFFICES ASSUME TypeInv, Parking, NEW r \in Runs,
                      park[r].on, park[r].wait = 0, park[r].catalog # {}
               PROVE  \E m \in park[r].catalog : Eligible(stored, m)
    BY DEF NoFutileWake
  <2>1. PICK m \in park[r].catalog : m \in Models /\ stored[m].cool <= 0
    BY DEF Parking
  <2>2. stored[m].cool \in Nat
    <3>1. stored[m] \in ModelStates
      BY <2>1 DEF TypeInv, TypeOK
    <3> QED
      BY <3>1, StateFields, ConstantTypes
  <2> QED
    BY <2>1, <2>2 DEF Eligible
<1>3. TypeInv /\ Alone /\ Parking /\ [Next]_vars => Parking'
  BY ParkingStep
<1>4. Spec => []Alone
  BY <1>1, AloneHolds, PTL
<1> QED
  BY <1>2, <1>3, <1>4, ParkingInit, TypeHolds, PTL DEF Spec

=============================================================================
