------------------------- MODULE ArbitrationProofs -------------------------
(* What TLAPS proves about Arbitration: for any number of runs and models, *)
(* any concurrency and any limit of rounds and calls.                      *)
EXTENDS Arbitration, FiniteSetTheorems, WellFoundedInduction, TLAPS

-----------------------------------------------------------------------------
(* The winner exists                                                       *)

(* A finite set that a relation orders strictly and totally has a first    *)
(* element: the one with the smallest set of predecessors.                 *)
LEMMA FirstExists ==
  ASSUME NEW T, IsFiniteSet(T), T # {}, NEW R,
         \A x \in T : <<x, x>> \notin R,
         \A x, y, z \in T : <<x, y>> \in R /\ <<y, z>> \in R => <<x, z>> \in R,
         \A x, y \in T : x # y => <<x, y>> \in R \/ <<y, x>> \in R
  PROVE  \E x \in T : \A y \in T \ {x} : <<x, y>> \in R
<1> DEFINE Below(x) == {y \in T : <<y, x>> \in R}
           Belows == {Below(x) : x \in T}
<1>0. \A x \in T : Below(x) \in SUBSET T /\ Below(x) \in Belows
  OBVIOUS
<1>1. Belows \subseteq FiniteSubsetsOf(T) /\ Belows # {}
  <2>1. \A x \in T : IsFiniteSet(Below(x))
    <3> HIDE DEF Below, Belows
    <3> QED
      BY <1>0, FS_Subset
  <2>2. \A B \in Belows : \E x \in T : B = Below(x)
    OBVIOUS
  <2> HIDE DEF Below, Belows
  <2>3. \A B \in Belows : B \in SUBSET T /\ IsFiniteSet(B)
    BY <1>0, <2>1, <2>2
  <2> QED
    BY <1>0, <2>3 DEF FiniteSubsetsOf
<1>2. IsWellFoundedOn(StrictSubsetOrdering(T), FiniteSubsetsOf(T))
  BY FS_StrictSubsetOrderingWellFounded
<1>3. PICK B \in Belows : \A C \in Belows : <<C, B>> \notin StrictSubsetOrdering(T)
  <2> HIDE DEF Belows
  <2> QED
    BY <1>1, <1>2, WFMin
<1>4. PICK x \in T : B = Below(x)
  BY <1>3
<1>5. \A y \in T : <<y, x>> \notin R
  <2> SUFFICES ASSUME NEW y \in T, <<y, x>> \in R PROVE FALSE
    OBVIOUS
  <2>1. Below(y) \subseteq Below(x) /\ y \in Below(x) /\ y \notin Below(y)
    OBVIOUS
  <2>2. Below(y) \in Belows /\ Below(y) \in SUBSET T /\ Below(x) \in SUBSET T
    BY <1>0
  <2>3. <<Below(y), Below(x)>> \in StrictSubsetOrdering(T)
    <3> HIDE DEF Below
    <3> QED
      BY <2>1, <2>2 DEF StrictSubsetOrdering
  <2> QED
    BY <1>3, <1>4, <2>2, <2>3
<1> QED
  BY <1>5

LEMMA ModelsFinite == IsFiniteSet(Models)
BY FS_Interval, ArbitrationAssumption DEF Models

LEMMA CandidateFields ==
  ASSUME TypeOK, NEW r \in Runs, NEW c \in Models
  PROVE  /\ cand[r] \in [Models -> Candidates]
         /\ cand[r][c] \in Candidates
         /\ cand[r][c].rounds \in Nat /\ cand[r][c].calls \in Nat
         /\ cand[r][c].passed \in BOOLEAN
<1>1. cand[r] \in [Models -> Candidates]
  BY DEF TypeOK
<1> QED
  BY <1>1 DEF Candidates

(* The sort key orders the candidates: the code's max is well defined.     *)
LEMMA BestExists ==
  ASSUME TypeOK, NEW r \in Runs
  PROVE  /\ Passing(r) = {} => Best(r) = NoWinner
         /\ Passing(r) # {} => /\ Best(r) \in Passing(r)
                              /\ \A d \in Passing(r) \ {Best(r)} : Before(r, Best(r), d)
         /\ Best(r) \in Models \cup {NoWinner}
         /\ Best(r) = NoWinner <=> Passing(r) = {}
<1> DEFINE T == Passing(r)
           R == {p \in T \X T : Before(r, p[1], p[2])}
<1>1. T \subseteq Models /\ IsFiniteSet(T)
  BY ModelsFinite, FS_Subset DEF Passing
<1>2. \A c \in T : cand[r][c].calls \in Nat /\ NameRank[c] \in Nat
  BY <1>1, CandidateFields, ArbitrationAssumption
<1>3. \A c, d \in T : NameRank[c] = NameRank[d] => c = d
  BY <1>1, ArbitrationAssumption
<1>4. \A c, d \in T : <<c, d>> \in R <=> Before(r, c, d)
  OBVIOUS
<1>5. /\ \A x \in T : ~Before(r, x, x)
      /\ \A x, y, z \in T : Before(r, x, y) /\ Before(r, y, z) => Before(r, x, z)
      /\ \A x, y \in T : x # y => Before(r, x, y) \/ Before(r, y, x)
  BY <1>2, <1>3 DEF Before
<1>6. T # {} => \E c \in T : \A d \in T \ {c} : Before(r, c, d)
  <2> HIDE DEF T, R
  <2> SUFFICES ASSUME T # {} PROVE \E c \in T : \A d \in T \ {c} : <<c, d>> \in R
    BY <1>4
  <2>1. /\ \A x \in T : <<x, x>> \notin R
        /\ \A x, y, z \in T : <<x, y>> \in R /\ <<y, z>> \in R => <<x, z>> \in R
        /\ \A x, y \in T : x # y => <<x, y>> \in R \/ <<y, x>> \in R
    BY <1>4, <1>5
  <2> QED
    BY <1>1, <2>1, FirstExists
<1>7. T # {} => Best(r) \in T /\ \A d \in T \ {Best(r)} : Before(r, Best(r), d)
  BY <1>6 DEF Best
<1>8. NoWinner \notin Models
  BY DEF NoWinner, Models
<1> QED
  BY <1>1, <1>7, <1>8 DEF Best

-----------------------------------------------------------------------------
(* Types                                                                   *)

(* A candidate has made at most MaxCalls calls in every round so far.      *)
CallsBounded ==
  \A r \in Runs, c \in Models :
    cand[r][c].st \in {"queued", "asking"} => cand[r][c].calls <= MaxCalls * cand[r][c].rounds

(* The permits and the working candidates of a run make up its concurrency.*)
Balance == \A r \in Runs : permits[r] + Cardinality(Working(r)) = Concurrency

LEMMA CallsGrow ==
  ASSUME NEW calls \in Nat, NEW rounds \in Nat, calls <= MaxCalls * rounds,
         rounds < MaxToolRounds, NEW n \in 1..MaxCalls
  PROVE  /\ calls + n <= MaxCalls * (rounds + 1)
         /\ calls + n \in 0..(MaxCalls * MaxToolRounds)
<1>1. MaxCalls \in Nat /\ MaxToolRounds \in Nat
  BY ArbitrationAssumption
<1>2. \A a, b \in Nat : a * (b + 1) = a * b + a /\ a * b \in Nat
  OBVIOUS
<1>3. \A a, b, d \in Nat : b <= d => a * b <= a * d
  <2>1. SUFFICES ASSUME NEW a \in Nat, NEW b \in Nat, NEW d \in Nat, b <= d
                 PROVE  a * b <= a * d
    OBVIOUS
  <2>2. PICK e \in Nat : d = b + e
    BY <2>1, d - b \in Nat
  <2>3. a * d = a * b + a * e /\ a * b \in Nat /\ a * e \in Nat
    BY <2>2
  <2> QED
    BY <2>3
<1>4. calls + n <= MaxCalls * (rounds + 1)
  BY <1>1, <1>2
<1>5. MaxCalls * (rounds + 1) <= MaxCalls * MaxToolRounds
  BY <1>1, <1>3, rounds + 1 \in Nat, rounds + 1 <= MaxToolRounds
<1>6. MaxCalls * (rounds + 1) \in Nat /\ MaxCalls * MaxToolRounds \in Nat
  BY <1>1, <1>2, rounds + 1 \in Nat
<1> QED
  BY <1>1, <1>4, <1>5, <1>6

LEMMA WorkingFinite ==
  ASSUME NEW r
  PROVE  IsFiniteSet(Working(r)) /\ Cardinality(Working(r)) \in Nat
BY ModelsFinite, FS_Subset, FS_CardinalityType DEF Working

(* Candidates that change their state and nothing else of it.              *)
LEMMA CandidateType ==
  /\ \A st \in {"absent", "queued", "asking", "ended", "failed", "cancelled"},
        calls \in 0..(MaxCalls * MaxToolRounds), passed \in BOOLEAN :
       Candidate(st, 0, calls, passed) \in Candidates
  /\ 0 \in 0..(MaxCalls * MaxToolRounds)
<1>1. 0 \in 0..MaxToolRounds
  BY ArbitrationAssumption
<1>2. MaxCalls * MaxToolRounds \in Nat
  BY ArbitrationAssumption
<1> QED
  BY <1>1, <1>2 DEF Candidate, Candidates

LEMMA EndType ==
  ASSUME TypeOK, NEW r \in Runs, NEW c \in Models, NEW calls \in 0..(MaxCalls * MaxToolRounds),
         NEW passed \in BOOLEAN, End(r, c, calls, passed)
  PROVE  /\ cand' \in [Runs -> [Models -> Candidates]]
         /\ cand'[r][c] = Candidate("ended", 0, calls, passed)
         /\ \A s \in Runs, d \in Models : <<s, d>> # <<r, c>> => cand'[s][d] = cand[s][d]
<1>1. Candidate("ended", 0, calls, passed) \in Candidates
  BY CandidateType
<1>2. cand \in [Runs -> [Models -> Candidates]]
  BY DEF TypeOK
<1> QED
  BY <1>1, <1>2 DEF End

LEMMA DeliverType ==
  ASSUME TypeOK, NEW r \in Runs, NEW w \in Models \cup {NoWinner}, Deliver(r, w)
  PROVE  /\ phase' \in [Runs -> Phases] /\ final' \in Contents \union {Missing}
         /\ phase'[r] \in {"returned", "raised"} /\ \A s \in Runs \ {r} : phase'[s] = phase[s]
BY DEF TypeOK, Deliver, Phases

(* One step of one candidate: what happened to its record and the others.  *)
LEMMA StartFields ==
  ASSUME TypeOK, NEW r \in Runs, NEW c \in Models, Start(r, c)
  PROVE  /\ cand' \in [Runs -> [Models -> Candidates]]
         /\ \A s \in Runs, d \in Models : <<s, d>> # <<r, c>> => cand'[s][d] = cand[s][d]
         /\ cand[r][c].st = "queued"
         /\ cand'[r][c].st \in {"asking", "failed"}
         /\ cand'[r][c].passed = cand[r][c].passed
         /\ cand'[r][c].calls = cand[r][c].calls /\ cand'[r][c].rounds = cand[r][c].rounds
<1>1. cand \in [Runs -> [Models -> Candidates]]
  BY DEF TypeOK
<1>2. PICK st \in {"asking", "failed"} : cand' = [cand EXCEPT ![r][c].st = st]
  BY DEF Start, RunOneRaises
<1>3. cand' = [cand EXCEPT ![r] = [cand[r] EXCEPT ![c] = [cand[r][c] EXCEPT !.st = st]]]
  BY <1>2
<1>4. [cand[r][c] EXCEPT !.st = st] \in Candidates
  BY <1>1 DEF Candidates
<1> QED
  BY <1>1, <1>3, <1>4 DEF Start, MayStart, Is, Candidates

(* Counting a round and its calls leaves the rest of the record.           *)
LEMMA RoundCounted ==
  ASSUME NEW x \in Candidates, NEW a, NEW b
  PROVE  [x EXCEPT !.rounds = a, !.calls = b]
           = [st |-> x.st, rounds |-> a, calls |-> b, passed |-> x.passed]
<1> DEFINE y == [st |-> x.st, rounds |-> a, calls |-> x.calls, passed |-> x.passed]
<1>1. [x EXCEPT !.rounds = a] = y
  BY DEF Candidates
<1>2. [y EXCEPT !.calls = b] = [st |-> x.st, rounds |-> a, calls |-> b, passed |-> x.passed]
  OBVIOUS
<1>3. [x EXCEPT !.rounds = a, !.calls = b] = [[x EXCEPT !.rounds = a] EXCEPT !.calls = b]
  BY Zenon
<1> HIDE DEF y
<1> QED
  BY <1>1, <1>2, <1>3

LEMMA ToolRoundFields ==
  ASSUME TypeOK, CallsBounded, NEW r \in Runs, NEW c \in Models, ToolRound(r, c)
  PROVE  /\ cand' \in [Runs -> [Models -> Candidates]]
         /\ \A s \in Runs, d \in Models : <<s, d>> # <<r, c>> => cand'[s][d] = cand[s][d]
         /\ cand[r][c].st = "asking" /\ cand'[r][c].st = "asking"
         /\ cand'[r][c].passed = cand[r][c].passed
         /\ cand'[r][c].calls <= MaxCalls * cand'[r][c].rounds
<1>1. cand \in [Runs -> [Models -> Candidates]]
  BY DEF TypeOK
<1>2. PICK n \in 1..MaxCalls :
        cand' = [cand EXCEPT ![r][c].rounds = @ + 1, ![r][c].calls = @ + n]
  BY DEF ToolRound
<1> DEFINE new == [cand[r][c] EXCEPT !.rounds = @ + 1, !.calls = @ + n]
<1>3. cand' = [cand EXCEPT ![r] = [cand[r] EXCEPT ![c] = new]]
  BY <1>1, <1>2 DEF Candidates
<1>4. /\ cand[r][c].calls \in Nat /\ cand[r][c].rounds \in Nat
      /\ cand[r][c].calls <= MaxCalls * cand[r][c].rounds /\ cand[r][c].rounds < MaxToolRounds
      /\ cand[r][c].st = "asking"
  BY CandidateFields DEF ToolRound, RoundsLeft, CallsBounded, Is
<1>5. /\ cand[r][c].calls + n <= MaxCalls * (cand[r][c].rounds + 1)
      /\ cand[r][c].calls + n \in 0..(MaxCalls * MaxToolRounds)
      /\ cand[r][c].rounds + 1 \in 0..MaxToolRounds
  BY <1>4, CallsGrow, ArbitrationAssumption
<1>6. /\ new \in Candidates /\ new.st = "asking" /\ new.passed = cand[r][c].passed
      /\ new.rounds = cand[r][c].rounds + 1 /\ new.calls = cand[r][c].calls + n
  <2>1. PICK x \in Candidates : x = cand[r][c]
    BY <1>1
  <2>2. PICK rounds \in 0..MaxToolRounds, calls \in 0..(MaxCalls * MaxToolRounds) :
          rounds = cand[r][c].rounds + 1 /\ calls = cand[r][c].calls + n
    BY <1>5
  <2>3. new = [x EXCEPT !.rounds = rounds, !.calls = calls]
    BY <2>1, <2>2, Zenon
  <2>4. [x EXCEPT !.rounds = rounds, !.calls = calls]
          = [st |-> x.st, rounds |-> rounds, calls |-> calls, passed |-> x.passed]
    BY RoundCounted
  <2> HIDE DEF new
  <2> QED
    BY <2>1, <2>2, <2>3, <2>4, <1>4 DEF Candidates
<1> HIDE DEF new
<1> QED
  BY <1>1, <1>3, <1>4, <1>5, <1>6

(* Before run() has begun nothing is known of its candidates.              *)
Untouched == \A r \in Runs, c \in Models : phase[r] = "idle" => cand[r][c].st = "absent"

Core == TypeOK /\ CallsBounded /\ Balance /\ Untouched

(* One candidate of one run changes its state: who is working then.        *)
LEMMA WorkingChange ==
  ASSUME NEW r \in Runs, NEW c \in Models,
         \A s \in Runs, d \in Models : <<s, d>> # <<r, c>> => cand'[s][d].st = cand[s][d].st
  PROVE  /\ \A s \in Runs \ {r} : Working(s)' = Working(s)
         /\ cand'[r][c].st = "asking" => Working(r)' = Working(r) \cup {c}
         /\ cand'[r][c].st # "asking" => Working(r)' = Working(r) \ {c}
         /\ c \in Working(r) <=> cand[r][c].st = "asking"
BY DEF Working, Is

LEMMA EndBalance ==
  ASSUME Core, NEW r \in Runs, NEW c \in Models, cand[r][c].st = "asking",
         NEW calls \in 0..(MaxCalls * MaxToolRounds), NEW passed \in BOOLEAN,
         End(r, c, calls, passed)
  PROVE  permits' \in [Runs -> 0..Concurrency] /\ Balance'
<1>0. /\ cand'[r][c] = Candidate("ended", 0, calls, passed)
      /\ \A s \in Runs, d \in Models : <<s, d>> # <<r, c>> => cand'[s][d] = cand[s][d]
  BY EndType DEF Core
<1>1. /\ cand'[r][c].st = "ended"
      /\ \A s \in Runs, d \in Models : <<s, d>> # <<r, c>> => cand'[s][d].st = cand[s][d].st
  BY <1>0 DEF Candidate
<1>2. /\ \A s \in Runs \ {r} : Working(s)' = Working(s)
      /\ Working(r)' = Working(r) \ {c} /\ c \in Working(r)
  BY <1>1, WorkingChange
<1>3. Cardinality(Working(r)') = Cardinality(Working(r)) - 1 /\ Cardinality(Working(r)') \in Nat
  BY <1>2, WorkingFinite, FS_RemoveElement, FS_CardinalityType
<1>4. permits \in [Runs -> 0..Concurrency] /\ Concurrency \in Nat
  BY ArbitrationAssumption DEF Core, TypeOK
<1>5. permits[r] + Cardinality(Working(r)) = Concurrency
  BY DEF Core, Balance
<1>6. permits[r] + 1 \in 0..Concurrency /\ permits[r] + 1 + Cardinality(Working(r)') = Concurrency
  BY <1>3, <1>4, <1>5, WorkingFinite
<1>7. permits' = [permits EXCEPT ![r] = @ + 1]
  BY DEF End
<1>8. permits' \in [Runs -> 0..Concurrency] /\ permits'[r] = permits[r] + 1
      /\ \A s \in Runs \ {r} : permits'[s] = permits[s]
  BY <1>4, <1>6, <1>7
<1>9. Balance'
  <2>1. ASSUME NEW s \in Runs, s # r PROVE permits'[s] + Cardinality(Working(s)') = Concurrency
    BY <1>2, <1>8, <2>1 DEF Core, Balance
  <2>2. permits'[r] + Cardinality(Working(r)') = Concurrency
    BY <1>6, <1>8
  <2> QED
    BY <2>1, <2>2 DEF Balance
<1> QED
  BY <1>8, <1>9

LEMMA StartBalance ==
  ASSUME Core, NEW r \in Runs, NEW c \in Models, Start(r, c)
  PROVE  permits' \in [Runs -> 0..Concurrency] /\ Balance'
<1>1. /\ cand[r][c].st = "queued"
      /\ \A s \in Runs, d \in Models : <<s, d>> # <<r, c>> => cand'[s][d] = cand[s][d]
  BY StartFields DEF Core
<1>2. permits \in [Runs -> 0..Concurrency] /\ Concurrency \in Nat /\ permits[r] > 0
  BY ArbitrationAssumption DEF Core, TypeOK, Start, MayStart
<1>3. permits[r] + Cardinality(Working(r)) = Concurrency
  BY DEF Core, Balance
<1>4. \A s \in Runs \ {r} : Working(s)' = Working(s)
  BY <1>1, WorkingChange
<1>5. c \notin Working(r)
  BY <1>1 DEF Working, Is
<1>6. CASE cand'[r][c].st = "asking"
  <2>1. Working(r)' = Working(r) \cup {c}
    BY <1>1, <1>6, WorkingChange
  <2>2. Cardinality(Working(r)') = Cardinality(Working(r)) + 1
    BY <1>5, <2>1, WorkingFinite, FS_AddElement
  <2>3. permits' = [permits EXCEPT ![r] = @ - 1]
    <3>1. cand \in [Runs -> [Models -> Candidates]]
      BY DEF Core, TypeOK
    <3>2. cand' # [cand EXCEPT ![r][c].st = "failed"]
      BY <1>6, <3>1 DEF Candidates
    <3> QED
      BY <3>2 DEF Start, RunOneRaises
  <2>4. permits[r] - 1 \in 0..Concurrency
        /\ permits[r] - 1 + Cardinality(Working(r)') = Concurrency
    BY <1>2, <1>3, <2>2, WorkingFinite
  <2>5. permits' \in [Runs -> 0..Concurrency] /\ permits'[r] = permits[r] - 1
        /\ \A s \in Runs \ {r} : permits'[s] = permits[s]
    BY <1>2, <2>3, <2>4
  <2>6. ASSUME NEW s \in Runs, s # r PROVE permits'[s] + Cardinality(Working(s)') = Concurrency
    BY <1>4, <2>5, <2>6 DEF Core, Balance
  <2>7. permits'[r] + Cardinality(Working(r)') = Concurrency
    BY <2>4, <2>5
  <2> QED
    BY <2>5, <2>6, <2>7 DEF Balance
<1>7. CASE cand'[r][c].st # "asking"
  <2>0. \A s \in Runs, d \in Models : <<s, d>> # <<r, c>> => cand'[s][d].st = cand[s][d].st
    BY <1>1
  <2>1. Working(r)' = Working(r)
    <3>1. Working(r)' = Working(r) \ {c}
      BY <2>0, <1>7, WorkingChange
    <3> QED
      BY <3>1, <1>5
  <2>2. permits' = permits
    <3>1. cand \in [Runs -> [Models -> Candidates]]
      BY DEF Core, TypeOK
    <3>2. cand' # [cand EXCEPT ![r][c].st = "asking"]
      BY <1>7, <3>1 DEF Candidates
    <3> QED
      BY <3>2 DEF Start
  <2> QED
    BY <1>2, <1>4, <2>1, <2>2 DEF Core, Balance
<1> QED
  BY <1>6, <1>7

(* What a run does to the records of its candidates all at once.           *)
LEMMA BeginFields ==
  ASSUME Core, NEW r \in Runs, Begin(r)
  PROVE  /\ cand' \in [Runs -> [Models -> Candidates]]
         /\ \A s \in Runs \ {r} : cand'[s] = cand[s]
         /\ \A c \in Models : cand'[r][c] = Candidate("queued", 0, 0, FALSE)
<1>1. Candidate("queued", 0, 0, FALSE) \in Candidates
  BY CandidateType
<1>2. cand \in [Runs -> [Models -> Candidates]]
  BY DEF Core, TypeOK
<1> QED
  BY <1>1, <1>2 DEF Begin

LEMMA CloseFields ==
  ASSUME Core, NEW r \in Runs, Close(r)
  PROVE  /\ cand' \in [Runs -> [Models -> Candidates]]
         /\ \A s \in Runs \ {r} : cand'[s] = cand[s]
         /\ \A c \in Models : \/ (c \in Unfinished(r) /\ cand'[r][c] = Candidate("cancelled", 0, 0, FALSE))
                             \/ (c \notin Unfinished(r) /\ cand'[r][c] = cand[r][c])
<1>1. Candidate("cancelled", 0, 0, FALSE) \in Candidates
  BY CandidateType
<1>2. cand \in [Runs -> [Models -> Candidates]]
  BY DEF Core, TypeOK
<1> DEFINE new == [c \in Models |-> IF c \in Unfinished(r)
                                    THEN Candidate("cancelled", 0, 0, FALSE) ELSE cand[r][c]]
<1>3. cand' = [cand EXCEPT ![r] = new]
  BY DEF Close
<1>4. new \in [Models -> Candidates]
  BY <1>1, <1>2
<1> QED
  BY <1>2, <1>3, <1>4

LEMMA CoreStep ==
  Core /\ [Next]_vars => Core'
<1> SUFFICES ASSUME Core, [Next]_vars PROVE Core'
  OBVIOUS
<1>0. /\ TypeOK /\ CallsBounded /\ Balance /\ Untouched
      /\ cand \in [Runs -> [Models -> Candidates]] /\ phase \in [Runs -> Phases]
  BY DEF Core, TypeOK
<1>1. ASSUME NEW r \in Runs, Begin(r) PROVE Core'
  <2>0. /\ cand' \in [Runs -> [Models -> Candidates]]
        /\ \A s \in Runs \ {r} : cand'[s] = cand[s]
        /\ \A c \in Models : cand'[r][c] = Candidate("queued", 0, 0, FALSE)
    BY <1>1, BeginFields
  <2>1. TypeOK'
    BY <1>1, <1>0, <2>0 DEF Begin, TypeOK, Phases
  <2>2. CallsBounded'
    <3>1. 0 <= MaxCalls * 0
      BY ArbitrationAssumption
    <3> QED
      BY <1>0, <2>0, <3>1 DEF CallsBounded, Candidate
  <2>3. Balance'
    <3>1. Working(r)' = {} /\ Working(r) = {}
      BY <1>1, <1>0, <2>0 DEF Begin, Working, Is, Untouched, Candidate
    <3>2. \A s \in Runs \ {r} : Working(s)' = Working(s)
      BY <2>0 DEF Working, Is
    <3>3. permits' = permits
      BY <1>1 DEF Begin
    <3>4. ASSUME NEW s \in Runs PROVE permits'[s] + Cardinality(Working(s)') = Concurrency
      BY <1>0, <3>1, <3>2, <3>3 DEF Balance
    <3> QED
      BY <3>4 DEF Balance
  <2>4. Untouched'
    BY <1>1, <1>0, <2>0 DEF Begin, Untouched, Phases
  <2> QED
    BY <2>1, <2>2, <2>3, <2>4 DEF Core
<1>2. ASSUME NEW r \in Runs, NEW c \in Models, Start(r, c) PROVE Core'
  <2>0. /\ cand' \in [Runs -> [Models -> Candidates]]
        /\ \A s \in Runs, d \in Models : <<s, d>> # <<r, c>> => cand'[s][d] = cand[s][d]
        /\ cand[r][c].st = "queued"
        /\ cand'[r][c].calls = cand[r][c].calls /\ cand'[r][c].rounds = cand[r][c].rounds
    BY <1>2, <1>0, StartFields
  <2>1. permits' \in [Runs -> 0..Concurrency] /\ Balance'
    BY <1>2, StartBalance
  <2>2. phase' \in [Runs -> Phases] /\ \A s \in Runs : phase'[s] = "idle" => phase[s] = "idle"
    BY <1>2, <1>0 DEF Start, RunOneRaises, Phases
  <2>3. TypeOK'
    BY <1>2, <1>0, <2>0, <2>1, <2>2 DEF Start, TypeOK, Phases
  <2>4. CallsBounded'
    BY <1>0, <2>0 DEF CallsBounded
  <2>5. Untouched'
    BY <1>2, <1>0, <2>0, <2>2 DEF Untouched
  <2> QED
    BY <2>1, <2>3, <2>4, <2>5 DEF Core
<1>3. ASSUME NEW r \in Runs, NEW c \in Models, ToolRound(r, c) PROVE Core'
  <2>0. /\ cand' \in [Runs -> [Models -> Candidates]]
        /\ \A s \in Runs, d \in Models : <<s, d>> # <<r, c>> => cand'[s][d] = cand[s][d]
        /\ cand[r][c].st = "asking" /\ cand'[r][c].st = "asking"
        /\ cand'[r][c].calls <= MaxCalls * cand'[r][c].rounds
    BY <1>3, <1>0, ToolRoundFields
  <2>1. TypeOK'
    BY <1>3, <1>0, <2>0 DEF ToolRound, TypeOK, Contents
  <2>2. CallsBounded'
    BY <1>0, <2>0 DEF CallsBounded
  <2>3. Balance'
    <3>1. \A s \in Runs : Working(s)' = Working(s)
      BY <2>0 DEF Working, Is
    <3>2. permits' = permits
      BY <1>3 DEF ToolRound
    <3>3. ASSUME NEW s \in Runs PROVE permits'[s] + Cardinality(Working(s)') = Concurrency
      BY <1>0, <3>1, <3>2 DEF Balance
    <3> QED
      BY <3>3 DEF Balance
  <2>4. Untouched'
    BY <1>3, <1>0, <2>0 DEF ToolRound, Untouched
  <2> QED
    BY <2>1, <2>2, <2>3, <2>4 DEF Core
<1>4. ASSUME NEW r \in Runs, NEW c \in Models, Verify(r, c) \/ Error(r, c) PROVE Core'
  <2>1. PICK calls \in 0..(MaxCalls * MaxToolRounds), passed \in BOOLEAN :
          End(r, c, calls, passed)
    <3>1. cand[r][c].calls \in 0..(MaxCalls * MaxToolRounds)
      BY <1>0 DEF Candidates
    <3>2. CASE Verify(r, c)
      BY <3>1, <3>2 DEF Verify
    <3>3. CASE Error(r, c)
      <4>1. \E passed \in BOOLEAN : End(r, c, 0, passed)
        BY <3>3, Zenon DEF Error
      <4> QED
        BY <4>1, CandidateType
    <3> QED
      BY <1>4, <3>2, <3>3
  <2>2. /\ cand' \in [Runs -> [Models -> Candidates]]
        /\ cand'[r][c] = Candidate("ended", 0, calls, passed)
        /\ \A s \in Runs, d \in Models : <<s, d>> # <<r, c>> => cand'[s][d] = cand[s][d]
    BY <1>0, <2>1, EndType
  <2>3. cand[r][c].st = "asking" /\ cand'[r][c].st = "ended"
    <3>1. cand[r][c].st = "asking"
      BY <1>4 DEF Verify, Error, Is
    <3> QED
      BY <3>1, <2>2 DEF Candidate
  <2>4. permits' \in [Runs -> 0..Concurrency] /\ Balance'
    BY <2>1, <2>3, EndBalance
  <2>5. UNCHANGED <<phase, taken, solution, winner, final>>
    BY <1>4 DEF Verify, Error
  <2>6. TypeOK'
    BY <1>0, <2>2, <2>4, <2>5 DEF TypeOK
  <2>7. CallsBounded'
    BY <1>0, <2>2, <2>3 DEF CallsBounded
  <2>8. Untouched'
    BY <1>0, <2>2, <2>3, <2>5 DEF Untouched
  <2> QED
    BY <2>4, <2>6, <2>7, <2>8 DEF Core
<1>5. ASSUME NEW r \in Runs, Decide(r) \/ Adjudicated(r) PROVE Core'
  <2>1. UNCHANGED <<permits, cand, taken, solution>>
    BY <1>5 DEF Decide, Adjudicated
  <2>2. winner' \in [Runs -> Models \cup {NoWinner}]
    BY <1>5, <1>0, BestExists DEF Decide, Adjudicated, TypeOK
  <2>3. /\ phase' \in [Runs -> Phases] /\ final' \in Contents \cup {Missing}
        /\ phase[r] # "idle" /\ phase'[r] # "idle"
        /\ \A s \in Runs \ {r} : phase'[s] = phase[s]
    <3>1. Best(r) \in Models \cup {NoWinner} /\ winner[r] \in Models \cup {NoWinner}
      BY <1>0, BestExists DEF TypeOK
    <3> QED
      BY <1>5, <1>0, <3>1, DeliverType DEF Decide, Adjudicated, TypeOK, Phases
  <2>4. TypeOK'
    BY <1>0, <2>1, <2>2, <2>3 DEF TypeOK, Phases
  <2>5. CallsBounded' /\ Untouched'
    BY <1>0, <2>1, <2>3 DEF CallsBounded, Untouched
  <2>6. Balance'
    BY <1>0, <2>1 DEF Balance, Working, Is
  <2> QED
    BY <2>4, <2>5, <2>6 DEF Core
<1>6. ASSUME NEW r \in Runs, Close(r) PROVE Core'
  <2>0. /\ cand' \in [Runs -> [Models -> Candidates]]
        /\ \A s \in Runs \ {r} : cand'[s] = cand[s]
        /\ \A c \in Models : \/ (c \in Unfinished(r) /\ cand'[r][c] = Candidate("cancelled", 0, 0, FALSE))
                            \/ (c \notin Unfinished(r) /\ cand'[r][c] = cand[r][c])
    BY <1>6, CloseFields
  <2>1. Working(r)' = {} /\ \A s \in Runs \ {r} : Working(s)' = Working(s)
    BY <2>0 DEF Working, Is, Unfinished, Candidate
  <2>2. permits[r] + Cardinality(Working(r)) = Concurrency /\ Concurrency \in 0..Concurrency
        /\ permits \in [Runs -> 0..Concurrency]
    BY <1>0, ArbitrationAssumption DEF Balance, TypeOK
  <2>3. permits' = [permits EXCEPT ![r] = Concurrency]
    BY <1>6, <2>2 DEF Close
  <2>4. permits' \in [Runs -> 0..Concurrency] /\ permits'[r] = Concurrency
        /\ \A s \in Runs \ {r} : permits'[s] = permits[s]
    BY <2>2, <2>3
  <2>5. Balance'
    <3>1. ASSUME NEW s \in Runs, s # r PROVE permits'[s] + Cardinality(Working(s)') = Concurrency
      BY <1>0, <2>1, <2>4, <3>1 DEF Balance
    <3>2. permits'[r] + Cardinality(Working(r)') = Concurrency
      BY <2>1, <2>4, FS_EmptySet, ArbitrationAssumption
    <3> QED
      BY <3>1, <3>2 DEF Balance
  <2>6. /\ phase' \in [Runs -> Phases] /\ phase[r] # "idle" /\ phase'[r] # "idle"
        /\ \A s \in Runs \ {r} : phase'[s] = phase[s]
    BY <1>6, <1>0 DEF Close, Phases
  <2>7. TypeOK'
    BY <1>6, <1>0, <2>0, <2>4, <2>6 DEF Close, TypeOK, Phases
  <2>8. CallsBounded'
    BY <1>0, <2>0 DEF CallsBounded, Candidate
  <2>9. Untouched'
    BY <1>0, <2>0, <2>6 DEF Untouched
  <2> QED
    BY <2>5, <2>7, <2>8, <2>9 DEF Core
<1>7. CASE UNCHANGED vars
  BY <1>7, <1>0 DEF vars, Core, TypeOK, CallsBounded, Balance, Untouched, Working, Is
<1> QED
  BY <1>1, <1>2, <1>3, <1>4, <1>5, <1>6, <1>7 DEF Next, Reply, Advance

LEMMA CoreInit == Init => Core
<1> SUFFICES ASSUME Init PROVE Core
  OBVIOUS
<1>1. \A r \in Runs, c \in Models : cand[r][c] = Candidate("absent", 0, 0, FALSE)
  BY DEF Init
<1>2. \A r \in Runs, c \in Models : cand[r][c].st = "absent"
  BY <1>1 DEF Candidate
<1>3. TypeOK
  <2>1. Candidate("absent", 0, 0, FALSE) \in Candidates
    BY CandidateType
  <2>2. Concurrency \in 0..Concurrency
    BY ArbitrationAssumption
  <2> QED
    BY <2>1, <2>2 DEF Init, TypeOK, Phases
<1>4. Balance
  <2>1. \A r \in Runs : Working(r) = {}
    BY <1>2 DEF Working, Is
  <2>2. Cardinality({}) = 0
    BY FS_EmptySet
  <2> QED
    BY <2>1, <2>2, ArbitrationAssumption DEF Init, Balance
<1>5. CallsBounded /\ Untouched
  BY <1>2 DEF CallsBounded, Untouched
<1> QED
  BY <1>3, <1>4, <1>5 DEF Core

LEMMA CoreHolds == Spec => []Core
<1>1. Init => Core
  BY CoreInit
<1>2. Core /\ [Next]_vars => Core'
  BY CoreStep
<1> QED
  BY <1>1, <1>2, PTL DEF Spec

(* Every reachable state of the arbitration is well typed.                 *)
THEOREM TypeCorrect == Spec => []TypeOK
<1>1. Core => TypeOK
  BY DEF Core
<1> QED
  BY <1>1, CoreHolds, PTL

(* However runs fail or are closed, the semaphore of each has exactly the  *)
(* permits its working candidates do not hold, and no more than its        *)
(* concurrency ever work (arbitration.py:293-298).                         *)
THEOREM PermitsHold == Spec => []PermitsBalance
<1>1. Core => PermitsBalance
  <2> SUFFICES ASSUME Core, NEW r \in Runs
               PROVE  /\ Cardinality(Working(r)) <= Concurrency
                      /\ permits[r] + Cardinality(Working(r)) = Concurrency
    BY DEF PermitsBalance
  <2>1. permits[r] \in 0..Concurrency
    BY DEF Core, TypeOK
  <2>2. permits[r] + Cardinality(Working(r)) = Concurrency
    BY DEF Core, Balance
  <2> QED
    BY <2>1, <2>2, WorkingFinite, ArbitrationAssumption
<1> QED
  BY <1>1, CoreHolds, PTL

-----------------------------------------------------------------------------
(* Workspaces                                                              *)

(* A workspace is taken once; who works in it or has ended in it took it,  *)
(* and a candidate passed on what is still there.                          *)
Owned ==
  /\ \A c \in Models : taken[c] = {} \/ \E r \in Runs : taken[c] = {r}
  /\ \A r \in Runs, c \in Models : cand[r][c].st \in {"asking", "ended"} => taken[c] = {r}
  /\ \A r \in Runs, c \in Models :
       cand[r][c].passed => cand[r][c].st = "ended" /\ solution[c] = "right"

LEMMA OwnedStep ==
  Core /\ Owned /\ [Next]_vars => Owned'
<1> SUFFICES ASSUME Core, Owned, [Next]_vars PROVE Owned'
  OBVIOUS
<1>0. /\ TypeOK /\ CallsBounded
      /\ cand \in [Runs -> [Models -> Candidates]]
      /\ taken \in [Models -> SUBSET Runs]
      /\ solution \in [Models -> Contents \cup {Missing}]
  BY DEF Core, TypeOK
<1>1. ASSUME NEW r \in Runs, Begin(r) PROVE Owned'
  <2>1. /\ \A s \in Runs \ {r} : cand'[s] = cand[s]
        /\ \A c \in Models : cand'[r][c].st = "queued" /\ ~cand'[r][c].passed
    BY <1>1, BeginFields DEF Candidate
  <2>2. UNCHANGED <<taken, solution>>
    BY <1>1 DEF Begin
  <2>3. ASSUME NEW s \in Runs, NEW c \in Models
        PROVE  /\ cand'[s][c].st \in {"asking", "ended"} => taken'[c] = {s}
               /\ cand'[s][c].passed => cand'[s][c].st = "ended" /\ solution'[c] = "right"
    BY <2>1, <2>2 DEF Owned
  <2> QED
    BY <2>2, <2>3 DEF Owned
<1>2. ASSUME NEW r \in Runs, NEW c \in Models, Start(r, c) PROVE Owned'
  <2>1. /\ \A s \in Runs, d \in Models : <<s, d>> # <<r, c>> => cand'[s][d] = cand[s][d]
        /\ cand[r][c].st = "queued"
        /\ cand'[r][c].st \in {"asking", "failed"}
        /\ cand'[r][c].passed = cand[r][c].passed
    BY <1>2, <1>0, StartFields
  <2>2. UNCHANGED solution
    BY <1>2 DEF Start
  <2>3. /\ \A d \in Models : d # c => taken'[d] = taken[d]
        /\ \/ (taken[c] = {} /\ taken'[c] = {r})
           \/ (taken'[c] = taken[c] /\ cand'[r][c].st = "failed")
    <3>1. CASE taken[c] = {} /\ taken' = [taken EXCEPT ![c] = @ \union {r}]
      BY <3>1, <1>0
    <3>2. CASE taken' = taken /\ cand' = [cand EXCEPT ![r][c].st = "failed"]
      BY <3>2, <1>0 DEF Candidates
    <3> QED
      BY <1>2, <3>1, <3>2 DEF Start, FreshWorkspace, RunOneRaises
  <2>4. ~cand[r][c].passed
    BY <2>1 DEF Owned
  <2>5. ASSUME NEW s \in Runs, NEW d \in Models
        PROVE  /\ cand'[s][d].st \in {"asking", "ended"} => taken'[d] = {s}
               /\ cand'[s][d].passed => cand'[s][d].st = "ended" /\ solution'[d] = "right"
    <3>1. CASE s = r /\ d = c
      BY <2>1, <2>3, <2>4, <3>1
    <3>2. CASE <<s, d>> # <<r, c>>
      <4>1. cand'[s][d] = cand[s][d]
        BY <2>1, <3>2
      <4>2. cand[s][d].st \in {"asking", "ended"} => taken[d] = {s} /\ taken[d] # {}
        BY DEF Owned
      <4>3. cand[s][d].st \in {"asking", "ended"} => taken'[d] = {s}
        BY <2>3, <4>2
      <4> QED
        BY <2>2, <4>1, <4>3 DEF Owned
    <3> QED
      BY <3>1, <3>2
  <2>6. \A d \in Models : taken'[d] = {} \/ \E s \in Runs : taken'[d] = {s}
    BY <2>3 DEF Owned
  <2> QED
    BY <2>5, <2>6 DEF Owned
<1>3. ASSUME NEW r \in Runs, NEW c \in Models, ToolRound(r, c) PROVE Owned'
  <2>1. /\ \A s \in Runs, d \in Models : <<s, d>> # <<r, c>> => cand'[s][d] = cand[s][d]
        /\ cand[r][c].st = "asking" /\ cand'[r][c].st = "asking"
        /\ cand'[r][c].passed = cand[r][c].passed
    BY <1>3, <1>0, ToolRoundFields
  <2>2. taken' = taken /\ \A d \in Models : d # c => solution'[d] = solution[d]
    BY <1>3, <1>0 DEF ToolRound
  <2>3. \A s \in Runs : ~cand[s][c].passed
    BY <2>1 DEF Owned
  <2> QED
    BY <2>1, <2>2, <2>3 DEF Owned
<1>4. ASSUME NEW r \in Runs, NEW c \in Models, Verify(r, c) \/ Error(r, c) PROVE Owned'
  <2>1. PICK calls \in 0..(MaxCalls * MaxToolRounds), passed \in BOOLEAN :
          End(r, c, calls, passed) /\ (passed => solution[c] = "right")
    <3>1. cand[r][c].calls \in 0..(MaxCalls * MaxToolRounds)
      BY <1>0 DEF Candidates
    <3>2. CASE Verify(r, c)
      BY <3>1, <3>2 DEF Verify
    <3>3. CASE Error(r, c)
      <4>1. \E passed \in BOOLEAN : End(r, c, 0, passed) /\ ~passed
        BY <3>3, Zenon DEF Error
      <4> QED
        BY <4>1, CandidateType
    <3> QED
      BY <1>4, <3>2, <3>3
  <2>2. /\ cand'[r][c].st = "ended" /\ cand'[r][c].passed = passed
        /\ \A s \in Runs, d \in Models : <<s, d>> # <<r, c>> => cand'[s][d] = cand[s][d]
    <3>1. /\ cand'[r][c] = Candidate("ended", 0, calls, passed)
          /\ \A s \in Runs, d \in Models : <<s, d>> # <<r, c>> => cand'[s][d] = cand[s][d]
      BY <1>0, <2>1, EndType
    <3> QED
      BY <3>1 DEF Candidate
  <2>3. cand[r][c].st = "asking" /\ UNCHANGED <<taken, solution>>
    BY <1>4 DEF Verify, Error, Is
  <2> QED
    BY <2>1, <2>2, <2>3 DEF Owned
<1>5. ASSUME NEW r \in Runs, Decide(r) \/ Adjudicated(r) PROVE Owned'
  BY <1>5 DEF Decide, Adjudicated, Owned
<1>6. ASSUME NEW r \in Runs, Close(r) PROVE Owned'
  <2>1. /\ \A s \in Runs \ {r} : cand'[s] = cand[s]
        /\ \A c \in Models : \/ (cand'[r][c].st = "cancelled" /\ ~cand'[r][c].passed)
                            \/ cand'[r][c] = cand[r][c]
    BY <1>6, CloseFields DEF Candidate
  <2>2. UNCHANGED <<taken, solution>>
    BY <1>6 DEF Close
  <2>3. ASSUME NEW s \in Runs, NEW c \in Models
        PROVE  /\ cand'[s][c].st \in {"asking", "ended"} => taken'[c] = {s}
               /\ cand'[s][c].passed => cand'[s][c].st = "ended" /\ solution'[c] = "right"
    BY <2>1, <2>2 DEF Owned
  <2> QED
    BY <2>2, <2>3 DEF Owned
<1>7. CASE UNCHANGED vars
  BY <1>7 DEF vars, Owned
<1> QED
  BY <1>1, <1>2, <1>3, <1>4, <1>5, <1>6, <1>7 DEF Next, Reply, Advance

LEMMA OwnedHolds == Spec => [](Core /\ Owned)
<1>1. Init => Owned
  BY DEF Init, Owned, Candidate
<1>2. Core /\ Owned /\ [Next]_vars => Owned'
  BY OwnedStep
<1> QED
  BY <1>1, <1>2, CoreHolds, PTL DEF Spec

(* Whatever runs overlap in one workspace root, and whatever stragglers a  *)
(* raised run leaves, a candidate that passed did so on what its workspace *)
(* still holds, and nobody else ever worked there (arbitration.py:187).    *)
THEOREM WorkspacesStayIsolated == Spec => []WorkspacesIsolated
<1>1. Owned => WorkspacesIsolated
  <2> SUFFICES ASSUME Owned PROVE WorkspacesIsolated
    OBVIOUS
  <2>1. ASSUME NEW c \in Models PROVE Cardinality(taken[c]) <= 1
    <3>1. CASE taken[c] = {}
      BY <3>1, FS_EmptySet
    <3>2. CASE \E r \in Runs : taken[c] = {r}
      BY <3>2, FS_Singleton
    <3> QED
      BY <3>1, <3>2 DEF Owned
  <2> QED
    BY <2>1 DEF Owned, WorkspacesIsolated
<1> QED
  BY <1>1, OwnedHolds, PTL

-----------------------------------------------------------------------------
(* The winner                                                              *)

(* What Best(r) is: it comes before every other candidate that passed.     *)
First(r, w) ==
  IF Passing(r) = {} THEN w = NoWinner
  ELSE w \in Passing(r) /\ \A d \in Passing(r) \ {w} : Before(r, w, d)

(* Once a run has decided, its candidates are as they were when it did.    *)
Decided ==
  /\ final \in {Missing, "right"}
  /\ \A r \in Runs : phase[r] \in {"adjudicating", "returned"} =>
       (\A c \in Models : Is(r, c, "ended")) /\ First(r, winner[r])

LEMMA StaysDecided ==
  ASSUME Decided, NEW s \in Runs, phase[s] \in {"adjudicating", "returned"},
         cand'[s] = cand[s], winner'[s] = winner[s]
  PROVE  (\A d \in Models : Is(s, d, "ended")') /\ First(s, winner[s])'
<1>1. Passing(s)' = Passing(s)
  BY DEF Passing
<1>2. \A c, d : Before(s, c, d)' <=> Before(s, c, d)
  BY DEF Before
<1>3. First(s, winner[s])' <=> First(s, winner[s])
  BY <1>1, <1>2 DEF First
<1> QED
  BY <1>3 DEF Decided, Is

(* A step of one candidate: its run has not decided, the others' records   *)
(* are as they were.                                                       *)
LEMMA CandidateStep ==
  ASSUME Core, Decided, NEW r \in Runs, NEW c \in Models, Start(r, c) \/ Reply(r, c)
  PROVE  Decided'
<1>0. /\ TypeOK /\ CallsBounded /\ cand \in [Runs -> [Models -> Candidates]]
      /\ phase \in [Runs -> Phases]
  BY DEF Core, TypeOK
<1>1. /\ phase[r] \in {"gathering", "raised"} /\ UNCHANGED <<winner, final>>
      /\ phase'[r] \in {"gathering", "raised"} /\ \A s \in Runs \ {r} : phase'[s] = phase[s]
  BY <1>0 DEF Start, Reply, ToolRound, Verify, Error, RunOneRaises
<1>2. /\ cand' \in [Runs -> [Models -> Candidates]]
      /\ \A s \in Runs, d \in Models : <<s, d>> # <<r, c>> => cand'[s][d] = cand[s][d]
  <2>1. CASE Start(r, c)
    BY <2>1, <1>0, StartFields
  <2>2. CASE ToolRound(r, c)
    BY <2>2, <1>0, ToolRoundFields
  <2>3. CASE Verify(r, c) \/ Error(r, c)
    <3>1. cand[r][c].calls \in 0..(MaxCalls * MaxToolRounds)
      BY <1>0 DEF Candidates
    <3>2. PICK calls \in 0..(MaxCalls * MaxToolRounds), passed \in BOOLEAN :
            End(r, c, calls, passed)
      <4>1. CASE Verify(r, c)
        BY <4>1, <3>1 DEF Verify
      <4>2. CASE Error(r, c)
        <5>1. \E passed \in BOOLEAN : End(r, c, 0, passed)
          BY <4>2, Zenon DEF Error
        <5> QED
          BY <5>1, CandidateType
      <4> QED
        BY <2>3, <4>1, <4>2
    <3> QED
      BY <1>0, <3>2, EndType
  <2> QED
    BY <2>1, <2>2, <2>3 DEF Reply
<1>3. \A s \in Runs \ {r} : cand'[s] = cand[s]
  BY <1>0, <1>2
<1>4. ASSUME NEW s \in Runs, phase'[s] \in {"adjudicating", "returned"}
      PROVE  (\A d \in Models : Is(s, d, "ended")') /\ First(s, winner[s])'
  <2>1. s # r /\ phase[s] = phase'[s]
    BY <1>1, <1>4
  <2>2. cand'[s] = cand[s]
    BY <1>3, <2>1
  <2> QED
    BY <1>1, <1>4, <2>1, <2>2, StaysDecided
<1> QED
  BY <1>1, <1>4 DEF Decided

LEMMA DecidedStep ==
  Core /\ Owned /\ Decided /\ [Next]_vars => Decided'
<1> SUFFICES ASSUME Core, Owned, Decided, [Next]_vars PROVE Decided'
  OBVIOUS
<1>0. /\ TypeOK /\ cand \in [Runs -> [Models -> Candidates]]
      /\ phase \in [Runs -> Phases]
  BY DEF Core, TypeOK
<1>1. ASSUME NEW r \in Runs, Begin(r) \/ Close(r) PROVE Decided'
  <2>1. \A s \in Runs \ {r} : cand'[s] = cand[s]
    BY <1>1, BeginFields, CloseFields
  <2>2. /\ phase'[r] \in {"gathering", "closed"} /\ UNCHANGED <<winner, final>>
        /\ \A s \in Runs \ {r} : phase'[s] = phase[s]
    BY <1>0, <1>1 DEF Begin, Close
  <2>3. ASSUME NEW s \in Runs, phase'[s] \in {"adjudicating", "returned"}
        PROVE  (\A d \in Models : Is(s, d, "ended")') /\ First(s, winner[s])'
    <3>1. s # r
      BY <2>2, <2>3
    <3>2. cand'[s] = cand[s]
      BY <2>1, <3>1
    <3> QED
      BY <2>2, <2>3, <3>1, <3>2, StaysDecided
  <2> QED
    BY <2>2, <2>3 DEF Decided
<1>2. ASSUME NEW r \in Runs, NEW c \in Models, Start(r, c) \/ Reply(r, c) PROVE Decided'
  BY <1>2, CandidateStep
<1>3. ASSUME NEW r \in Runs, Decide(r) \/ Adjudicated(r) PROVE Decided'
  <2>1. cand' = cand
    BY <1>3 DEF Decide, Adjudicated
  <2>2. \A c \in Models : Is(r, c, "ended")
    BY <1>3 DEF Decide, Adjudicated, Decided
  <2>3. First(r, winner'[r]) /\ \A s \in Runs \ {r} : winner'[s] = winner[s]
    <3>1. First(r, Best(r))
      BY <1>0, BestExists DEF First
    <3> QED
      BY <1>0, <1>3, <3>1 DEF Decide, Adjudicated, Decided, TypeOK
  <2>4. \A s \in Runs \ {r} : phase'[s] = phase[s]
    BY <1>0, <1>3 DEF Decide, Adjudicated, Deliver
  <2>5. final' \in {Missing, "right"}
    <3>1. winner'[r] = NoWinner \/ solution[winner'[r]] = "right"
      BY <2>3 DEF First, Passing, Owned
    <3>2. final' = final \/ Deliver(r, winner'[r])
      BY <1>0, <1>3 DEF Decide, Adjudicated, TypeOK
    <3>3. final' = final \/ (winner'[r] # NoWinner /\ final' = solution[winner'[r]])
      BY <3>2 DEF Deliver
    <3> QED
      BY <3>1, <3>3 DEF Decided
  <2>6. ASSUME NEW s \in Runs, phase'[s] \in {"adjudicating", "returned"}
        PROVE  (\A d \in Models : Is(s, d, "ended")') /\ First(s, winner[s])'
    <3>2. CASE s = r
      <4>1. Passing(r)' = Passing(r) /\ \A c, d : Before(r, c, d)' <=> Before(r, c, d)
        BY <2>1 DEF Passing, Before
      <4> QED
        BY <2>1, <2>2, <2>3, <3>2, <4>1 DEF First, Is
    <3>3. CASE s # r
      BY <2>1, <2>3, <2>4, <2>6, <3>3, StaysDecided
    <3> QED
      BY <3>2, <3>3
  <2> QED
    BY <2>5, <2>6 DEF Decided
<1>4. CASE UNCHANGED vars
  <2>1. ASSUME NEW s \in Runs, phase'[s] \in {"adjudicating", "returned"}
        PROVE  (\A d \in Models : Is(s, d, "ended")') /\ First(s, winner[s])'
    BY <1>4, <2>1, StaysDecided DEF vars
  <2> QED
    BY <1>4, <2>1 DEF vars, Decided
<1> QED
  BY <1>1, <1>2, <1>3, <1>4 DEF Next, Advance

(* A run picks a winner only when all its candidates ended: one that the   *)
(* checker passed and that no other passing candidate precedes by the key  *)
(* (-tool_calls, model); it has none only if none passed; and final_work-  *)
(* space never gets a solution that did not pass (arbitration.py:309-328). *)
THEOREM WinnerHolds == Spec => []WinnerIsBest
<1>1. Init => Decided
  BY DEF Init, Decided
<1>2. Core /\ Owned /\ Decided /\ [Next]_vars => Decided'
  BY DecidedStep
<1>3. Core /\ Decided => WinnerIsBest
  <2> SUFFICES ASSUME Core, Decided PROVE WinnerIsBest
    OBVIOUS
  <2>1. ASSUME NEW r \in Runs, phase[r] \in {"adjudicating", "returned"}
        PROVE  /\ \A c \in Models : Is(r, c, "ended")
               /\ winner[r] = NoWinner => \A c \in Models : ~cand[r][c].passed
               /\ winner[r] # NoWinner =>
                    /\ cand[r][winner[r]].passed
                    /\ \A c \in Models \ {winner[r]} : cand[r][c].passed =>
                         \/ cand[r][c].calls < cand[r][winner[r]].calls
                         \/ /\ cand[r][c].calls = cand[r][winner[r]].calls
                            /\ NameRank[winner[r]] < NameRank[c]
    <3>1. First(r, winner[r]) /\ \A c \in Models : Is(r, c, "ended")
      BY <2>1 DEF Decided
    <3>2. NoWinner \notin Models
      BY DEF NoWinner, Models
    <3>3. CASE Passing(r) = {}
      BY <3>1, <3>3 DEF First, Passing
    <3>4. CASE Passing(r) # {}
      <4>1. winner[r] # NoWinner /\ winner[r] \in Models /\ cand[r][winner[r]].passed
        BY <3>1, <3>2, <3>4 DEF First, Passing
      <4>2. ASSUME NEW c \in Models \ {winner[r]}, cand[r][c].passed
            PROVE  \/ cand[r][c].calls < cand[r][winner[r]].calls
                   \/ /\ cand[r][c].calls = cand[r][winner[r]].calls
                      /\ NameRank[winner[r]] < NameRank[c]
        <5>1. Before(r, winner[r], c)
          BY <3>1, <3>4, <4>2 DEF First, Passing
        <5>2. cand[r][c].calls \in Nat /\ cand[r][winner[r]].calls \in Nat
          BY <4>1, CandidateFields DEF Core
        <5> QED
          BY <5>1, <5>2 DEF Before
      <4> QED
        BY <3>1, <4>1, <4>2
    <3> QED
      BY <3>3, <3>4
  <2> QED
    BY <2>1 DEF Decided, WinnerIsBest
<1> QED
  BY <1>1, <1>2, <1>3, OwnedHolds, PTL DEF Spec
=============================================================================
