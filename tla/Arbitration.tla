---------------------------- MODULE Arbitration -----------------------------
(***************************************************************************)
(* cortex_v5/arbitration.py: run() gives every model a workspace of its    *)
(* own and a tool loop, verifies each workspace mechanically and picks the *)
(* winner among the candidates that passed.                                *)
(*                                                                         *)
(* A candidate is the index of its model; the name of its workspace        *)
(* depends on the model alone, so runs over one workspace_root meet in the *)
(* same directories.  A completion is the only thing a candidate awaits:   *)
(* tools and checker are called synchronously, so what happens from one    *)
(* reply to the next request is one step.  A run that raised leaves its    *)
(* other candidates going (gather does not cancel them) until its event    *)
(* loop is closed.                                                         *)
(***************************************************************************)
EXTENDS Integers, FiniteSets

CONSTANTS Runs,           \* calls of run() over one workspace_root
          ModelCount,     \* length of self.models
          NameRank,       \* rank of a model in the order of the names
          Concurrency,    \* permits of the semaphore
          MaxToolRounds,  \* self.max_tool_rounds
          MaxCalls        \* bound: tool calls in one completion

Models == 1..ModelCount

ASSUME ArbitrationAssumption ==
  /\ IsFiniteSet(Runs)
  /\ ModelCount \in Nat /\ ModelCount >= 2
  /\ Concurrency \in Nat \ {0} /\ MaxToolRounds \in Nat /\ MaxCalls \in Nat \ {0}
  /\ NameRank \in [Models -> Nat]
  /\ \A c, d \in Models : NameRank[c] = NameRank[d] => c = d

NoWinner == 0
Missing == "missing"

VARIABLES
  phase,     \* of a run: idle, gathering, adjudicating, returned, raised, closed
  permits,   \* of a run's semaphore
  cand,      \* of a run and model: its CandidateResult in the making
  taken,     \* of a workspace: the runs whose candidate works in it
  solution,  \* of a workspace: what its solution.py is worth to the checker
  winner,    \* of a run: the model chosen
  final      \* solution.py of final_workspace, which the runs share

vars == <<phase, permits, cand, taken, solution, winner, final>>

Phases == {"idle", "gathering", "adjudicating", "returned", "raised", "closed"}
Contents == {"wrong", "right"}

Candidates == [st : {"absent", "queued", "asking", "ended", "failed", "cancelled"},
               rounds : 0..MaxToolRounds, calls : 0..(MaxCalls * MaxToolRounds), passed : BOOLEAN]

Candidate(st, rounds, calls, passed) ==
  [st |-> st, rounds |-> rounds, calls |-> calls, passed |-> passed]

Init ==
  /\ phase = [r \in Runs |-> "idle"]
  /\ permits = [r \in Runs |-> Concurrency]
  /\ cand = [r \in Runs |-> [c \in Models |-> Candidate("absent", 0, 0, FALSE)]]
  /\ taken = [c \in Models |-> {}]
  /\ solution = [c \in Models |-> Missing]
  /\ winner = [r \in Runs |-> NoWinner]
  /\ final = Missing

Is(r, c, st) == cand[r][c].st = st
Working(r) == {c \in Models : Is(r, c, "asking")}
Unfinished(r) == {c \in Models : cand[r][c].st \in {"queued", "asking"}}

(* gather(...): every run_one is scheduled, in the order of the models.    *)
Begin(r) ==
  /\ phase[r] = "idle"
  /\ phase' = [phase EXCEPT ![r] = "gathering"]
  /\ cand' = [cand EXCEPT ![r] = [c \in Models |-> Candidate("queued", 0, 0, FALSE)]]
  /\ UNCHANGED <<permits, taken, solution, winner, final>>

(* An exception out of _candidate's first lines leaves run_one, frees the  *)
(* permit and makes gather raise; a run that raised before stays so.       *)
RunOneRaises(r, c) ==
  /\ cand' = [cand EXCEPT ![r][c].st = "failed"]
  /\ phase' = [phase EXCEPT ![r] = IF @ = "gathering" THEN "raised" ELSE @]

(* Mutant of FreshWorkspace: mkdir(exist_ok=True).                         *)
FreshWorkspaceOrNot(c) == TRUE

FreshWorkspace(c) == taken[c] = {}

(* Mutant of MayStart: run_one without the semaphore.                      *)
MayStartAtOnce(r, c) == Is(r, c, "queued")

(* The semaphore admits its waiters first come first served.               *)
MayStart(r, c) ==
  /\ Is(r, c, "queued")
  /\ permits[r] > 0
  /\ \A d \in Models : d < c => ~Is(r, d, "queued")

(* The candidate takes its workspace, prepares it and sends the first      *)
(* request, or fails at either of the first two.                           *)
Start(r, c) ==
  /\ phase[r] \in {"gathering", "raised"}
  /\ MayStart(r, c)
  /\ \/ /\ FreshWorkspace(c)
        /\ taken' = [taken EXCEPT ![c] = @ \union {r}]
        /\ cand' = [cand EXCEPT ![r][c].st = "asking"]
        /\ permits' = [permits EXCEPT ![r] = @ - 1]
        /\ UNCHANGED phase
     \/ /\ FreshWorkspace(c)                       \* prepare_workspace raises
        /\ taken' = [taken EXCEPT ![c] = @ \union {r}]
        /\ RunOneRaises(r, c)
        /\ UNCHANGED permits
     \/ /\ ~FreshWorkspace(c)                      \* FileExistsError
        /\ RunOneRaises(r, c)
        /\ UNCHANGED <<taken, permits>>
  /\ UNCHANGED <<solution, winner, final>>

(* Mutant of RoundsLeft: off by one.                                       *)
RoundsLeftInclusive(r, c) == cand[r][c].rounds <= MaxToolRounds

RoundsLeft(r, c) == cand[r][c].rounds < MaxToolRounds

(* The completion has tool calls: they are executed in the workspace, and  *)
(* the next request is sent.                                               *)
ToolRound(r, c) ==
  /\ Is(r, c, "asking") /\ phase[r] \in {"gathering", "raised"}
  /\ RoundsLeft(r, c)
  /\ \E n \in 1..MaxCalls :
       cand' = [cand EXCEPT ![r][c].rounds = @ + 1, ![r][c].calls = @ + n]
  /\ \E content \in {solution[c]} \union Contents :
       solution' = [solution EXCEPT ![c] = content]
  /\ UNCHANGED <<phase, permits, taken, winner, final>>

(* Mutant of End: an ended candidate keeps its permit.                     *)
EndHolding(r, c, calls, passed) ==
  /\ cand' = [cand EXCEPT ![r][c] = Candidate("ended", 0, calls, passed)]
  /\ UNCHANGED permits

End(r, c, calls, passed) ==
  /\ cand' = [cand EXCEPT ![r][c] = Candidate("ended", 0, calls, passed)]
  /\ permits' = [permits EXCEPT ![r] = @ + 1]

(* The completion is the final answer: the checker runs on the workspace.  *)
(* It may fail on its own account (a timeout), never pass on it.           *)
Verify(r, c) ==
  /\ Is(r, c, "asking") /\ phase[r] \in {"gathering", "raised"}
  /\ \E inTime \in BOOLEAN :
       End(r, c, cand[r][c].calls, inTime /\ solution[c] = "right")
  /\ UNCHANGED <<phase, taken, solution, winner, final>>

(* The request fails, or asks for tools after the last round: an error     *)
(* result, which counts no tool calls.                                     *)
Error(r, c) ==
  /\ Is(r, c, "asking") /\ phase[r] \in {"gathering", "raised"}
  /\ End(r, c, 0, FALSE)
  /\ UNCHANGED <<phase, taken, solution, winner, final>>

Passing(r) == {c \in Models : cand[r][c].passed}

(* Mutant of Before: the names alone decide.                               *)
BeforeByName(r, c, d) == NameRank[c] < NameRank[d]

(* The sort key (-tool_calls, model).                                      *)
Before(r, c, d) ==
  \/ cand[r][c].calls > cand[r][d].calls
  \/ cand[r][c].calls = cand[r][d].calls /\ NameRank[c] < NameRank[d]

Best(r) ==
  IF Passing(r) = {} THEN NoWinner
  ELSE CHOOSE c \in Passing(r) : \A d \in Passing(r) \ {c} : Before(r, c, d)

(* The winner's solution.py is copied to the final workspace, if it has    *)
(* one; the copy may raise, with the winner already chosen.                *)
Deliver(r, w) ==
  \/ /\ phase' = [phase EXCEPT ![r] = "returned"]
     /\ final' = IF w = NoWinner \/ solution[w] = Missing THEN final ELSE solution[w]
  \/ /\ w # NoWinner
     /\ phase' = [phase EXCEPT ![r] = "raised"]
     /\ UNCHANGED final

(* gather returns: the winner is chosen, and delivered at once when there  *)
(* is no adjudicator to ask.                                               *)
Decide(r) ==
  /\ phase[r] = "gathering"
  /\ \A c \in Models : Is(r, c, "ended")
  /\ winner' = [winner EXCEPT ![r] = Best(r)]
  /\ \/ phase' = [phase EXCEPT ![r] = "adjudicating"] /\ UNCHANGED final
     \/ Deliver(r, Best(r))
  /\ UNCHANGED <<permits, cand, taken, solution>>

(* The adjudicator answered or failed; its answer is recorded only as a    *)
(* digest.                                                                 *)
Adjudicated(r) ==
  /\ phase[r] = "adjudicating"
  /\ Deliver(r, winner[r])
  /\ UNCHANGED <<permits, cand, taken, solution, winner>>

(* The caller's event loop is closed, by an interrupt or after run raised: *)
(* its tasks are cancelled, which no `except Exception` stops.             *)
Close(r) ==
  /\ phase[r] \in {"gathering", "adjudicating", "raised"}
  /\ phase' = [phase EXCEPT ![r] = "closed"]
  /\ cand' = [cand EXCEPT ![r] =
                [c \in Models |-> IF c \in Unfinished(r)
                                  THEN Candidate("cancelled", 0, 0, FALSE) ELSE @[c]]]
  /\ permits' = [permits EXCEPT ![r] = @ + Cardinality(Working(r))]
  /\ UNCHANGED <<taken, solution, winner, final>>

(* A reply: httpx gives up a request that goes unanswered.                 *)
Reply(r, c) == ToolRound(r, c) \/ Verify(r, c) \/ Error(r, c)

Advance(r) == Decide(r) \/ Adjudicated(r)

Next ==
  \E r \in Runs :
    \/ Begin(r) \/ Advance(r) \/ Close(r)
    \/ \E c \in Models : Start(r, c) \/ Reply(r, c)

Spec == Init /\ [][Next]_vars

FairSpec ==
  /\ Spec
  /\ \A r \in Runs : WF_vars(Advance(r))
  /\ \A r \in Runs, c \in Models : WF_vars(Start(r, c)) /\ WF_vars(Reply(r, c))

-----------------------------------------------------------------------------
(* Every state of the arbitration is well typed; no candidate goes beyond  *)
(* its rounds.                                                             *)
TypeOK ==
  /\ phase \in [Runs -> Phases]
  /\ permits \in [Runs -> 0..Concurrency]
  /\ cand \in [Runs -> [Models -> Candidates]]
  /\ taken \in [Models -> SUBSET Runs]
  /\ solution \in [Models -> Contents \union {Missing}]
  /\ winner \in [Runs -> Models \union {NoWinner}]
  /\ final \in Contents \union {Missing}

(* Whatever runs overlap, and whatever stragglers a raised run leaves, the *)
(* directory a passing candidate was verified in still holds what passed,  *)
(* and no other candidate ever worked there (arbitration.py:187).          *)
WorkspacesIsolated ==
  /\ \A c \in Models : Cardinality(taken[c]) <= 1
  /\ \A r \in Runs, c \in Models : cand[r][c].passed => solution[c] = "right"

(* No run ever has more requests of candidates under way than it was given *)
(* permits, and none is lost (arbitration.py:293-298).                     *)
PermitsBalance ==
  \A r \in Runs :
    /\ Cardinality(Working(r)) <= Concurrency
    /\ permits[r] + Cardinality(Working(r)) = Concurrency

(* A winner is chosen only when every candidate ended, passed the checker, *)
(* and no candidate that passed comes before it by tool calls and name     *)
(* (arbitration.py:309-313); a run without a winner had none that passed.  *)
(* The final workspace, whichever of the runs wrote it last, never holds a *)
(* solution that did not pass a checker (arbitration.py:321-328).          *)
WinnerIsBest ==
  /\ final \in {Missing, "right"}
  /\ \A r \in Runs : phase[r] \in {"adjudicating", "returned"} =>
       /\ \A c \in Models : Is(r, c, "ended")
       /\ winner[r] = NoWinner => \A c \in Models : ~cand[r][c].passed
       /\ winner[r] # NoWinner =>
            /\ cand[r][winner[r]].passed
            /\ \A c \in Models \ {winner[r]} : cand[r][c].passed =>
                 \/ cand[r][c].calls < cand[r][winner[r]].calls
                 \/ /\ cand[r][c].calls = cand[r][winner[r]].calls
                    /\ NameRank[winner[r]] < NameRank[c]

(* Every call of run ends, and with it, or after it when it raised, all    *)
(* its candidates: no permit, no straggler and no adjudicator keeps it.    *)
RunsEnd ==
  \A r \in Runs :
    phase[r] = "gathering" ~>
      /\ phase[r] \in {"returned", "raised", "closed"}
      /\ Unfinished(r) = {}
=============================================================================
