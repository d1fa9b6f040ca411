---------------------------- MODULE WorkOrders -----------------------------
(***************************************************************************)
(* One work order of cortex_v5/workorders.py on disposable runners: fan    *)
(* out, attempts that run stages, checkpoint, die or finish, recovery into *)
(* the next generation, fan in.  Every command is a pure function of the   *)
(* files it is given; nobody knows which order is the latest, receipts may *)
(* be lost or late, and a runner given up for dead may still be running.   *)
(*                                                                         *)
(* An attempt's identity and its patch destination are a hash of the       *)
(* order's fixed fields, the generation and the index: <<gen, index>>.     *)
(* Stages are numbered in order, so a number stands for a list of          *)
(* completed stages.  `work` is what the checkpoint artifact contains: the *)
(* stages really executed, by whichever attempts, in order.                *)
(***************************************************************************)
EXTENDS Integers, Sequences, FiniteSetsExt

CONSTANTS Runners,        \* disposable runners, each used once
          AttemptCount,   \* attempt_count of the order
          StageCount,     \* stages of an attempt
          GenBound,       \* bound: generations explored
          MaxRecoveries   \* bound: different orders recovered from one generation

ASSUME OrderAssumption ==
  /\ AttemptCount \in 1..8
  /\ StageCount \in Nat \ {0}
  /\ GenBound \in Nat \ {0} /\ MaxRecoveries \in Nat

VARIABLES
  orders,     \* work orders issued
  job,        \* what each runner does
  receipts,   \* receipts transported
  closeout,   \* the latest result of fanin
  overdue     \* the deadline has passed

vars == <<orders, job, receipts, closeout, overdue>>

Indices == 0..(AttemptCount - 1)
AllStages == [i \in 1..StageCount |-> i]

Orders == [gen : 1..GenBound, skip : 0..StageCount, work : Seq(1..StageCount)]
Jobs == [state : {"unused", "running", "completed", "failed", "lost"}, order : Orders,
         index : Indices, done : 0..StageCount, work : Seq(1..StageCount)]
Receipts == [gen : 1..GenBound, index : Indices, passed : BOOLEAN,
             status : {"completed", "failed", "checkpointed"},
             late : BOOLEAN, done : 0..StageCount, work : Seq(1..StageCount)]
Closeouts == [order : Orders, verified : SUBSET Indices, winner : SUBSET Indices]

FirstOrder == [gen |-> 1, skip |-> 0, work |-> <<>>]

NoJob == [state |-> "unused", order |-> FirstOrder, index |-> 0, done |-> 0, work |-> <<>>]

(* Mutant of Fanout: one attempt too many.                                 *)
FanoutWide(o) ==
  {[state |-> "running", order |-> o, index |-> i, done |-> o.skip, work |-> o.work] :
     i \in 0..AttemptCount}

(* fanout: the matrix of attempts; validate_attempt accepts nothing else.  *)
Fanout(o) ==
  {[state |-> "running", order |-> o, index |-> i, done |-> o.skip, work |-> o.work] :
     i \in Indices}

Receipt(j, status, passed) ==
  [gen |-> job[j].order.gen, index |-> job[j].index, status |-> status, passed |-> passed,
   late |-> overdue, done |-> job[j].done, work |-> job[j].work]

(* Mutant of Bound: the receipt's generation is not compared.              *)
BoundUnfenced(o, r) == r.index \in Indices /\ ~r.late

(* _validate_receipt_binding *)
Bound(o, r) == r.gen = o.gen /\ r.index \in Indices /\ ~r.late

Terminal(r) == r.status \in {"completed", "failed"}

-----------------------------------------------------------------------------
Init ==
  /\ orders = {FirstOrder}
  /\ job = [j \in Runners |-> NoJob]
  /\ receipts = {}
  /\ closeout = {}
  /\ overdue = FALSE

Start(j) ==
  /\ job[j].state = "unused"
  /\ \E o \in orders : \E attempt \in Fanout(o) : job' = [job EXCEPT ![j] = attempt]
  /\ UNCHANGED <<orders, receipts, closeout, overdue>>

RunStage(j) ==
  /\ job[j].state = "running" /\ job[j].done < StageCount
  /\ job' = [job EXCEPT ![j].done = @ + 1, ![j].work = Append(@, job[j].done + 1)]
  /\ UNCHANGED <<orders, receipts, closeout, overdue>>

(* A checkpoint names a next stage.  Nothing validates it when written.    *)
Checkpoint(j) ==
  /\ job[j].state = "running" /\ job[j].done < StageCount
  /\ receipts' = receipts \cup {Receipt(j, "checkpointed", FALSE)}
  /\ UNCHANGED <<orders, job, closeout, overdue>>

(* The receipt of a finished attempt validates itself: none when overdue.  *)
Finish(j) ==
  /\ job[j].state = "running" /\ job[j].done = StageCount /\ ~overdue
  /\ \E passed \in BOOLEAN :
       LET status == IF passed THEN "completed" ELSE "failed"
       IN  /\ job' = [job EXCEPT ![j].state = status]
           /\ receipts' = receipts \cup {Receipt(j, status, passed)}
  /\ UNCHANGED <<orders, closeout, overdue>>

(* A dead runner leaves nothing behind but what was transported.           *)
Die(j) ==
  /\ job[j].state = "running"
  /\ job' = [job EXCEPT ![j] = [NoJob EXCEPT !.state = "lost"]]
  /\ UNCHANGED <<orders, receipts, closeout, overdue>>

(* Mutant of Successor: the successor is not told what to skip.            *)
SuccessorReplays(o, r) == [gen |-> o.gen + 1, skip |-> 0, work |-> r.work]

(* advance_after_runner_loss *)
Successor(o, r) == [gen |-> o.gen + 1, skip |-> r.done, work |-> r.work]

Recover(o, r) ==
  /\ Bound(o, r) /\ r.status = "checkpointed"
  /\ o.gen < GenBound
  /\ orders' = orders \cup {Successor(o, r)}
  /\ Cardinality({s \in orders' : s.gen = o.gen + 1}) <= MaxRecoveries
  /\ UNCHANGED <<job, receipts, closeout, overdue>>

(* fanin over the receipts that were delivered: one of each attempt, or it *)
(* refuses.                                                                *)
Complete(o, given) ==
  /\ \A r \in given : Bound(o, r) /\ Terminal(r)
  /\ \A r, s \in given : r.index = s.index => r = s
  /\ \A i \in Indices : \E r \in given : r.index = i

FanIn(o, given) ==
  /\ Complete(o, given)
  /\ LET verified == {r.index : r \in {s \in given : s.passed}}
     IN  closeout' = {[order |-> o, verified |-> verified,
                        winner |-> IF verified = {} THEN {} ELSE {Min(verified)}]}
  /\ UNCHANGED <<orders, job, receipts, overdue>>

Deadline ==
  /\ ~overdue /\ overdue' = TRUE
  /\ UNCHANGED <<orders, job, receipts, closeout>>

Next ==
  \/ \E j \in Runners :
       Start(j) \/ RunStage(j) \/ Checkpoint(j) \/ Finish(j) \/ Die(j)
  \/ \E o \in orders :
       \/ \E r \in receipts : Recover(o, r)
       \/ \E given \in kSubset(AttemptCount, receipts) : FanIn(o, given)
  \/ Deadline

Spec == Init /\ [][Next]_vars

-----------------------------------------------------------------------------
(* Every order, job, receipt and closeout is well typed.                   *)
TypeOK ==
  /\ orders \subseteq Orders
  /\ job \in [Runners -> Jobs]
  /\ receipts \subseteq Receipts
  /\ closeout \subseteq Closeouts
  /\ overdue \in BOOLEAN

(* README: fan-in requires a terminal receipt for every current-generation *)
(* attempt and derives PASS only from mechanical verification: what a      *)
(* closeout says of each attempt is what a runner of that very order, not  *)
(* of a stale one, found when it ran the attempt to its end.               *)
Found(o, i, passed) ==
  \E j \in Runners :
    /\ job[j].order = o /\ job[j].index = i
    /\ job[j].state = IF passed THEN "completed" ELSE "failed"

CloseoutBacked ==
  \A c \in closeout :
    /\ \A i \in Indices : Found(c.order, i, i \in c.verified)
    /\ \A i \in c.winner : i \in c.verified /\ \A k \in c.verified : i <= k

(* README: the successor skips already completed stages: however often the *)
(* order is recovered, and from however old a checkpoint, a finished       *)
(* attempt stands for every stage executed once and in order, by itself or *)
(* by the attempts before it.                                              *)
EveryStageOnce ==
  \A j \in Runners : job[j].state \in {"completed", "failed"} => job[j].work = AllStages
=============================================================================
