-------------------------- MODULE WorkOrdersProofs --------------------------
(* What TLAPS proves about WorkOrders: for any runners, attempts, stages,  *)
(* generations and, where it says so, any number of recoveries.            *)
EXTENDS WorkOrders, FiniteSetTheorems, SequenceTheorems, WellFoundedInduction, TLAPS

-----------------------------------------------------------------------------
(* Lists of stages                                                         *)

(* The first n stages, executed once and in order.                         *)
Stages(n) == [i \in 1..n |-> i]

LEMMA NoStages == Stages(0) = <<>>
<1>1. 1..0 = {}
  OBVIOUS
<1>2. Stages(0) \in Seq(Int) /\ Len(Stages(0)) = 0
  <2>1. Stages(0) \in [1..0 -> Int]
    BY DEF Stages
  <2> QED
    BY <2>1
<1> QED
  BY <1>2

LEMMA NextStage ==
  ASSUME NEW n \in 0..StageCount, n < StageCount
  PROVE  /\ Append(Stages(n), n + 1) = Stages(n + 1)
         /\ Stages(n) \in Seq(1..StageCount)
         /\ Stages(n + 1) \in Seq(1..StageCount)
         /\ n + 1 \in 0..StageCount
<1>0. StageCount \in Nat /\ n \in Nat /\ n + 1 \in 0..StageCount
  BY OrderAssumption
<1>1. Stages(n) \in Seq(1..StageCount) /\ Len(Stages(n)) = n
  <2>1. Stages(n) \in [1..n -> 1..StageCount]
    BY <1>0 DEF Stages
  <2> QED
    BY <1>0, <2>1
<1>2. /\ Stages(n + 1) \in Seq(1..StageCount) /\ Stages(n + 1) \in Seq(Int)
      /\ Len(Stages(n + 1)) = n + 1
  <2>1. Stages(n + 1) \in [1..(n + 1) -> 1..StageCount] /\ Stages(n + 1) \in [1..(n + 1) -> Int]
    BY <1>0 DEF Stages
  <2> QED
    BY <1>0, <2>1
<1>3. \A i \in 1..(n + 1) : Append(Stages(n), n + 1)[i] = Stages(n + 1)[i]
  <2> SUFFICES ASSUME NEW i \in 1..(n + 1) PROVE Append(Stages(n), n + 1)[i] = i
    BY DEF Stages
  <2>1. CASE i = n + 1
    BY <1>0, <1>1, <2>1
  <2>2. CASE i # n + 1
    <3>1. i \in 1..n /\ Stages(n)[i] = i
      BY <1>0, <2>2 DEF Stages
    <3> QED
      BY <1>0, <1>1, <3>1
  <2> QED
    BY <2>1, <2>2
<1>4. Append(Stages(n), n + 1) \in Seq(Int) /\ Len(Append(Stages(n), n + 1)) = n + 1
  BY <1>0, <1>1
<1>5. Append(Stages(n), n + 1) = Stages(n + 1)
  BY <1>0, <1>2, <1>3, <1>4, SeqEqual
<1> QED
  BY <1>0, <1>1, <1>2, <1>5

(* fanin takes the first verified attempt: there is one.                   *)
LEMMA MinIsLeast ==
  ASSUME NEW T \in SUBSET Nat, T # {}
  PROVE  Min(T) \in T /\ \A y \in T : Min(T) <= y
<1>1. IsWellFoundedOn({p \in Nat \X Nat : p[1] < p[2]}, Nat)
  BY NatLessThanWellFounded, Zenon DEF OpToRel
<1>2. PICK x \in T : \A y \in T : <<y, x>> \notin {p \in Nat \X Nat : p[1] < p[2]}
  BY <1>1, WFMin
<1>3. ASSUME NEW y \in T PROVE x <= y
  <2>1. x \in Nat /\ y \in Nat /\ <<y, x>> \in Nat \X Nat
    OBVIOUS
  <2>2. ~ (y < x)
    BY <1>2, <2>1
  <2> QED
    BY <2>1, <2>2
<1> QED
  BY <1>3 DEF Min

LEMMA AllTheStages == Stages(StageCount) = AllStages
BY DEF Stages, AllStages

LEMMA FirstOrderType ==
  /\ FirstOrder \in Orders /\ NoJob \in Jobs /\ FirstOrder.gen = 1
  /\ FirstOrder.work = Stages(FirstOrder.skip)
  /\ NoJob.state = "unused" /\ NoJob.order = FirstOrder
<1>1. FirstOrder \in Orders
  BY OrderAssumption DEF FirstOrder, Orders
<1>2. 0 \in Indices /\ 0 \in 0..StageCount /\ <<>> \in Seq(1..StageCount)
  BY OrderAssumption DEF Indices
<1> QED
  BY <1>1, <1>2, NoStages DEF FirstOrder, NoJob, Jobs

-----------------------------------------------------------------------------
(* Types, and what the artifacts contain                                   *)

(* A runner that runs or has finished, an order and a receipt all have the *)
(* stages they claim, once and in order; nobody finishes with less than    *)
(* all of them.                                                            *)
Worked ==
  /\ \A o \in orders : o.work = Stages(o.skip)
  /\ \A r \in receipts : r.work = Stages(r.done)
  /\ \A j \in Runners : job[j].state \in {"running", "completed", "failed"} =>
       job[j].work = Stages(job[j].done)
  /\ \A j \in Runners : job[j].state \in {"completed", "failed"} => job[j].done = StageCount
  /\ \A j \in Runners : job[j].order \in orders
  /\ FirstOrder \in orders

Core == TypeOK /\ Worked

LEMMA JobFields ==
  ASSUME TypeOK, NEW j \in Runners
  PROVE  /\ job[j].order \in Orders /\ job[j].index \in Indices
         /\ job[j].done \in 0..StageCount /\ job[j].work \in Seq(1..StageCount)
         /\ job[j].order.gen \in 1..GenBound
BY DEF TypeOK, Jobs, Orders

LEMMA ReceiptFields ==
  ASSUME TypeOK, NEW j \in Runners, NEW status \in {"completed", "failed", "checkpointed"},
         NEW passed \in BOOLEAN
  PROVE  /\ Receipt(j, status, passed) \in Receipts
         /\ Receipt(j, status, passed).work = job[j].work
         /\ Receipt(j, status, passed).done = job[j].done
         /\ Receipt(j, status, passed).gen = job[j].order.gen
         /\ Receipt(j, status, passed).index = job[j].index
         /\ Receipt(j, status, passed).status = status
         /\ Receipt(j, status, passed).passed = passed
<1>1. overdue \in BOOLEAN
  BY DEF TypeOK
<1> QED
  BY <1>1, JobFields DEF Receipt, Receipts

LEMMA StartFields ==
  ASSUME Core, NEW j \in Runners, Start(j)
  PROVE  \E o \in orders, attempt \in Jobs :
           /\ job' = [job EXCEPT ![j] = attempt]
           /\ attempt.state = "running" /\ attempt.order = o
           /\ attempt.work = Stages(attempt.done)
<1>1. PICK o \in orders : \E attempt \in Fanout(o) : job' = [job EXCEPT ![j] = attempt]
  BY DEF Start
<1>2. PICK i \in Indices :
        job' = [job EXCEPT ![j] = [state |-> "running", order |-> o, index |-> i,
                                   done |-> o.skip, work |-> o.work]]
  BY <1>1 DEF Fanout
<1> DEFINE attempt == [state |-> "running", order |-> o, index |-> i,
                       done |-> o.skip, work |-> o.work]
<1>3. o \in Orders /\ o.work = Stages(o.skip)
  BY DEF Core, TypeOK, Worked
<1>4. attempt \in Jobs
  BY <1>3 DEF Jobs, Orders
<1> QED
  BY <1>2, <1>3, <1>4

LEMMA RunStageFields ==
  ASSUME Core, NEW j \in Runners, RunStage(j)
  PROVE  \E new \in Jobs :
           /\ job' = [job EXCEPT ![j] = new]
           /\ new.state = "running" /\ new.order = job[j].order
           /\ new.work = Stages(new.done)
<1>1. PICK x \in Jobs : x = job[j]
  BY DEF Core, TypeOK
<1>2. PICK n \in 0..StageCount : n = x.done
  BY DEF Jobs
<1>3. x.state = "running" /\ n < StageCount /\ x.work = Stages(n)
  BY <1>1, <1>2 DEF RunStage, Core, Worked
<1>4. /\ Append(x.work, n + 1) = Stages(n + 1) /\ Stages(n + 1) \in Seq(1..StageCount)
      /\ n + 1 \in 0..StageCount
  BY <1>3, NextStage
<1> DEFINE new == [state |-> "running", order |-> x.order, index |-> x.index,
                   done |-> n + 1, work |-> Stages(n + 1)]
<1>5. job' = [job EXCEPT ![j] = new]
  <2> DEFINE once == [job EXCEPT ![j] = [x EXCEPT !.done = n + 1]]
             y == [state |-> "running", order |-> x.order, index |-> x.index,
                   done |-> n + 1, work |-> x.work]
  <2>0. job \in [Runners -> Jobs]
    BY DEF Core, TypeOK
  <2>1. [x EXCEPT !.done = n + 1] = y
    BY <1>3 DEF Jobs
  <2>2. [y EXCEPT !.work = Stages(n + 1)] = new
    OBVIOUS
  <2>3. job' = [once EXCEPT ![j] = [once[j] EXCEPT !.work = Stages(n + 1)]]
    <3>1. job' = [job EXCEPT ![j].done = @ + 1, ![j].work = Append(@, job[j].done + 1)]
      BY DEF RunStage
    <3>2. job[j].done + 1 = n + 1 /\ Append(job[j].work, job[j].done + 1) = Stages(n + 1)
      BY <1>1, <1>2, <1>4
    <3>3. job' = [job EXCEPT ![j].done = n + 1, ![j].work = Stages(n + 1)]
      BY <3>1, <3>2, <1>1, <2>0
    <3> QED
      BY <3>3, <1>1, <2>0
  <2>4. once[j] = y /\ once \in [Runners -> Jobs \cup {y}]
    BY <2>0, <2>1
  <2> HIDE DEF once, y, new
  <2> QED
    BY <2>0, <2>1, <2>2, <2>3, <2>4 DEF once
<1>6. new \in Jobs
  BY <1>4 DEF Jobs
<1> QED
  BY <1>1, <1>5, <1>6

LEMMA FinishFields ==
  ASSUME Core, NEW j \in Runners, Finish(j)
  PROVE  \E passed \in BOOLEAN, status \in {"completed", "failed"}, new \in Jobs :
           /\ passed <=> status = "completed"
           /\ job[j].state = "running" /\ job[j].done = StageCount
           /\ receipts' = receipts \cup {Receipt(j, status, passed)}
           /\ job' = [job EXCEPT ![j] = new]
           /\ new = [job[j] EXCEPT !.state = status]
<1>1. PICK passed \in BOOLEAN :
        LET status == IF passed THEN "completed" ELSE "failed"
        IN  /\ job' = [job EXCEPT ![j].state = status]
            /\ receipts' = receipts \cup {Receipt(j, status, passed)}
  BY DEF Finish
<1>2. PICK status \in {"completed", "failed"} : status = IF passed THEN "completed" ELSE "failed"
  OBVIOUS
<1>3. job' = [job EXCEPT ![j].state = status]
      /\ receipts' = receipts \cup {Receipt(j, status, passed)}
  BY <1>1, <1>2
<1>4. job' = [job EXCEPT ![j] = [job[j] EXCEPT !.state = status]]
  BY <1>3 DEF Core, TypeOK
<1>5. [job[j] EXCEPT !.state = status] \in Jobs
  BY DEF Core, TypeOK, Jobs
<1> QED
  BY <1>2, <1>3, <1>4, <1>5 DEF Finish

LEMMA DieFields ==
  ASSUME Core, NEW j \in Runners, Die(j)
  PROVE  \E new \in Jobs :
           job' = [job EXCEPT ![j] = new] /\ new.state = "lost" /\ new.order = FirstOrder
<1>1. [NoJob EXCEPT !.state = "lost"] \in Jobs
      /\ [NoJob EXCEPT !.state = "lost"].state = "lost"
      /\ [NoJob EXCEPT !.state = "lost"].order = FirstOrder
  BY FirstOrderType DEF Jobs
<1> QED
  BY <1>1 DEF Die

(* One runner's record changes and the orders do not.                      *)
LEMMA JobChange ==
  ASSUME Core, NEW j \in Runners, NEW new \in Jobs, job' = [job EXCEPT ![j] = new],
         UNCHANGED orders, new.order \in orders,
         new.state \in {"running", "completed", "failed"} => new.work = Stages(new.done),
         new.state \in {"completed", "failed"} => new.done = StageCount
  PROVE  /\ job' \in [Runners -> Jobs] /\ job'[j] = new
         /\ \A i \in Runners \ {j} : job'[i] = job[i]
         /\ (\A r \in receipts' : r.work = Stages(r.done)) => Worked'
<1>1. job \in [Runners -> Jobs] /\ Worked
  BY DEF Core, TypeOK
<1>2. /\ job' \in [Runners -> Jobs] /\ job'[j] = new
      /\ \A i \in Runners \ {j} : job'[i] = job[i]
  BY <1>1
<1>3. ASSUME NEW i \in Runners
      PROVE  /\ job'[i].state \in {"running", "completed", "failed"} =>
                  job'[i].work = Stages(job'[i].done)
             /\ job'[i].state \in {"completed", "failed"} => job'[i].done = StageCount
             /\ job'[i].order \in orders'
  BY <1>1, <1>2 DEF Worked
<1> QED
  BY <1>1, <1>2, <1>3 DEF Worked

LEMMA SuccessorFields ==
  ASSUME Core, NEW o \in orders, NEW r \in receipts, Recover(o, r)
  PROVE  /\ Successor(o, r) \in Orders
         /\ Successor(o, r).work = Stages(Successor(o, r).skip)
         /\ Successor(o, r).gen = o.gen + 1
<1>1. o \in Orders /\ r \in Receipts /\ r.work = Stages(r.done)
  BY DEF Core, TypeOK, Worked
<1>2. o.gen \in 1..GenBound /\ o.gen < GenBound /\ GenBound \in Nat
  BY <1>1, OrderAssumption DEF Recover, Orders
<1>3. o.gen + 1 \in 1..GenBound
  BY <1>2
<1> QED
  BY <1>1, <1>3 DEF Successor, Orders, Receipts

LEMMA FanInType ==
  ASSUME Core, NEW o \in orders, NEW given \in SUBSET receipts, FanIn(o, given)
  PROVE  closeout' \subseteq Closeouts
<1>1. o \in Orders /\ \A r \in given : r.index \in Indices
  BY DEF Core, TypeOK, FanIn, Complete, Bound
<1> DEFINE verified == {r.index : r \in {s \in given : s.passed}}
<1>2. verified \subseteq Indices
  BY <1>1
<1>3. verified # {} => Min(verified) \in verified
  <2>1. verified \subseteq Nat
    BY <1>2 DEF Indices
  <2> HIDE DEF verified
  <2> QED
    BY <2>1, MinIsLeast
<1>4. closeout' = {[order |-> o, verified |-> verified,
                    winner |-> IF verified = {} THEN {} ELSE {Min(verified)}]}
  BY DEF FanIn
<1> HIDE DEF verified
<1> QED
  BY <1>1, <1>2, <1>3, <1>4 DEF Closeouts

LEMMA CoreStep ==
  Core /\ [Next]_vars => Core'
<1> SUFFICES ASSUME Core, [Next]_vars PROVE Core'
  OBVIOUS
<1>0. TypeOK /\ Worked
  BY DEF Core
<1>1. ASSUME NEW j \in Runners, Start(j) PROVE Core'
  <2>1. PICK o \in orders, new \in Jobs :
          /\ job' = [job EXCEPT ![j] = new]
          /\ new.state = "running" /\ new.order = o /\ new.work = Stages(new.done)
    BY <1>1, StartFields
  <2>2. UNCHANGED <<orders, receipts, closeout, overdue>>
    BY <1>1 DEF Start
  <2>3. job' \in [Runners -> Jobs] /\ Worked'
    BY <1>0, <2>1, <2>2, JobChange DEF Worked
  <2> QED
    BY <1>0, <2>2, <2>3 DEF Core, TypeOK
<1>2. ASSUME NEW j \in Runners, RunStage(j) PROVE Core'
  <2>1. PICK new \in Jobs :
          /\ job' = [job EXCEPT ![j] = new]
          /\ new.state = "running" /\ new.order = job[j].order /\ new.work = Stages(new.done)
    BY <1>2, RunStageFields
  <2>2. UNCHANGED <<orders, receipts, closeout, overdue>>
    BY <1>2 DEF RunStage
  <2>3. job' \in [Runners -> Jobs] /\ Worked'
    BY <1>0, <2>1, <2>2, JobChange DEF Worked
  <2> QED
    BY <1>0, <2>2, <2>3 DEF Core, TypeOK
<1>3. ASSUME NEW j \in Runners, Checkpoint(j) PROVE Core'
  <2> DEFINE r == Receipt(j, "checkpointed", FALSE)
  <2>1. r \in Receipts /\ r.work = Stages(r.done)
    <3>1. PICK passed \in BOOLEAN : passed = FALSE
      OBVIOUS
    <3>2. /\ Receipt(j, "checkpointed", passed) \in Receipts
          /\ Receipt(j, "checkpointed", passed).work = job[j].work
          /\ Receipt(j, "checkpointed", passed).done = job[j].done
      BY <1>0, ReceiptFields
    <3>3. job[j].work = Stages(job[j].done)
      BY <1>0, <1>3 DEF Checkpoint, Worked
    <3> QED
      BY <3>1, <3>2, <3>3
  <2>2. receipts' = receipts \cup {r} /\ UNCHANGED <<orders, job, closeout, overdue>>
    BY <1>3 DEF Checkpoint
  <2> HIDE DEF r
  <2> QED
    BY <1>0, <2>1, <2>2 DEF Core, TypeOK, Worked
<1>4. ASSUME NEW j \in Runners, Finish(j) PROVE Core'
  <2>1. PICK passed \in BOOLEAN, status \in {"completed", "failed"}, new \in Jobs :
          /\ job[j].state = "running" /\ job[j].done = StageCount
          /\ receipts' = receipts \cup {Receipt(j, status, passed)}
          /\ job' = [job EXCEPT ![j] = new]
          /\ new = [job[j] EXCEPT !.state = status]
    BY <1>4, FinishFields
  <2>2. UNCHANGED <<orders, closeout, overdue>>
    BY <1>4 DEF Finish
  <2> DEFINE r == Receipt(j, status, passed)
  <2>3. r \in Receipts /\ r.work = Stages(r.done)
    BY <1>0, <2>1, ReceiptFields DEF Worked
  <2>4. /\ new.order = job[j].order /\ new.work = job[j].work /\ new.done = job[j].done
        /\ job[j].work = Stages(job[j].done) /\ job[j].order \in orders
    BY <1>0, <2>1 DEF Worked, TypeOK, Jobs
  <2> HIDE DEF r
  <2>5. receipts' = receipts \cup {r}
    BY <2>1 DEF r
  <2>6. \A x \in receipts' : x.work = Stages(x.done)
    BY <1>0, <2>3, <2>5 DEF Worked
  <2>7. job' \in [Runners -> Jobs] /\ Worked'
    BY <1>0, <2>1, <2>2, <2>4, <2>6, JobChange
  <2> QED
    BY <1>0, <2>2, <2>3, <2>5, <2>7 DEF Core, TypeOK
<1>5. ASSUME NEW j \in Runners, Die(j) PROVE Core'
  <2>1. PICK new \in Jobs :
          job' = [job EXCEPT ![j] = new] /\ new.state = "lost" /\ new.order = FirstOrder
    BY <1>5, DieFields
  <2>2. UNCHANGED <<orders, receipts, closeout, overdue>>
    BY <1>5 DEF Die
  <2>3. job' \in [Runners -> Jobs] /\ Worked'
    BY <1>0, <2>1, <2>2, JobChange DEF Worked
  <2> QED
    BY <1>0, <2>2, <2>3 DEF Core, TypeOK
<1>6. ASSUME NEW o \in orders, NEW r \in receipts, Recover(o, r) PROVE Core'
  <2>1. /\ Successor(o, r) \in Orders
        /\ Successor(o, r).work = Stages(Successor(o, r).skip)
    BY <1>6, SuccessorFields
  <2>2. orders' = orders \cup {Successor(o, r)} /\ UNCHANGED <<job, receipts, closeout, overdue>>
    BY <1>6 DEF Recover
  <2> QED
    BY <1>0, <2>1, <2>2 DEF Core, TypeOK, Worked
<1>7. ASSUME NEW o \in orders, NEW given \in SUBSET receipts, FanIn(o, given) PROVE Core'
  <2>1. closeout' \subseteq Closeouts
    BY <1>7, FanInType
  <2>2. UNCHANGED <<orders, job, receipts, overdue>>
    BY <1>7 DEF FanIn
  <2> QED
    BY <1>0, <2>1, <2>2 DEF Core, TypeOK, Worked
<1>8. CASE Deadline
  BY <1>0, <1>8 DEF Deadline, Core, TypeOK, Worked
<1>9. CASE UNCHANGED vars
  BY <1>0, <1>9 DEF vars, Core, TypeOK, Worked
<1>10. \A o, given : given \in kSubset(AttemptCount, receipts) => given \in SUBSET receipts
  BY DEF kSubset
<1> QED
  BY <1>1, <1>2, <1>3, <1>4, <1>5, <1>6, <1>7, <1>8, <1>9, <1>10 DEF Next

LEMMA CoreHolds == Spec => []Core
<1>1. Init => Core
  <2> SUFFICES ASSUME Init PROVE Core
    OBVIOUS
  <2>1. orders = {FirstOrder} /\ \A j \in Runners : job[j] = NoJob
    BY DEF Init
  <2>2. TypeOK
    BY FirstOrderType DEF Init, TypeOK
  <2>3. Worked
    BY <2>1, FirstOrderType DEF Init, Worked
  <2> QED
    BY <2>2, <2>3 DEF Core
<1> QED
  BY <1>1, CoreStep, PTL DEF Spec

(* Every order, job, receipt and closeout is well typed.                   *)
THEOREM TypeCorrect == Spec => []TypeOK
<1>1. Core => TypeOK
  BY DEF Core
<1> QED
  BY <1>1, CoreHolds, PTL

(* However often an order is recovered, from however old a checkpoint and  *)
(* whoever else still runs: an attempt that finishes stands for every      *)
(* stage once and in order (workorders.py:472-481).                        *)
THEOREM StagesOnce == Spec => []EveryStageOnce
<1>1. Core => EveryStageOnce
  BY AllTheStages DEF Core, Worked, EveryStageOnce
<1> QED
  BY <1>1, CoreHolds, PTL

-----------------------------------------------------------------------------
(* What a closeout rests on                                                *)

(* A terminal receipt was written by a runner that finished so.            *)
ReceiptBacked(r) ==
  Terminal(r) =>
    /\ r.passed <=> r.status = "completed"
    /\ \E j \in Runners : job[j].order.gen = r.gen /\ job[j].index = r.index
                          /\ job[j].state = r.status

(* The attempt i was run to this end under an order of that generation.    *)
FoundInGeneration(gen, i, passed) ==
  \E j \in Runners :
    /\ job[j].order.gen = gen /\ job[j].index = i
    /\ job[j].state = IF passed THEN "completed" ELSE "failed"

(* What holds of a closeout even if one generation has several orders.     *)
GenerationBacked ==
  \A c \in closeout :
    /\ \A i \in Indices : FoundInGeneration(c.order.gen, i, i \in c.verified)
    /\ \A i \in c.winner : i \in c.verified /\ \A k \in c.verified : i <= k

Backed ==
  /\ \A r \in receipts : ReceiptBacked(r)
  /\ \A c \in closeout : c.order \in orders
  /\ GenerationBacked

(* A runner that finished has finished for good.                           *)
Finished(j) == job[j].state \in {"completed", "failed"}

LEMMA FinishedStays ==
  ASSUME Core, [Next]_vars, NEW j \in Runners, Finished(j)
  PROVE  job'[j] = job[j]
<1>0. job \in [Runners -> Jobs]
  BY DEF Core, TypeOK
<1>1. ASSUME NEW i \in Runners, Start(i) \/ RunStage(i) \/ Finish(i) \/ Die(i) PROVE i # j
  BY <1>1 DEF Start, RunStage, Finish, Die, Finished
<1>2. ASSUME NEW i \in Runners, i # j, Start(i) \/ RunStage(i) \/ Finish(i) \/ Die(i)
      PROVE  job'[j] = job[j]
  <2>1. PICK new : job' = [job EXCEPT ![i] = new]
    <3>1. CASE Start(i)
      BY <3>1 DEF Start
    <3>2. CASE RunStage(i)
      BY <3>2, RunStageFields
    <3>3. CASE Finish(i)
      BY <3>3, FinishFields
    <3>4. CASE Die(i)
      BY <3>4 DEF Die
    <3> QED
      BY <1>2, <3>1, <3>2, <3>3, <3>4
  <2> QED
    BY <1>0, <1>2, <2>1
<1>3. CASE \E i \in Runners : Start(i) \/ RunStage(i) \/ Finish(i) \/ Die(i)
  BY <1>1, <1>2, <1>3
<1>4. CASE UNCHANGED job
  BY <1>4
<1>5. \A i \in Runners : Checkpoint(i) => UNCHANGED job
  BY DEF Checkpoint
<1>6. \A o, r : Recover(o, r) => UNCHANGED job
  BY DEF Recover
<1>7. \A o, given : FanIn(o, given) => UNCHANGED job
  BY DEF FanIn
<1> QED
  BY <1>3, <1>4, <1>5, <1>6, <1>7 DEF Next, vars, Deadline

(* So what rested on a finished runner before a step rests on it after.    *)
LEMMA BackingStays ==
  ASSUME Core, [Next]_vars
  PROVE  /\ \A r \in receipts : ReceiptBacked(r) => ReceiptBacked(r)'
         /\ \A gen, i : \A passed \in BOOLEAN :
              FoundInGeneration(gen, i, passed) => FoundInGeneration(gen, i, passed)'
<1>1. ASSUME NEW r \in receipts, ReceiptBacked(r) PROVE ReceiptBacked(r)'
  <2>1. SUFFICES ASSUME Terminal(r)
                 PROVE  /\ r.passed <=> r.status = "completed"
                        /\ \E j \in Runners : job'[j].order.gen = r.gen /\ job'[j].index = r.index
                                              /\ job'[j].state = r.status
    BY DEF ReceiptBacked, Terminal
  <2>2. PICK j \in Runners : job[j].order.gen = r.gen /\ job[j].index = r.index
                             /\ job[j].state = r.status
    BY <1>1, <2>1 DEF ReceiptBacked
  <2>3. job'[j] = job[j]
    BY <2>1, <2>2, FinishedStays DEF Finished, Terminal
  <2> QED
    BY <1>1, <2>1, <2>2, <2>3 DEF ReceiptBacked
<1>2. ASSUME NEW gen, NEW i, NEW passed \in BOOLEAN, FoundInGeneration(gen, i, passed)
      PROVE  FoundInGeneration(gen, i, passed)'
  <2>1. PICK j \in Runners : job[j].order.gen = gen /\ job[j].index = i
                             /\ job[j].state = IF passed THEN "completed" ELSE "failed"
    BY <1>2 DEF FoundInGeneration
  <2>2. job'[j] = job[j]
    BY <2>1, FinishedStays DEF Finished
  <2> QED
    BY <2>1, <2>2 DEF FoundInGeneration
<1> QED
  BY <1>1, <1>2

LEMMA BackedStep ==
  Core /\ Backed /\ [Next]_vars => Backed'
<1> SUFFICES ASSUME Core, Backed, [Next]_vars PROVE Backed'
  OBVIOUS
<1>0. /\ TypeOK /\ job \in [Runners -> Jobs]
      /\ \A r \in receipts : ReceiptBacked(r)'
  BY BackingStays DEF Core, TypeOK, Backed
<1>1. ASSUME UNCHANGED receipts PROVE \A r \in receipts' : ReceiptBacked(r)'
  <2> SUFFICES ASSUME NEW r \in receipts PROVE ReceiptBacked(r)'
    BY <1>1
  <2> QED
    BY <1>0
<1>2. ASSUME UNCHANGED closeout, orders \subseteq orders'
      PROVE  (\A c \in closeout' : c.order \in orders') /\ GenerationBacked'
  <2>1. \A c \in closeout : \A i \in Indices : FoundInGeneration(c.order.gen, i, i \in c.verified)'
    <3> SUFFICES ASSUME NEW c \in closeout, NEW i \in Indices
                 PROVE  FoundInGeneration(c.order.gen, i, i \in c.verified)'
      OBVIOUS
    <3>1. PICK passed \in BOOLEAN : passed <=> i \in c.verified
      OBVIOUS
    <3>2. FoundInGeneration(c.order.gen, i, passed)
      BY <3>1 DEF Backed, GenerationBacked, FoundInGeneration
    <3>3. FoundInGeneration(c.order.gen, i, passed)'
      BY <3>2, BackingStays
    <3> QED
      BY <3>1, <3>3 DEF FoundInGeneration
  <2> QED
    BY <1>2, <2>1 DEF Backed, GenerationBacked
<1>3. ASSUME NEW j \in Runners, Start(j) \/ RunStage(j) \/ Die(j) PROVE Backed'
  <2>1. UNCHANGED <<orders, receipts, closeout>>
    BY <1>3 DEF Start, RunStage, Die
  <2> QED
    BY <1>1, <1>2, <2>1 DEF Backed
<1>4. ASSUME NEW j \in Runners, Checkpoint(j) PROVE Backed'
  <2>1. UNCHANGED <<orders, job, closeout>>
        /\ receipts' = receipts \cup {Receipt(j, "checkpointed", FALSE)}
    BY <1>4 DEF Checkpoint
  <2>2. ~ Terminal(Receipt(j, "checkpointed", FALSE))
    BY DEF Terminal, Receipt
  <2>3. \A r \in receipts' : ReceiptBacked(r)
    BY <2>1, <2>2 DEF Backed, ReceiptBacked
  <2>4. \A r \in receipts' : ReceiptBacked(r)'
    BY <2>1, <2>3 DEF ReceiptBacked, Terminal
  <2> QED
    BY <1>2, <2>1, <2>4 DEF Backed
<1>5. ASSUME NEW j \in Runners, Finish(j) PROVE Backed'
  <2>1. PICK passed \in BOOLEAN, status \in {"completed", "failed"}, new \in Jobs :
          /\ passed <=> status = "completed"
          /\ receipts' = receipts \cup {Receipt(j, status, passed)}
          /\ job' = [job EXCEPT ![j] = new]
          /\ new = [job[j] EXCEPT !.state = status]
    BY <1>5, FinishFields
  <2>2. UNCHANGED <<orders, closeout>>
    BY <1>5 DEF Finish
  <2>3. /\ Receipt(j, status, passed).gen = job[j].order.gen
        /\ Receipt(j, status, passed).index = job[j].index
        /\ Receipt(j, status, passed).status = status
        /\ Receipt(j, status, passed).passed = passed
    BY <1>0, ReceiptFields
  <2>4. job'[j].state = status /\ job'[j].order = job[j].order /\ job'[j].index = job[j].index
    BY <1>0, <2>1 DEF Jobs
  <2>5. PICK r : r = Receipt(j, status, passed)
    OBVIOUS
  <2>6. ReceiptBacked(r)'
    BY <2>1, <2>3, <2>4, <2>5 DEF ReceiptBacked
  <2>7. \A x \in receipts \cup {r} : ReceiptBacked(x)'
    BY <1>0, <2>6
  <2>8. (\A x \in receipts : ReceiptBacked(x))'
    BY <2>1, <2>5, <2>7
  <2> QED
    BY <1>2, <2>2, <2>8 DEF Backed
<1>6. ASSUME NEW o \in orders, NEW r \in receipts, Recover(o, r) PROVE Backed'
  <2>1. UNCHANGED <<job, receipts, closeout>> /\ orders \subseteq orders'
    BY <1>6 DEF Recover
  <2> QED
    BY <1>1, <1>2, <2>1 DEF Backed
<1>7. ASSUME NEW o \in orders, NEW given \in SUBSET receipts, FanIn(o, given) PROVE Backed'
  <2> DEFINE verified == {r.index : r \in {s \in given : s.passed}}
             winner == IF verified = {} THEN {} ELSE {Min(verified)}
  <2>1. UNCHANGED <<orders, job, receipts>>
        /\ closeout' = {[order |-> o, verified |-> verified, winner |-> winner]}
    BY <1>7 DEF FanIn
  <2>2. /\ \A r \in given : r.gen = o.gen /\ r.index \in Indices /\ Terminal(r)
        /\ \A r, s \in given : r.index = s.index => r = s
        /\ \A i \in Indices : \E r \in given : r.index = i
    BY <1>7 DEF FanIn, Complete, Bound
  <2>3. ASSUME NEW i \in Indices PROVE FoundInGeneration(o.gen, i, i \in verified)
    <3>1. PICK r \in given : r.index = i
      BY <2>2
    <3>2. i \in verified <=> r.passed
      BY <2>2, <3>1
    <3> HIDE DEF verified
    <3>3. r.passed \in BOOLEAN
      BY <1>0 DEF TypeOK, Receipts
    <3>4. r.passed <=> r.status = "completed"
      BY <2>2 DEF Backed, ReceiptBacked
    <3>5. PICK j \in Runners : job[j].order.gen = o.gen /\ job[j].index = i
                               /\ job[j].state = r.status
      BY <2>2, <3>1 DEF Backed, ReceiptBacked
    <3>6. r.status = IF i \in verified THEN "completed" ELSE "failed"
      BY <2>2, <3>2, <3>4 DEF Terminal
    <3> QED
      BY <3>5, <3>6 DEF FoundInGeneration
  <2>4. \A i \in winner : i \in verified /\ \A k \in verified : i <= k
    <3>1. verified \subseteq Nat
      BY <2>2 DEF Indices
    <3> HIDE DEF verified
    <3> QED
      BY <3>1, MinIsLeast
  <2> HIDE DEF verified, winner
  <2>5. \A c \in closeout' : c.order = o /\ c.verified = verified /\ c.winner = winner
    BY <2>1
  <2>6. \A i \in Indices : FoundInGeneration(o.gen, i, i \in verified)'
    BY <2>1, <2>3 DEF FoundInGeneration
  <2>7. GenerationBacked'
    BY <2>4, <2>5, <2>6 DEF GenerationBacked, FoundInGeneration
  <2> QED
    BY <1>1, <2>1, <2>5, <2>7 DEF Backed
<1>8. CASE Deadline \/ UNCHANGED vars
  <2>1. UNCHANGED <<orders, receipts, closeout>>
    BY <1>8 DEF Deadline, vars
  <2> QED
    BY <1>1, <1>2, <2>1 DEF Backed
<1>9. \A given \in kSubset(AttemptCount, receipts) : given \in SUBSET receipts
  BY DEF kSubset
<1> QED
  BY <1>3, <1>4, <1>5, <1>6, <1>7, <1>8, <1>9 DEF Next

LEMMA BackedHolds == Spec => [](Core /\ Backed)
<1>1. Init => Backed
  BY DEF Init, Backed, GenerationBacked
<1> QED
  BY <1>1, BackedStep, CoreHolds, PTL DEF Spec

(* Whatever receipts are lost, late or stale and however often the order   *)
(* is recovered: what a closeout says of each attempt is what a runner of  *)
(* that generation found when it ran the attempt to its end, and the       *)
(* winner is the first verified attempt (workorders.py:282-312, 413-441).  *)
THEOREM CloseoutsOfGeneration == Spec => []GenerationBacked
<1>1. Backed => GenerationBacked
  BY DEF Backed
<1> QED
  BY <1>1, BackedHolds, PTL

-----------------------------------------------------------------------------
(* One recovery per generation                                             *)

(* A generation has one order when nobody recovers twice from one.         *)
OneOrder ==
  /\ IsFiniteSet(orders)
  /\ MaxRecoveries <= 1 => \A o, p \in orders : o.gen = p.gen => o = p

LEMMA AtMostOne ==
  ASSUME NEW S, IsFiniteSet(S), Cardinality(S) <= 1, NEW x \in S, NEW y \in S
  PROVE  x = y
<1>1. Cardinality(S \ {x}) = Cardinality(S) - 1 /\ IsFiniteSet(S \ {x})
  BY FS_RemoveElement
<1>2. Cardinality(S) \in Nat /\ Cardinality(S \ {x}) \in Nat
  BY <1>1, FS_CardinalityType
<1>3. Cardinality(S \ {x}) = 0
  BY <1>1, <1>2
<1>4. S \ {x} = {}
  BY <1>1, <1>3, FS_EmptySet
<1> QED
  BY <1>4

LEMMA OneOrderStep ==
  Core /\ OneOrder /\ [Next]_vars => OneOrder'
<1> SUFFICES ASSUME Core, OneOrder, [Next]_vars PROVE OneOrder'
  OBVIOUS
<1>1. ASSUME NEW o \in orders, NEW r \in receipts, Recover(o, r) PROVE OneOrder'
  <2>1. PICK new : new = Successor(o, r)
    OBVIOUS
  <2>2. orders' = orders \cup {new} /\ new.gen = o.gen + 1
    BY <1>1, <2>1, SuccessorFields DEF Recover
  <2>3. IsFiniteSet(orders')
    BY <2>2, FS_AddElement DEF OneOrder
  <2>4. ASSUME MaxRecoveries <= 1, NEW p \in orders', NEW q \in orders', p.gen = q.gen
        PROVE  p = q
    <3> DEFINE S == {s \in orders' : s.gen = o.gen + 1}
    <3>1. CASE p.gen = o.gen + 1
      <4>1. IsFiniteSet(S) /\ p \in S /\ q \in S
        BY <2>3, <2>4, <3>1, FS_Subset
      <4>2. Cardinality(S) <= 1
        <5>1. Cardinality(S) <= MaxRecoveries
          BY <1>1 DEF Recover
        <5>2. Cardinality(S) \in Nat
          BY <4>1, FS_CardinalityType
        <5> HIDE DEF S
        <5> QED
          BY <5>1, <5>2, <2>4, OrderAssumption
      <4> HIDE DEF S
      <4> QED
        BY <4>1, <4>2, AtMostOne
    <3>2. CASE p.gen # o.gen + 1
      BY <2>2, <2>4, <3>2 DEF OneOrder
    <3> QED
      BY <3>1, <3>2
  <2> QED
    BY <2>3, <2>4 DEF OneOrder
<1>2. CASE UNCHANGED orders
  BY <1>2 DEF OneOrder
<1>3. ASSUME NEW j \in Runners,
             Start(j) \/ RunStage(j) \/ Checkpoint(j) \/ Finish(j) \/ Die(j)
      PROVE  UNCHANGED orders
  BY <1>3 DEF Start, RunStage, Checkpoint, Finish, Die
<1>4. \A o, given : FanIn(o, given) => UNCHANGED orders
  BY DEF FanIn
<1> QED
  BY <1>1, <1>2, <1>3, <1>4 DEF Next, Deadline, vars

(* When each generation is recovered from at most once, what a closeout    *)
(* says of each attempt was found by a runner of that very order.          *)
THEOREM CloseoutsBacked ==
  ASSUME MaxRecoveries <= 1
  PROVE  Spec => []CloseoutBacked
<1>1. Init => OneOrder
  <2> SUFFICES ASSUME Init PROVE OneOrder
    OBVIOUS
  <2>1. orders = {FirstOrder}
    BY DEF Init
  <2>2. IsFiniteSet({FirstOrder})
    BY FS_Singleton
  <2> QED
    BY <2>1, <2>2 DEF OneOrder
<1>2. Core /\ Backed /\ OneOrder => CloseoutBacked
  <2> SUFFICES ASSUME Core, Backed, OneOrder, NEW c \in closeout, NEW i \in Indices
               PROVE  Found(c.order, i, i \in c.verified)
    BY DEF CloseoutBacked, Backed, GenerationBacked
  <2>1. PICK j \in Runners :
          /\ job[j].order.gen = c.order.gen /\ job[j].index = i
          /\ job[j].state = IF i \in c.verified THEN "completed" ELSE "failed"
    BY DEF Backed, GenerationBacked, FoundInGeneration
  <2>2. job[j].order \in orders /\ c.order \in orders
    BY DEF Core, Worked, Backed
  <2>3. job[j].order = c.order
    BY <2>1, <2>2 DEF OneOrder
  <2> QED
    BY <2>1, <2>3 DEF Found
<1> QED
  BY <1>1, <1>2, OneOrderStep, BackedHolds, PTL DEF Spec
=============================================================================
