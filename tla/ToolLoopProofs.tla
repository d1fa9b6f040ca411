--------------------------- MODULE ToolLoopProofs --------------------------
(* What TLAPS proves about ToolLoop: for any number of rounds, calls,      *)
(* attempts, exceptions and process deaths.                                *)
EXTENDS ToolLoop, FiniteSetTheorems, TLAPS

-----------------------------------------------------------------------------
(* Conversations that grow by one message                                  *)

LEMMA ConstantTypes ==
  /\ MaxToolRounds \in Nat /\ MaxCalls \in Nat /\ MaxCalls >= 1
  /\ MaxAttempts \in Nat /\ MaxRaises \in Nat /\ MaxCrashes \in Nat
BY LoopAssumption

LEMMA MessageTypes ==
  /\ User \in Messages /\ User.kind = "user"
  /\ \A n \in 0..MaxCalls : /\ Assistant(n) \in Messages
                            /\ Assistant(n).kind = "assistant" /\ Assistant(n).n = n
  /\ \A n \in 0..MaxCalls, ok \in BOOLEAN :
       /\ Result(n, ok) \in Messages
       /\ Result(n, ok).kind = "result" /\ Result(n, ok).n = n /\ Result(n, ok).ok = ok
<1>1. User \in Messages /\ User.kind = "user"
  BY ConstantTypes DEF User, Messages
<1>2. ASSUME NEW n \in 0..MaxCalls
      PROVE  /\ Assistant(n) \in Messages
             /\ Assistant(n).kind = "assistant" /\ Assistant(n).n = n
  BY DEF Assistant, Messages
<1>3. ASSUME NEW n \in 0..MaxCalls, NEW ok \in BOOLEAN
      PROVE  /\ Result(n, ok) \in Messages
             /\ Result(n, ok).kind = "result" /\ Result(n, ok).n = n /\ Result(n, ok).ok = ok
  BY DEF Result, Messages
<1> QED
  BY <1>1, <1>2, <1>3

LEMMA MessageFields ==
  ASSUME NEW m \in Seq(Messages), NEW i \in DOMAIN m
  PROVE  m[i].kind \in {"user", "assistant", "result"} /\ m[i].n \in 0..MaxCalls
         /\ m[i].ok \in BOOLEAN
<1>1. m[i] \in Messages
  OBVIOUS
<1> QED
  BY <1>1 DEF Messages

LEMMA Grown ==
  ASSUME NEW m \in Seq(Messages), NEW x \in Messages
  PROVE  /\ Append(m, x) \in Seq(Messages)
         /\ Len(m) \in Nat /\ DOMAIN m = 1..Len(m)
         /\ Len(Append(m, x)) = Len(m) + 1
         /\ DOMAIN Append(m, x) = 1..(Len(m) + 1)
         /\ \A i \in 1..Len(m) : Append(m, x)[i] = m[i]
         /\ Append(m, x)[Len(m) + 1] = x
OBVIOUS

LEMMA SuccessesFinite ==
  ASSUME NEW m \in Seq(Messages)
  PROVE  IsFiniteSet(Successes(m)) /\ Cardinality(Successes(m)) \in Nat
<1>1. Successes(m) \in SUBSET (1..Len(m)) /\ Len(m) \in Nat
  BY DEF Successes
<1>2. IsFiniteSet(1..Len(m))
  BY <1>1, FS_Interval
<1> QED
  BY <1>1, <1>2, FS_Subset, FS_CardinalityType

(* A further message counts if it is a successful result.                  *)
LEMMA SuccessesGrow ==
  ASSUME NEW m \in Seq(Messages), NEW x \in Messages
  PROVE  Cardinality(Successes(Append(m, x)))
           = Cardinality(Successes(m)) + IF x.kind = "result" /\ x.ok THEN 1 ELSE 0
<1>1. Len(m) + 1 \notin Successes(m)
  BY Grown DEF Successes
<1>2. CASE x.kind = "result" /\ x.ok
  <2>1. Successes(Append(m, x)) = Successes(m) \cup {Len(m) + 1}
    BY <1>2, Grown DEF Successes
  <2> QED
    BY <1>1, <1>2, <2>1, SuccessesFinite, FS_AddElement
<1>3. CASE ~ (x.kind = "result" /\ x.ok)
  <2>1. Successes(Append(m, x)) = Successes(m)
    BY <1>3, Grown DEF Successes
  <2> QED
    BY <1>3, <2>1, SuccessesFinite
<1> QED
  BY <1>2, <1>3

AllAsked(m) == \A i \in DOMAIN m : AsksFor(m, i)

LEMMA AskedGrow ==
  ASSUME NEW m \in Seq(Messages), NEW x \in Messages, AllAsked(m),
         AsksFor(Append(m, x), Len(m) + 1)
  PROVE  AllAsked(Append(m, x))
<1> SUFFICES ASSUME NEW i \in 1..(Len(m) + 1) PROVE AsksFor(Append(m, x), i)
  BY Grown DEF AllAsked
<1>1. CASE i = Len(m) + 1
  BY <1>1
<1>2. CASE i # Len(m) + 1
  <2>1. i \in DOMAIN m /\ Append(m, x)[i] = m[i] /\ AsksFor(m, i)
    BY <1>2, Grown DEF AllAsked
  <2>2. CASE m[i].kind # "result"
    BY <2>1, <2>2 DEF AsksFor
  <2>3. CASE m[i].kind = "result"
    <3>1. i - m[i].n > 0 /\ i - m[i].n \in 1..Len(m)
      BY <2>1, <2>3, MessageFields, Grown DEF AsksFor
    <3>2. Append(m, x)[i - m[i].n] = m[i - m[i].n]
      BY <3>1, Grown
    <3> QED
      BY <2>1, <2>3, <3>1, <3>2 DEF AsksFor
  <2> QED
    BY <2>2, <2>3
<1> QED
  BY <1>1, <1>2

AllAnswered(m) == \A i \in DOMAIN m : m[i].kind = "assistant" => Answered(m, i)

LEMMA AnsweredGrow ==
  ASSUME NEW m \in Seq(Messages), NEW x \in Messages, NEW i \in DOMAIN m, Answered(m, i)
  PROVE  Answered(Append(m, x), i)
<1>1. Append(m, x)[i] = m[i]
  BY Grown
<1> SUFFICES ASSUME NEW call \in 1..m[i].n
             PROVE  /\ i + call \in DOMAIN Append(m, x)
                    /\ Append(m, x)[i + call].kind = "result"
                    /\ Append(m, x)[i + call].n = call
  BY <1>1 DEF Answered
<1>2. i + call \in DOMAIN m /\ m[i + call].kind = "result" /\ m[i + call].n = call
  BY DEF Answered
<1> QED
  BY <1>2, Grown

LEMMA CallsOfTurn ==
  ASSUME NEW m \in Seq(Messages), NEW t \in DOMAIN m, m[t].kind = "assistant",
         \A i \in DOMAIN m : i > t => m[i].kind # "assistant"
  PROVE  CallsOf(m) = m[t].n
<1> DEFINE Turns == {i \in DOMAIN m : m[i].kind = "assistant"}
           last == CHOOSE i \in Turns : \A j \in Turns : j <= i
<1>1. t \in Turns /\ \A j \in Turns : j \in Nat /\ j <= t
  BY Grown
<1>2. last \in Turns /\ \A j \in Turns : j <= last
  <2> HIDE DEF Turns
  <2> QED
    BY <1>1
<1>3. last = t
  <2> HIDE DEF last, Turns
  <2> QED
    BY <1>1, <1>2
<1> QED
  BY <1>3 DEF CallsOf

-----------------------------------------------------------------------------
(* Types, and the turn that is being answered                              *)

InTurn == pc \in {"tools", "returned"}

(* The results the present turn has, and where it is.                      *)
Given == IF pc = "tools" THEN at.call - 1 ELSE at.call
Turn == Len(copy.messages) - Given

(* An attempt at its tools is within its rounds, answers one turn, and has *)
(* given the results of the calls before in order.                         *)
TurnInv ==
  InTurn =>
    /\ at.call >= 1 /\ at.round < MaxToolRounds
    /\ Turn >= 1 /\ copy.messages[Turn].kind = "assistant"
    /\ at.call <= copy.messages[Turn].n
    /\ \A k \in 1..Given : copy.messages[Turn + k].kind = "result"
                         /\ copy.messages[Turn + k].n = k

(* At a request the copy is what is persisted; at the tools it is ahead.   *)
CopyInv ==
  /\ pc = "chat" => row = copy
  /\ InTurn => IsPrefix(row.messages, copy.messages)

BudgetInv == budget.raises <= MaxRaises /\ budget.crashes <= MaxCrashes

TypeInv == TypeOK /\ TurnInv /\ CopyInv /\ BudgetInv

LEMMA Fields ==
  ASSUME TypeOK
  PROVE  /\ row.messages \in Seq(Messages) /\ row.count \in Nat
         /\ copy.messages \in Seq(Messages) /\ copy.count \in Nat
         /\ at.round \in 0..MaxToolRounds /\ at.call \in 0..MaxCalls
         /\ budget.attempts \in Nat /\ budget.raises \in Nat /\ budget.crashes \in Nat
         /\ row = [messages |-> row.messages, count |-> row.count]
         /\ copy = [messages |-> copy.messages, count |-> copy.count]
         /\ at = [round |-> at.round, call |-> at.call]
BY DEF TypeOK, Conversations

LEMMA PrefixGrows ==
  ASSUME NEW m \in Seq(Messages), NEW w \in Seq(Messages), IsPrefix(w, m)
  PROVE  /\ IsPrefix(m, m)
         /\ \A x \in Messages : IsPrefix(w, Append(m, x))
<1>1. IsPrefix(m, m)
  BY DEF IsPrefix
<1>2. ASSUME NEW x \in Messages PROVE IsPrefix(w, Append(m, x))
  <2>1. Len(w) \in Nat /\ Len(w) <= Len(m) /\ SubSeq(w, 1, Len(w)) = SubSeq(m, 1, Len(w))
    BY DEF IsPrefix
  <2>2. SubSeq(m, 1, Len(w)) = SubSeq(Append(m, x), 1, Len(w))
    BY <2>1, Grown
  <2> QED
    BY <2>1, <2>2, Grown DEF IsPrefix
<1> QED
  BY <1>1, <1>2

LEMMA TypeInit == Init => TypeInv
<1> SUFFICES ASSUME Init PROVE TypeInv
  OBVIOUS
<1>1. Submitted \in Conversations
  <2>1. <<User>> \in Seq(Messages)
    BY MessageTypes
  <2> QED
    BY <2>1 DEF Submitted, Conversations
<1>2. TypeOK
  BY <1>1, ConstantTypes DEF Init, TypeOK
<1> QED
  BY <1>2, ConstantTypes DEF Init, TypeInv, TurnInv, CopyInv, BudgetInv, InTurn

LEMMA TypeBeginAttempt == ASSUME TypeInv, BeginAttempt PROVE TypeInv'
<1>1. budget' \in [attempts : Nat, raises : Nat, crashes : Nat]
      /\ budget'.raises = budget.raises /\ budget'.crashes = budget.crashes
  BY DEF TypeInv, TypeOK, BeginAttempt
<1>2. TypeOK'
  BY <1>1, ConstantTypes DEF TypeInv, TypeOK, BeginAttempt
<1> QED
  BY <1>1, <1>2 DEF TypeInv, TurnInv, CopyInv, BudgetInv, InTurn, BeginAttempt

LEMMA TypeCompletion == ASSUME TypeInv, Completion PROVE TypeInv'
<1>1. PICK n \in 1..MaxCalls : Say(Assistant(n))
  BY DEF Completion
<1>2. Assistant(n) \in Messages /\ Assistant(n).kind = "assistant" /\ Assistant(n).n = n
  BY MessageTypes, ConstantTypes
<1>3. copy'.messages = Append(copy.messages, Assistant(n)) /\ copy'.count = copy.count
      /\ copy' \in Conversations
  BY <1>1, <1>2, Grown DEF Say, TypeInv, TypeOK, Conversations
<1>4. /\ at'.call = 1 /\ at'.round = at.round
      /\ at' \in [round : 0..MaxToolRounds, call : 0..MaxCalls]
  BY ConstantTypes DEF TypeInv, TypeOK, Completion
<1>5. TypeOK'
  BY <1>3, <1>4 DEF TypeInv, TypeOK, Completion
<1>6. pc = "chat" /\ pc' = "tools" /\ row' = row /\ budget' = budget
      /\ at.round < MaxToolRounds
  BY DEF Completion
<1>7. Turn' = Len(copy.messages) + 1 /\ Given' = 0
  BY <1>3, <1>4, <1>6, <1>2, Fields, Grown DEF TypeInv, Turn, Given
<1>8. copy'.messages[Turn'] = Assistant(n) /\ Turn' >= 1
  BY <1>2, <1>3, <1>7, Fields, Grown DEF TypeInv
<1>9. TurnInv'
  BY <1>2, <1>4, <1>6, <1>7, <1>8 DEF TurnInv
<1>10. IsPrefix(row'.messages, copy'.messages)
  <2>1. row.messages = copy.messages /\ row.messages \in Seq(Messages)
    BY <1>6, Fields DEF TypeInv, CopyInv
  <2>2. IsPrefix(row.messages, row.messages)
    BY <2>1 DEF IsPrefix
  <2> QED
    BY <1>2, <1>3, <1>6, <2>1, <2>2, PrefixGrows
<1> QED
  BY <1>5, <1>6, <1>9, <1>10 DEF TypeInv, CopyInv, BudgetInv, InTurn

LEMMA TypeFinalAnswer == ASSUME TypeInv, FinalAnswer PROVE TypeInv'
<1>1. Assistant(0) \in Messages
  BY MessageTypes, ConstantTypes
<1>2. copy'.messages = Append(copy.messages, Assistant(0)) /\ copy' \in Conversations
  BY <1>1, Grown DEF FinalAnswer, Say, TypeInv, TypeOK, Conversations
<1>3. row' \in Conversations
  BY <1>2 DEF FinalAnswer, TypeInv, TypeOK, Conversations
<1>4. TypeOK'
  BY <1>2, <1>3 DEF TypeInv, TypeOK, FinalAnswer
<1> QED
  BY <1>4 DEF TypeInv, TurnInv, CopyInv, BudgetInv, InTurn, FinalAnswer

LEMMA TypeToolReturned == ASSUME TypeInv, ToolReturned PROVE TypeInv'
<1>1. PICK ok \in BOOLEAN :
        copy' = [messages |-> Append(copy.messages, Result(at.call, ok)),
                 count |-> copy.count + IF ok THEN 1 ELSE 0]
  BY DEF ToolReturned
<1> DEFINE x == Result(at.call, ok)
<1>2. x \in Messages /\ x.kind = "result" /\ x.n = at.call
  BY MessageTypes, Fields DEF TypeInv
<1> HIDE DEF x
<1>3. copy'.messages = Append(copy.messages, x) /\ copy' \in Conversations
  <2>1. PICK more \in {0, 1} : more = IF ok THEN 1 ELSE 0
    OBVIOUS
  <2>2. copy' = [messages |-> Append(copy.messages, x), count |-> copy.count + more]
    BY <1>1, <2>1 DEF x
  <2>3. Append(copy.messages, x) \in Seq(Messages) /\ copy.count + more \in Nat
    BY <1>2, Fields, Grown DEF TypeInv
  <2> QED
    BY <2>2, <2>3 DEF Conversations
<1>4. pc = "tools" /\ pc' = "returned" /\ row' = row /\ at' = at /\ budget' = budget
  BY DEF ToolReturned
<1>5. TypeOK'
  BY <1>3, <1>4 DEF TypeInv, TypeOK
<1>6. Turn' = Turn /\ Given' = Given + 1 /\ Given = at.call - 1 /\ Given \in Int
      /\ Turn + Given = Len(copy.messages) /\ Turn \in Int
  <2>1. Len(copy'.messages) = Len(copy.messages) + 1 /\ Len(copy.messages) \in Int
        /\ at.call \in Int
    BY <1>2, <1>3, Fields, Grown DEF TypeInv
  <2>2. Given' = at.call /\ Given = at.call - 1
    BY <1>4 DEF Given
  <2>3. Turn' = Len(copy'.messages) - Given' /\ Turn = Len(copy.messages) - Given
    BY DEF Turn
  <2>4. Given \in Int /\ Given' = Given + 1
    BY <2>1, <2>2
  <2>5. Turn = Len(copy.messages) - Given /\ Turn' = (Len(copy.messages) + 1) - (Given + 1)
    BY <2>1, <2>3, <2>4, Zenon
  <2>6. PICK len, given : len = Len(copy.messages) /\ given = Given
    OBVIOUS
  <2>7. len \in Int /\ given \in Int /\ Turn = len - given /\ Turn' = (len + 1) - (given + 1)
    BY <2>1, <2>4, <2>5, <2>6, Zenon
  <2>8. Turn' = Turn /\ Turn + given = len /\ Turn \in Int
    BY <2>7
  <2> QED
    BY <2>2, <2>4, <2>6, <2>8, Zenon
<1>7. /\ at.call >= 1 /\ at.round < MaxToolRounds
      /\ Turn >= 1 /\ copy.messages[Turn].kind = "assistant"
      /\ at.call <= copy.messages[Turn].n
      /\ \A k \in 1..Given : copy.messages[Turn + k].kind = "result"
                           /\ copy.messages[Turn + k].n = k
  BY <1>4 DEF TypeInv, TurnInv, InTurn
<1>8. Turn \in 1..Len(copy.messages) /\ copy'.messages[Turn] = copy.messages[Turn]
  BY <1>2, <1>3, <1>6, <1>7, Fields, Grown DEF TypeInv
<1>9. ASSUME NEW k \in 1..(Given + 1)
      PROVE  copy'.messages[Turn + k].kind = "result" /\ copy'.messages[Turn + k].n = k
  <2>1. CASE k = Given + 1
    <3>1. Turn + k = Len(copy.messages) + 1 /\ k = at.call
      BY <1>6, <2>1, Fields DEF TypeInv
    <3> QED
      BY <1>2, <1>3, <3>1, Fields, Grown DEF TypeInv
  <2>2. CASE k # Given + 1
    <3>1. k \in 1..Given /\ Turn + k \in 1..Len(copy.messages)
      <4>1. k \in Int /\ 1 <= k /\ k <= Given + 1 /\ Given \in Int /\ Turn \in Int
        BY <1>6
      <4>2. k <= Given /\ Turn >= 1 /\ Turn + Given = Len(copy.messages)
        BY <1>6, <1>7, <2>2, <4>1
      <4> HIDE DEF Turn, Given
      <4> QED
        BY <4>1, <4>2
    <3>2. copy'.messages[Turn + k] = copy.messages[Turn + k]
      BY <1>2, <1>3, <3>1, Fields, Grown DEF TypeInv
    <3> QED
      BY <1>7, <3>1, <3>2
  <2> QED
    BY <2>1, <2>2
<1>10. TurnInv'
  BY <1>4, <1>6, <1>7, <1>8, <1>9 DEF TurnInv
<1>11. IsPrefix(row'.messages, copy'.messages)
  BY <1>2, <1>3, <1>4, Fields, PrefixGrows DEF TypeInv, CopyInv, InTurn
<1> QED
  BY <1>4, <1>5, <1>10, <1>11 DEF TypeInv, CopyInv, BudgetInv, InTurn

(* What the turn at its results says of the conversation.                  *)
LEMMA TurnCalls ==
  ASSUME TypeInv, pc = "returned"
  PROVE  /\ Turn \in 1..Len(copy.messages) /\ Turn + at.call = Len(copy.messages)
         /\ copy.messages[Turn].kind = "assistant"
         /\ CallsOf(copy.messages) = copy.messages[Turn].n
         /\ copy.messages[Turn].n \in 0..MaxCalls
         /\ \A k \in 1..at.call : copy.messages[Turn + k].kind = "result"
                               /\ copy.messages[Turn + k].n = k
<1>1. copy.messages \in Seq(Messages) /\ at.call \in 0..MaxCalls
      /\ Len(copy.messages) \in Nat /\ DOMAIN copy.messages = 1..Len(copy.messages)
  BY Fields DEF TypeInv
<1>2. Given = at.call
  BY DEF Given
<1>3. Turn = Len(copy.messages) - at.call
  BY <1>2 DEF Turn
<1>4. /\ Turn >= 1 /\ copy.messages[Turn].kind = "assistant"
      /\ \A k \in 1..at.call : copy.messages[Turn + k].kind = "result"
                            /\ copy.messages[Turn + k].n = k
  BY <1>2 DEF TypeInv, TurnInv, InTurn
<1>5. Turn \in 1..Len(copy.messages) /\ Turn + at.call = Len(copy.messages)
  BY <1>1, <1>3, <1>4, ConstantTypes
<1>6. ASSUME NEW i \in DOMAIN copy.messages, i > Turn
      PROVE  copy.messages[i].kind # "assistant"
  <2>1. i - Turn \in 1..at.call /\ Turn + (i - Turn) = i
    BY <1>1, <1>5, <1>6
  <2> QED
    BY <1>4, <2>1
<1>7. CallsOf(copy.messages) = copy.messages[Turn].n
  BY <1>1, <1>4, <1>5, <1>6, CallsOfTurn
<1>8. copy.messages[Turn].n \in 0..MaxCalls
  BY <1>1, <1>5, MessageFields
<1> QED
  BY <1>4, <1>5, <1>7, <1>8

LEMMA TypeResultPersisted == ASSUME TypeInv, ResultPersisted PROVE TypeInv'
<1>1. pc = "returned" /\ row' = copy /\ copy' = copy /\ budget' = budget
  BY DEF ResultPersisted
<1>2. at.round \in 0..MaxToolRounds /\ at.call \in 0..MaxCalls /\ at.round < MaxToolRounds
      /\ at.call >= 1 /\ at \in [round : 0..MaxToolRounds, call : 0..MaxCalls]
  BY <1>1, Fields DEF TypeInv, TurnInv, InTurn, TypeOK
<1>3. /\ Turn \in 1..Len(copy.messages) /\ copy.messages[Turn].kind = "assistant"
      /\ CallsOf(copy.messages) = copy.messages[Turn].n
      /\ copy.messages[Turn].n \in 0..MaxCalls
      /\ \A k \in 1..at.call : copy.messages[Turn + k].kind = "result"
                            /\ copy.messages[Turn + k].n = k
  BY <1>1, TurnCalls
<1>4. IsPrefix(row'.messages, copy'.messages)
  BY <1>1, Fields DEF TypeInv, IsPrefix
<1>5. CASE at.call < CallsOf(copy.messages)
  <2>1. at' = [at EXCEPT !.call = @ + 1] /\ pc' = "tools"
    BY <1>5 DEF ResultPersisted
  <2>2. at'.call = at.call + 1 /\ at'.round = at.round
        /\ at' \in [round : 0..MaxToolRounds, call : 0..MaxCalls]
    <3>1. at.call + 1 \in 0..MaxCalls
      BY <1>2, <1>3, <1>5, ConstantTypes
    <3> QED
      BY <1>2, <2>1, <3>1
  <2>3. TypeOK'
    BY <1>1, <2>1, <2>2 DEF TypeInv, TypeOK
  <2>4. Given' = at.call /\ Given = at.call
    BY <1>1, <1>2, <2>1, <2>2 DEF Given
  <2>5. Turn' = Turn
    BY <1>1, <2>4 DEF Turn
  <2>6. TurnInv'
    BY <1>1, <1>2, <1>3, <1>5, <2>1, <2>2, <2>4, <2>5, ConstantTypes DEF TurnInv
  <2> QED
    BY <1>1, <1>4, <2>1, <2>3, <2>6 DEF TypeInv, CopyInv, BudgetInv
<1>6. CASE ~ (at.call < CallsOf(copy.messages))
  <2>1. at' = [round |-> at.round + 1, call |-> 0] /\ pc' = "chat"
    BY <1>6 DEF ResultPersisted
  <2>2. TypeOK'
    BY <1>1, <1>2, <2>1, ConstantTypes DEF TypeInv, TypeOK
  <2> QED
    BY <1>1, <2>1, <2>2 DEF TypeInv, TurnInv, CopyInv, BudgetInv, InTurn
<1> QED
  BY <1>5, <1>6

(* The attempt ends, however it does.                                      *)
LEMMA TypeEnd ==
  ASSUME TypeInv, pc' \in {"idle", "completed"}, copy' = copy, at' = at,
         row' \in Conversations,
         budget' \in [attempts : Nat, raises : Nat, crashes : Nat],
         budget'.raises <= budget.raises, budget'.crashes <= budget.crashes
  PROVE  TypeInv'
<1>1. TypeOK'
  BY DEF TypeInv, TypeOK
<1>2. BudgetInv'
  BY <1>1, Fields, ConstantTypes DEF TypeInv, TypeOK, BudgetInv
<1> QED
  BY <1>1, <1>2 DEF TypeInv, TurnInv, CopyInv, InTurn

LEMMA TypeStep == TypeInv /\ [Next]_vars => TypeInv'
<1> SUFFICES ASSUME TypeInv, [Next]_vars PROVE TypeInv'
  OBVIOUS
<1>1. CASE BeginAttempt
  BY <1>1, TypeBeginAttempt
<1>2. CASE Completion
  BY <1>2, TypeCompletion
<1>3. CASE FinalAnswer
  BY <1>3, TypeFinalAnswer
<1>4. CASE ToolReturned
  BY <1>4, TypeToolReturned
<1>5. CASE ResultPersisted
  BY <1>5, TypeResultPersisted
<1>6. CASE ChatFailed \/ Verified
  <2>1. /\ pc' \in {"idle", "completed"} /\ copy' = copy /\ at' = at /\ row' \in Conversations
        /\ budget' = budget
    BY <1>6 DEF ChatFailed, Verified, TypeInv, TypeOK
  <2> QED
    BY <2>1, TypeEnd, Fields DEF TypeInv, TypeOK
<1>7. CASE Rejected
  <2>1. pc' = "idle" /\ copy' = copy /\ at' = at /\ budget' = budget
        /\ row' = [row EXCEPT !.messages = Append(@, User)]
    BY <1>7 DEF Rejected
  <2>2. row' \in Conversations
    BY <2>1, MessageTypes, Grown DEF TypeInv, TypeOK, Conversations
  <2> QED
    BY <2>1, <2>2, TypeEnd, Fields DEF TypeInv, TypeOK
<1>8. CASE ToolRaised
  <2>1. pc' = "idle" /\ copy' = copy /\ at' = at /\ row' \in Conversations
        /\ budget.raises > 0 /\ budget' = [budget EXCEPT !.raises = @ - 1]
    BY <1>8 DEF ToolRaised, TypeInv, TypeOK
  <2>2. budget' \in [attempts : Nat, raises : Nat, crashes : Nat]
        /\ budget'.raises = budget.raises - 1 /\ budget'.crashes = budget.crashes
    BY <2>1 DEF TypeInv, TypeOK
  <2>3. budget'.raises <= budget.raises /\ budget'.crashes <= budget.crashes
    BY <2>2, Fields DEF TypeInv
  <2> QED
    BY <2>1, <2>2, <2>3, TypeEnd
<1>9. CASE Crash
  <2>1. pc' = "idle" /\ copy' = copy /\ at' = at /\ row' \in Conversations
        /\ budget.crashes > 0 /\ budget' = [budget EXCEPT !.crashes = @ - 1]
    BY <1>9 DEF Crash, TypeInv, TypeOK
  <2>2. budget' \in [attempts : Nat, raises : Nat, crashes : Nat]
        /\ budget'.crashes = budget.crashes - 1 /\ budget'.raises = budget.raises
    BY <2>1 DEF TypeInv, TypeOK
  <2>3. budget'.raises <= budget.raises /\ budget'.crashes <= budget.crashes
    BY <2>2, Fields DEF TypeInv
  <2> QED
    BY <2>1, <2>2, <2>3, TypeEnd
<1>10. CASE UNCHANGED vars
  BY <1>10 DEF vars, TypeInv, TypeOK, TurnInv, CopyInv, BudgetInv, InTurn, Turn, Given
<1> QED
  BY <1>1, <1>2, <1>3, <1>4, <1>5, <1>6, <1>7, <1>8, <1>9, <1>10 DEF Next

LEMMA TypeHolds == Spec => []TypeInv
BY TypeInit, TypeStep, PTL DEF Spec

(* No attempt goes beyond its rounds or the calls of its turn.             *)
THEOREM TypeCorrect == Spec => []TypeOK
<1>1. TypeInv => TypeOK
  BY DEF TypeInv
<1> QED
  BY <1>1, TypeHolds, PTL

-----------------------------------------------------------------------------
(* The conversation is never taken back                                    *)

(* However attempts are cut off and repeated: what is persisted of the     *)
(* conversation stays its beginning.                                       *)
THEOREM ConversationIsKept == Spec => ConversationGrows
<1>1. ASSUME TypeInv, [Next]_vars PROVE IsPrefix(row.messages, row'.messages)
  <2>0. row.messages \in Seq(Messages) /\ IsPrefix(row.messages, row.messages)
    BY <1>1, Fields DEF TypeInv, IsPrefix
  <2>1. CASE FinalAnswer
    <3>1. row = copy /\ row'.messages = Append(copy.messages, Assistant(0))
      BY <1>1, <2>1, Fields, Grown DEF FinalAnswer, Say, TypeInv, CopyInv, TypeOK, Conversations
    <3>2. Assistant(0) \in Messages
      BY MessageTypes, ConstantTypes
    <3> QED
      BY <2>0, <3>1, <3>2, PrefixGrows
  <2>2. CASE ResultPersisted
    BY <1>1, <2>2 DEF ResultPersisted, TypeInv, CopyInv, InTurn
  <2>3. CASE Rejected
    <3>1. row'.messages = Append(row.messages, User)
      BY <1>1, <2>3 DEF Rejected, TypeInv, TypeOK, Conversations
    <3> QED
      BY <2>0, <3>1, MessageTypes, PrefixGrows
  <2>4. CASE row' = row
    BY <2>0, <2>4
  <2> QED
    BY <1>1, <2>1, <2>2, <2>3, <2>4
    DEF Next, BeginAttempt, Completion, ChatFailed, ToolReturned, ToolRaised, Verified,
        Crash, vars
<1>2. TypeInv /\ [Next]_vars => [IsPrefix(row.messages, row'.messages)]_vars
  BY <1>1
<1> QED
  BY <1>2, TypeHolds, PTL DEF Spec, ConversationGrows

-----------------------------------------------------------------------------
(* The count of successful calls                                           *)

(* The attempt's copy keeps the count of its own messages.                 *)
CountInv ==
  /\ AllAsked(row.messages) /\ AllAsked(copy.messages)
  /\ row.count = Cardinality(Successes(row.messages))
  /\ copy.count = Cardinality(Successes(copy.messages))

LEMMA CountInit == Init => CountInv
<1> SUFFICES ASSUME Init PROVE CountInv
  OBVIOUS
<1>1. row.messages = <<User>> /\ copy.messages = <<User>> /\ row.count = 0 /\ copy.count = 0
  BY DEF Init, Submitted
<1>2. \A i \in DOMAIN <<User>> : <<User>>[i].kind = "user"
  BY MessageTypes
<1>3. AllAsked(<<User>>)
  BY <1>2 DEF AllAsked, AsksFor
<1>4. Successes(<<User>>) = {}
  BY <1>2 DEF Successes
<1> QED
  BY <1>1, <1>3, <1>4, FS_EmptySet DEF CountInv

(* A message that is no result leaves the count as it is.                  *)
LEMMA CountGrows ==
  ASSUME NEW m \in Seq(Messages), NEW x \in Messages, AllAsked(m), x.kind # "result"
  PROVE  /\ AllAsked(Append(m, x))
         /\ Cardinality(Successes(Append(m, x))) = Cardinality(Successes(m))
<1>1. AsksFor(Append(m, x), Len(m) + 1)
  BY Grown DEF AsksFor
<1>2. Cardinality(Successes(m)) \in Nat
  BY SuccessesFinite
<1>3. Cardinality(Successes(Append(m, x)))
        = Cardinality(Successes(m)) + IF x.kind = "result" /\ x.ok THEN 1 ELSE 0
  BY SuccessesGrow
<1> QED
  BY <1>1, <1>2, <1>3, AskedGrow

LEMMA CountToolReturned == ASSUME TypeInv, CountInv, ToolReturned PROVE CountInv'
<1>0. TypeInv'
  BY TypeToolReturned
<1>1. PICK ok \in BOOLEAN :
        copy' = [messages |-> Append(copy.messages, Result(at.call, ok)),
                 count |-> copy.count + IF ok THEN 1 ELSE 0]
  BY DEF ToolReturned
<1> DEFINE x == Result(at.call, ok)
           m == copy.messages
<1>2. x \in Messages /\ x.kind = "result" /\ x.n = at.call /\ x.ok = ok
  BY MessageTypes, Fields DEF TypeInv
<1>3. m \in Seq(Messages) /\ copy'.messages = Append(m, x)
      /\ copy'.count = copy.count + IF ok THEN 1 ELSE 0
  BY <1>1, Fields DEF TypeInv
<1> HIDE DEF x
<1>4. /\ Turn = Len(m) + 1 - at.call /\ Turn >= 1 /\ m[Turn].kind = "assistant"
      /\ at.call <= m[Turn].n /\ at.call \in Nat /\ at.call >= 1
  <2>1. pc = "tools" /\ Given = at.call - 1 /\ at.call \in Nat /\ Len(m) \in Nat
    BY Fields, Grown DEF ToolReturned, Given, TypeInv
  <2>2. /\ at.call >= 1 /\ Turn >= 1 /\ m[Turn].kind = "assistant"
        /\ at.call <= m[Turn].n
    BY <2>1 DEF TypeInv, TurnInv, InTurn
  <2>3. Turn = Len(m) - (at.call - 1)
    BY <2>1 DEF Turn
  <2> QED
    BY <2>1, <2>2, <2>3
<1>5. AsksFor(Append(m, x), Len(m) + 1)
  <2>1. Append(m, x)[Len(m) + 1] = x
    BY <1>2, <1>3, Grown
  <2>2. Turn \in 1..Len(m) /\ Len(m) + 1 - x.n = Turn
    BY <1>2, <1>3, <1>4, Grown
  <2>3. Append(m, x)[Turn] = m[Turn]
    BY <1>2, <1>3, <2>2, Grown
  <2> QED
    BY <1>2, <1>4, <2>1, <2>2, <2>3 DEF AsksFor
<1>6. AllAsked(copy'.messages)
  BY <1>2, <1>3, <1>5, AskedGrow DEF CountInv
<1>7. copy'.count = Cardinality(Successes(copy'.messages))
  <2>1. Cardinality(Successes(Append(m, x)))
          = Cardinality(Successes(m)) + IF x.kind = "result" /\ x.ok THEN 1 ELSE 0
    BY <1>2, <1>3, SuccessesGrow
  <2> QED
    BY <1>2, <1>3, <2>1 DEF CountInv
<1>8. row' = row
  BY DEF ToolReturned
<1> QED
  BY <1>6, <1>7, <1>8 DEF CountInv

LEMMA CountStep == TypeInv /\ CountInv /\ [Next]_vars => CountInv'
<1> SUFFICES ASSUME TypeInv, CountInv, [Next]_vars PROVE CountInv'
  OBVIOUS
<1>0. /\ row.messages \in Seq(Messages) /\ copy.messages \in Seq(Messages)
      /\ row.count \in Nat /\ copy.count \in Nat
  BY Fields DEF TypeInv
<1>1. CASE BeginAttempt
  BY <1>1 DEF BeginAttempt, CountInv
<1>2. CASE Completion
  <2>1. PICK n \in 1..MaxCalls : Say(Assistant(n))
    BY <1>2 DEF Completion
  <2>2. Assistant(n) \in Messages /\ Assistant(n).kind = "assistant"
    BY MessageTypes, ConstantTypes
  <2>3. copy'.messages = Append(copy.messages, Assistant(n)) /\ copy'.count = copy.count
    BY <2>1, Fields DEF Say, TypeInv
  <2>4. row' = row
    BY <1>2 DEF Completion
  <2> QED
    BY <1>0, <2>2, <2>3, <2>4, CountGrows DEF CountInv
<1>3. CASE FinalAnswer
  <2>1. Assistant(0) \in Messages /\ Assistant(0).kind = "assistant"
    BY MessageTypes, ConstantTypes
  <2>2. copy'.messages = Append(copy.messages, Assistant(0)) /\ copy'.count = copy.count
    BY <1>3, Fields DEF FinalAnswer, Say, TypeInv
  <2>3. row'.messages = copy'.messages /\ row'.count = row.count /\ row = copy
    BY <1>3, Fields DEF FinalAnswer, TypeInv, CopyInv
  <2> QED
    BY <1>0, <2>1, <2>2, <2>3, CountGrows DEF CountInv
<1>4. CASE ToolReturned
  BY <1>4, CountToolReturned
<1>5. CASE ResultPersisted
  BY <1>5 DEF ResultPersisted, CountInv
<1>6. CASE Rejected
  <2>1. row'.messages = Append(row.messages, User) /\ row'.count = row.count /\ copy' = copy
    BY <1>6, Fields DEF Rejected, TypeInv
  <2> QED
    BY <1>0, <2>1, MessageTypes, CountGrows DEF CountInv
<1>7. CASE row' = row /\ copy' = copy
  BY <1>7 DEF CountInv
<1> QED
  BY <1>1, <1>2, <1>3, <1>4, <1>5, <1>6, <1>7
  DEF Next, ChatFailed, ToolRaised, Verified, Crash, vars

(* Whatever cuts attempts off: every result in a conversation follows the  *)
(* turn that asked for it, and the number of successful calls the gate     *)
(* relies on is the number of successful results persisted.                *)
THEOREM CountIsOfMessages == Spec => []CountMatchesMessages
<1>1. CountInv => CountMatchesMessages
  BY DEF CountInv, CountMatchesMessages, AllAsked
<1> QED
  BY <1>1, CountInit, CountStep, TypeHolds, PTL DEF Spec

-----------------------------------------------------------------------------
(* No call without its result                                              *)

Uncut == budget.raises = MaxRaises /\ budget.crashes = MaxCrashes

AnsweredBelow(m, t) ==
  \A i \in DOMAIN m : i < t /\ m[i].kind = "assistant" => Answered(m, i)

(* What is persisted is answered, except while a turn is being answered;   *)
(* then everything before it is.                                           *)
AnswersInv ==
  Uncut =>
    /\ ~InTurn => AllAnswered(row.messages)
    /\ InTurn => AnsweredBelow(copy.messages, Turn)

LEMMA AnswersInit == Init => AnswersInv
<1> SUFFICES ASSUME Init PROVE AnswersInv
  OBVIOUS
<1>1. row.messages = <<User>> /\ ~InTurn
  BY DEF Init, Submitted, InTurn
<1>2. \A i \in DOMAIN <<User>> : <<User>>[i].kind # "assistant"
  BY MessageTypes
<1> QED
  BY <1>1, <1>2 DEF AnswersInv, AllAnswered

(* A message without calls leaves nothing unanswered.                      *)
LEMMA AnswersGrow ==
  ASSUME NEW m \in Seq(Messages), NEW x \in Messages, AllAnswered(m),
         x.kind = "assistant" => x.n = 0
  PROVE  AllAnswered(Append(m, x))
<1> SUFFICES ASSUME NEW i \in DOMAIN Append(m, x), Append(m, x)[i].kind = "assistant"
             PROVE  Answered(Append(m, x), i)
  BY DEF AllAnswered
<1>1. CASE i = Len(m) + 1
  BY <1>1, Grown DEF Answered
<1>2. CASE i # Len(m) + 1
  <2>1. i \in DOMAIN m /\ Append(m, x)[i] = m[i]
    BY <1>2, Grown
  <2> QED
    BY <2>1, AnsweredGrow DEF AllAnswered
<1> QED
  BY <1>1, <1>2

LEMMA BelowGrows ==
  ASSUME NEW m \in Seq(Messages), NEW x \in Messages, NEW t \in Int, t <= Len(m) + 1,
         AnsweredBelow(m, t)
  PROVE  AnsweredBelow(Append(m, x), t)
<1> SUFFICES ASSUME NEW i \in DOMAIN Append(m, x), i < t, Append(m, x)[i].kind = "assistant"
             PROVE  Answered(Append(m, x), i)
  BY DEF AnsweredBelow
<1>1. i \in DOMAIN m /\ Append(m, x)[i] = m[i]
  BY Grown
<1> QED
  BY <1>1, AnsweredGrow DEF AnsweredBelow

(* The last result of a turn completes the conversation.                   *)
LEMMA TurnAnswered ==
  ASSUME TypeInv, pc = "returned", AnsweredBelow(copy.messages, Turn),
         ~ (at.call < CallsOf(copy.messages))
  PROVE  AllAnswered(copy.messages)
<1> DEFINE m == copy.messages
<1>1. /\ Turn \in 1..Len(m) /\ Turn + at.call = Len(m)
      /\ CallsOf(m) = m[Turn].n /\ m[Turn].n \in 0..MaxCalls
      /\ \A k \in 1..at.call : m[Turn + k].kind = "result" /\ m[Turn + k].n = k
  BY TurnCalls
<1>2. m \in Seq(Messages) /\ at.call \in Nat /\ Len(m) \in Nat /\ DOMAIN m = 1..Len(m)
  BY Fields DEF TypeInv
<1>3. at.call <= m[Turn].n
  BY DEF TypeInv, TurnInv, InTurn
<1>4. m[Turn].n = at.call
  <2>1. ~ (at.call < m[Turn].n) /\ m[Turn].n \in Nat
    BY <1>1, ConstantTypes
  <2> QED
    BY <1>2, <1>3, <2>1
<1> HIDE DEF m
<1> SUFFICES ASSUME NEW i \in DOMAIN m, m[i].kind = "assistant" PROVE Answered(m, i)
  BY DEF AllAnswered, m
<1>5. CASE i < Turn
  BY <1>5 DEF AnsweredBelow, m
<1>6. CASE i = Turn
  BY <1>1, <1>2, <1>4, <1>6 DEF Answered
<1>7. CASE i > Turn
  <2>1. i - Turn \in 1..at.call /\ Turn + (i - Turn) = i
    BY <1>1, <1>2, <1>7
  <2>2. m[i].kind = "result"
    BY <1>1, <2>1
  <2> QED
    BY <2>2
<1> QED
  BY <1>1, <1>2, <1>5, <1>6, <1>7

LEMMA AnswersStep == TypeInv /\ AnswersInv /\ [Next]_vars => AnswersInv'
<1> SUFFICES ASSUME TypeInv, AnswersInv, [Next]_vars, Uncut'
             PROVE  /\ ~InTurn' => AllAnswered(row'.messages)
                    /\ InTurn' => AnsweredBelow(copy'.messages, Turn')
  BY DEF AnswersInv
<1>0. row.messages \in Seq(Messages) /\ copy.messages \in Seq(Messages)
  BY Fields DEF TypeInv
<1>1. CASE BeginAttempt
  <2>1. Uncut
    <3>1. budget'.raises = budget.raises /\ budget'.crashes = budget.crashes
      BY <1>1 DEF BeginAttempt, TypeInv, TypeOK
    <3> QED
      BY <3>1 DEF Uncut
  <2> QED
    BY <1>1, <2>1 DEF BeginAttempt, AnswersInv, InTurn
<1>2. CASE Completion
  <2>1. PICK n \in 1..MaxCalls : Say(Assistant(n))
    BY <1>2 DEF Completion
  <2>2. Assistant(n) \in Messages
    BY MessageTypes, ConstantTypes
  <2>3. copy'.messages = Append(copy.messages, Assistant(n)) /\ at'.call = 1
    BY <1>2, <2>1, Fields DEF Say, Completion, TypeInv, TypeOK
  <2>4. pc = "chat" /\ pc' = "tools" /\ row = copy /\ Uncut
    BY <1>2 DEF Completion, TypeInv, CopyInv, Uncut
  <2>5. Given' = 0
    BY <2>3, <2>4 DEF Given
  <2>6. Turn' = Len(copy.messages) + 1 /\ Len(copy.messages) \in Nat
    BY <1>0, <2>2, <2>3, <2>5, Grown DEF Turn
  <2>7. AllAnswered(copy.messages)
    BY <2>4 DEF AnswersInv, InTurn
  <2>8. AnsweredBelow(copy.messages, Len(copy.messages) + 1)
    BY <2>7 DEF AllAnswered, AnsweredBelow
  <2>9. AnsweredBelow(copy'.messages, Turn')
    BY <1>0, <2>2, <2>3, <2>6, <2>8, BelowGrows
  <2> QED
    BY <2>4, <2>9 DEF InTurn
<1>3. CASE FinalAnswer
  <2>1. Assistant(0) \in Messages /\ Assistant(0).n = 0
    BY MessageTypes, ConstantTypes
  <2>2. row'.messages = Append(copy.messages, Assistant(0)) /\ row = copy
    BY <1>3, Fields DEF FinalAnswer, Say, TypeInv, CopyInv
  <2>3. AllAnswered(copy.messages) /\ ~InTurn'
    BY <1>3, <2>2 DEF FinalAnswer, AnswersInv, InTurn, Uncut
  <2> QED
    BY <1>0, <2>1, <2>2, <2>3, AnswersGrow
<1>4. CASE ToolReturned
  <2>1. PICK ok \in BOOLEAN : copy'.messages = Append(copy.messages, Result(at.call, ok))
    BY <1>4 DEF ToolReturned
  <2>2. Result(at.call, ok) \in Messages
    BY MessageTypes, Fields DEF TypeInv
  <2>3. pc = "tools" /\ pc' = "returned" /\ at' = at /\ Uncut
    BY <1>4 DEF ToolReturned, Uncut
  <2>4. Given' = at.call /\ Given = at.call - 1 /\ at.call \in Nat /\ at.call >= 1
    BY <2>3, Fields DEF Given, TypeInv, TurnInv, InTurn
  <2>5. Len(copy'.messages) = Len(copy.messages) + 1 /\ Len(copy.messages) \in Nat
    BY <1>0, <2>1, <2>2, Grown
  <2>6. Turn' = (Len(copy.messages) + 1) - at.call /\ Turn = Len(copy.messages) - (at.call - 1)
    BY <2>4, <2>5, Zenon DEF Turn
  <2>7. PICK len, call : len = Len(copy.messages) /\ call = at.call
    OBVIOUS
  <2>8. len \in Nat /\ call \in Nat /\ call >= 1
        /\ Turn' = (len + 1) - call /\ Turn = len - (call - 1)
    BY <2>4, <2>5, <2>6, <2>7, Zenon
  <2>9. Turn' = Turn /\ Turn \in Int /\ Turn <= len + 1
    BY <2>8
  <2>10. AnsweredBelow(copy.messages, Turn)
    BY <2>3 DEF AnswersInv, InTurn
  <2>11. AnsweredBelow(Append(copy.messages, Result(at.call, ok)), Turn)
    BY <1>0, <2>2, <2>7, <2>9, <2>10, BelowGrows
  <2> QED
    BY <2>1, <2>3, <2>9, <2>11, Zenon DEF InTurn
<1>5. CASE ResultPersisted
  <2>1. pc = "returned" /\ row' = copy /\ copy' = copy /\ Uncut
    BY <1>5 DEF ResultPersisted, Uncut
  <2>2. AnsweredBelow(copy.messages, Turn)
    BY <2>1 DEF AnswersInv, InTurn
  <2>3. CASE at.call < CallsOf(copy.messages)
    <3>1. pc' = "tools" /\ at' = [at EXCEPT !.call = @ + 1]
      BY <1>5, <2>3 DEF ResultPersisted
    <3>2. at'.call = at.call + 1 /\ at.call \in Nat
      BY <3>1, Fields DEF TypeInv, TypeOK
    <3>3. Given' = Given
      BY <2>1, <3>1, <3>2 DEF Given
    <3>4. Turn' = Turn
      BY <2>1, <3>3 DEF Turn
    <3> QED
      BY <2>1, <2>2, <3>1, <3>4, Zenon DEF InTurn
  <2>4. CASE ~ (at.call < CallsOf(copy.messages))
    <3>1. pc' = "chat"
      BY <1>5, <2>4 DEF ResultPersisted
    <3>2. AllAnswered(copy.messages)
      BY <2>1, <2>2, <2>4, TurnAnswered
    <3> QED
      BY <2>1, <3>1, <3>2 DEF InTurn
  <2> QED
    BY <2>3, <2>4
<1>6. CASE Rejected
  <2>1. row'.messages = Append(row.messages, User) /\ pc = "verify" /\ pc' = "idle" /\ Uncut
    BY <1>6, Fields DEF Rejected, TypeInv, Uncut
  <2>2. AllAnswered(row.messages)
    BY <2>1 DEF AnswersInv, InTurn
  <2> QED
    BY <1>0, <2>1, <2>2, MessageTypes, AnswersGrow DEF InTurn
<1>7. CASE ChatFailed \/ Verified
  BY <1>7 DEF ChatFailed, Verified, AnswersInv, InTurn, Uncut
<1>8. CASE ToolRaised \/ Crash
  <2>1. budget.raises \in Nat /\ budget.crashes \in Nat
        /\ budget.raises <= MaxRaises /\ budget.crashes <= MaxCrashes
    BY Fields DEF TypeInv, BudgetInv
  <2>2. budget'.raises = budget.raises - 1 \/ budget'.crashes = budget.crashes - 1
    BY <1>8 DEF ToolRaised, Crash, TypeInv, TypeOK
  <2>3. ~Uncut'
    BY <2>1, <2>2, ConstantTypes DEF Uncut
  <2> QED
    BY <2>3
<1>9. CASE UNCHANGED vars
  BY <1>9 DEF vars, AnswersInv, InTurn, Uncut, Turn, Given
<1> QED
  BY <1>1, <1>2, <1>3, <1>4, <1>5, <1>6, <1>7, <1>8, <1>9 DEF Next

(* README step 6, for tasks nothing cut off: however rounds, attempts and  *)
(* rejections follow each other, every request goes out with a result for  *)
(* each tool call in the conversation.                                     *)
THEOREM CallsAreAnswered == Spec => []UncutCallsAnswered
<1>1. TypeInv /\ AnswersInv => UncutCallsAnswered
  <2> SUFFICES ASSUME TypeInv, AnswersInv, Uncut, pc = "chat"
               PROVE  \A i \in DOMAIN copy.messages :
                        copy.messages[i].kind = "assistant" => Answered(copy.messages, i)
    BY DEF UncutCallsAnswered, EveryCallAnswered, Uncut
  <2>1. row = copy /\ AllAnswered(row.messages)
    BY DEF TypeInv, CopyInv, AnswersInv, InTurn
  <2> QED
    BY <2>1 DEF AllAnswered
<1> QED
  BY <1>1, AnswersInit, AnswersStep, TypeHolds, PTL DEF Spec

=============================================================================
