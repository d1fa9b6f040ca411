----------------------------- MODULE ToolLoop ------------------------------
(***************************************************************************)
(* The conversation of one task: _tool_loop of cortex_v5/runtime.py,       *)
(* attempt after attempt, with what run() does to the conversation around  *)
(* it.  The attempt works on a copy of the persisted messages and writes   *)
(* the copy back after every tool result; what is not persisted when the   *)
(* attempt ends is forgotten.                                              *)
(*                                                                         *)
(* A message is a user turn, an assistant turn with the number n of its    *)
(* tool calls (0 for the final answer) or the result of its n-th call.     *)
(* The lock of the task makes attempts sequential (TaskRuntime); which     *)
(* model runs the next one, and when, does not matter here.                *)
(***************************************************************************)
EXTENDS Integers, FiniteSets, SequencesExt

CONSTANTS MaxToolRounds,  \* settings.max_tool_rounds
          MaxCalls,       \* bound: tool calls in one completion
          MaxAttempts,    \* bound: attempts explored
          MaxRaises,      \* bound: exceptions out of a tool call or its recording
          MaxCrashes      \* bound: process deaths

ASSUME LoopAssumption ==
  /\ MaxToolRounds \in Nat /\ MaxCalls \in Nat \ {0} /\ MaxAttempts \in Nat
  /\ MaxRaises \in Nat /\ MaxCrashes \in Nat

VARIABLES
  row,     \* persisted messages and successful_tool_calls
  copy,    \* the attempt's own
  pc,      \* idle, chat, tools, returned, verify or completed
  at,      \* the attempt's round and the next tool call of it
  budget   \* attempts, raises and crashes still allowed

vars == <<row, copy, pc, at, budget>>

User == [kind |-> "user", n |-> 0, ok |-> FALSE]
Assistant(calls) == [kind |-> "assistant", n |-> calls, ok |-> FALSE]
Result(call, ok) == [kind |-> "result", n |-> call, ok |-> ok]

Submitted == [messages |-> <<User>>, count |-> 0]

Init ==
  /\ row = Submitted
  /\ copy = Submitted
  /\ pc = "idle"
  /\ at = [round |-> 0, call |-> 0]
  /\ budget = [attempts |-> MaxAttempts, raises |-> MaxRaises, crashes |-> MaxCrashes]

Say(message) == copy' = [copy EXCEPT !.messages = Append(@, message)]

(* Mutant of BeginAttempt: every attempt starts from the submitted prompt. *)
BeginAttemptAfresh ==
  /\ pc = "idle"
  /\ budget.attempts > 0 /\ budget' = [budget EXCEPT !.attempts = @ - 1]
  /\ copy' = Submitted
  /\ at' = [round |-> 0, call |-> 0]
  /\ pc' = "chat"
  /\ UNCHANGED row

(* The loop is entered with the task as persisted.                         *)
BeginAttempt ==
  /\ pc = "idle"
  /\ budget.attempts > 0 /\ budget' = [budget EXCEPT !.attempts = @ - 1]
  /\ copy' = row
  /\ at' = [round |-> 0, call |-> 0]
  /\ pc' = "chat"
  /\ UNCHANGED row

(* Mutant of Completion: one round too many.                               *)
CompletionOnceMore ==
  /\ pc = "chat" /\ at.round <= MaxToolRounds
  /\ \E n \in 1..MaxCalls : Say(Assistant(n))
  /\ at' = [at EXCEPT !.call = 1]
  /\ pc' = "tools"
  /\ UNCHANGED <<row, budget>>

(* A completion with tool calls: the assistant turn is not persisted yet.  *)
Completion ==
  /\ pc = "chat" /\ at.round < MaxToolRounds
  /\ \E n \in 1..MaxCalls : Say(Assistant(n))
  /\ at' = [at EXCEPT !.call = 1]
  /\ pc' = "tools"
  /\ UNCHANGED <<row, budget>>

FinalAnswer ==
  /\ pc = "chat"
  /\ Say(Assistant(0))
  /\ row' = [row EXCEPT !.messages = copy'.messages]
  /\ pc' = "verify"
  /\ UNCHANGED <<at, budget>>

(* The request fails, or asks for tools once more than is allowed.         *)
ChatFailed ==
  /\ pc = "chat"
  /\ pc' = "idle"
  /\ UNCHANGED <<row, copy, at, budget>>

(* Mutant of ToolReturned: failed calls are counted too.                   *)
ToolReturnedCounted ==
  /\ pc = "tools"
  /\ \E ok \in BOOLEAN :
       copy' = [messages |-> Append(copy.messages, Result(at.call, ok)),
                count |-> copy.count + 1]
  /\ pc' = "returned"
  /\ UNCHANGED <<row, at, budget>>

(* tools.execute returns a result, ok or not ...                           *)
ToolReturned ==
  /\ pc = "tools"
  /\ \E ok \in BOOLEAN :
       copy' = [messages |-> Append(copy.messages, Result(at.call, ok)),
                count |-> copy.count + IF ok THEN 1 ELSE 0]
  /\ pc' = "returned"
  /\ UNCHANGED <<row, at, budget>>

(* The number of calls of the turn that is being answered, the last one.   *)
CallsOf(messages) ==
  LET Turns == {i \in DOMAIN messages : messages[i].kind = "assistant"}
      last  == CHOOSE i \in Turns : \A j \in Turns : j <= i
  IN  messages[last].n

(* Mutant of ResultPersisted: the next request goes out after the first    *)
(* call of a turn.                                                         *)
ResultPersistedOnce ==
  /\ pc = "returned"
  /\ row' = copy
  /\ at' = [round |-> at.round + 1, call |-> 0] /\ pc' = "chat"
  /\ UNCHANGED <<copy, budget>>

(* ... which is persisted once its event is recorded.                      *)
ResultPersisted ==
  /\ pc = "returned"
  /\ row' = copy
  /\ IF at.call < CallsOf(copy.messages)
     THEN at' = [at EXCEPT !.call = @ + 1] /\ pc' = "tools"
     ELSE at' = [round |-> at.round + 1, call |-> 0] /\ pc' = "chat"
  /\ UNCHANGED <<copy, budget>>

(* tools.execute lets other exceptions than its own through (a file that   *)
(* is not UTF-8), _record can fail: the attempt fails.                     *)
ToolRaised ==
  /\ pc \in {"tools", "returned"}
  /\ budget.raises > 0 /\ budget' = [budget EXCEPT !.raises = @ - 1]
  /\ pc' = "idle"
  /\ UNCHANGED <<row, copy, at>>

Verified ==
  /\ pc = "verify"
  /\ pc' = "completed"
  /\ UNCHANGED <<row, copy, at, budget>>

Rejected ==
  /\ pc = "verify"
  /\ row' = [row EXCEPT !.messages = Append(@, User)]
  /\ pc' = "idle"
  /\ UNCHANGED <<copy, at, budget>>

Crash ==
  /\ pc \notin {"idle", "completed"}
  /\ budget.crashes > 0 /\ budget' = [budget EXCEPT !.crashes = @ - 1]
  /\ pc' = "idle"
  /\ UNCHANGED <<row, copy, at>>

Next ==
  \/ BeginAttempt \/ Completion \/ FinalAnswer \/ ChatFailed
  \/ ToolReturned \/ ResultPersisted \/ ToolRaised
  \/ Verified \/ Rejected \/ Crash

Spec == Init /\ [][Next]_vars

-----------------------------------------------------------------------------
Messages == [kind : {"user", "assistant", "result"}, n : 0..MaxCalls, ok : BOOLEAN]
Conversations == [messages : Seq(Messages), count : Nat]

TypeOK ==
  /\ row \in Conversations /\ copy \in Conversations
  /\ pc \in {"idle", "chat", "tools", "returned", "verify", "completed"}
  /\ at \in [round : 0..MaxToolRounds, call : 0..MaxCalls]
  /\ budget \in [attempts : Nat, raises : Nat, crashes : Nat]

(* The turn that message i of a conversation answers, if it is a result.   *)
AsksFor(m, i) ==
  m[i].kind = "result" =>
    LET turn == i - m[i].n
    IN  /\ turn > 0
        /\ m[turn].kind = "assistant" /\ m[turn].n >= m[i].n

(* The successful results of a conversation.                               *)
Successes(m) == {i \in DOMAIN m : m[i].kind = "result" /\ m[i].ok}

(* Whatever was cut off, no result is persisted or sent without the turn   *)
(* that asked for it right before its results; and successful_tool_calls,  *)
(* on which verification relies for executable tasks, is the number of     *)
(* successful results in the persisted messages: no attempt counts a call  *)
(* twice or keeps the count of a forgotten one.                            *)
CountMatchesMessages ==
  /\ \A c \in {row.messages, copy.messages} : \A i \in DOMAIN c : AsksFor(c, i)
  /\ row.count = Cardinality(Successes(row.messages))

(* Every attempt builds on the conversation as it stands: no write of an   *)
(* attempt's copy takes back a turn that was persisted.                    *)
ConversationGrows == [][IsPrefix(row.messages, row'.messages)]_vars

(* Message i and the results it asks for.                                  *)
Answered(m, i) ==
  \A call \in 1..m[i].n :
    i + call \in DOMAIN m /\ m[i + call].kind = "result" /\ m[i + call].n = call

(* README step 6: tools are executed "returning each result through a new  *)
(* streamed chat request": a request goes out only when every tool call of *)
(* the conversation has its result.  An exception out of a call (execute   *)
(* catches a few kinds only) leaves the later calls of its turn without.   *)
EveryCallAnswered ==
  pc = "chat" =>
    \A i \in DOMAIN copy.messages :
      copy.messages[i].kind = "assistant" => Answered(copy.messages, i)

(* So this holds while no call raised and the process did not die: then    *)
(* no interplay of rounds, attempts and rejections skips a result.         *)
UncutCallsAnswered ==
  budget.raises = MaxRaises /\ budget.crashes = MaxCrashes => EveryCallAnswered
=============================================================================
