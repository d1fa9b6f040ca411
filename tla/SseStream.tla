----------------------------- MODULE SseStream ------------------------------
(***************************************************************************)
(* parse_sse of cortex_v5/litellm.py, reading one streamed completion from *)
(* a provider over a connection that may break at any character.           *)
(*                                                                         *)
(* The completion the provider has is a number of content fragments and,   *)
(* for each tool call, of fragments of its arguments; a fragment is its    *)
(* number.  Arguments decode exactly when all fragments are there, once    *)
(* and in order (no proper prefix of a JSON object is one); no fragment at *)
(* all decodes as {}.  An event is written as a blank-terminated group of  *)
(* one or two data lines; a tool call fragment carries its index unless    *)
(* the event brings all the calls whole, where the position stands for it. *)
(* Comments and fields other than data, which the parser ignores wherever  *)
(* they come, are left out.                                                *)
(***************************************************************************)
EXTENDS Integers, Sequences, SequencesExt

CONSTANTS MaxContent,  \* bound: content fragments
          MaxCalls,    \* bound: tool calls
          Parts        \* bound: fragments of one call's arguments

ASSUME StreamAssumption ==
  MaxContent \in Nat /\ MaxCalls \in Nat /\ Parts \in Nat \ {0}

VARIABLES
  want,         \* the completion: number of content fragments, of calls
  sent,         \* what of it the provider wrote: content, parts of each call
  closing,      \* the finish_reason announced (or open), and whether [DONE] was
  wire,         \* lines of the event being transmitted
  disturbed,    \* history: a protocol error, a cut or a raising callback occurred
  data_lines,   \* of parse_sse, and of its end
  parsed        \* its other locals, with how it ended

vars == <<want, sent, closing, wire, disturbed, data_lines, parsed>>

Whole(n) == [i \in 1..n |-> i]
NoCalls == [i \in {} |-> <<>>]

Init ==
  /\ want \in [content : 0..MaxContent, calls : 0..MaxCalls]
  /\ sent = [content |-> 0, begun |-> {}, parts |-> [i \in 1..want.calls |-> 0]]
  /\ closing = [reason |-> "open", done |-> FALSE]
  /\ wire = <<>>
  /\ disturbed = FALSE
  /\ data_lines = <<>>
  /\ parsed = [content |-> <<>>, calls |-> NoCalls, termination |-> "none",
               outcome |-> "reading"]

-----------------------------------------------------------------------------
(* The provider.                                                           *)

Event(text, fragments, reason) == [text |-> text, fragments |-> fragments, reason |-> reason]
Fragment(index, part) == [index |-> index, part |-> part]
Data(event, piece) == [kind |-> "data", event |-> event, piece |-> piece]
Done == [kind |-> "done"]
Blank == [kind |-> "blank"]
Garbled == [kind |-> "garbled"]

(* An event travels as one data line or as two.                            *)
Write(event) ==
  \E lines \in {<<Data(event, "whole")>>, <<Data(event, "first"), Data(event, "second")>>} :
    wire' = Append(lines, Blank)

AllSent(s) == s.content = want.content /\ \A i \in 1..want.calls : s.parts[i] = Parts

(* The finish_reason an event may carry, once s is sent: none or an        *)
(* invalid one at any time, "length" when the token limit cuts the         *)
(* completion short, "stop" (or "tool_calls") with its last fragments.     *)
Reasons(s) == {"null", "invalid", "length"} \union (IF AllSent(s) THEN {"stop"} ELSE {})

Announced(reason) == IF reason \in {"stop", "length"} THEN reason ELSE "open"

(* The provider writes the event that makes s sent.                        *)
Chunk(s, text, fragments) ==
  \E reason \in Reasons(s) :
    /\ sent' = s
    /\ closing' = [closing EXCEPT !.reason = Announced(reason)]
    /\ disturbed' = (disturbed \/ reason = "invalid")
    /\ Write(Event(text, fragments, reason))

SendContent ==
  /\ sent.content < want.content
  /\ Chunk([sent EXCEPT !.content = @ + 1], <<sent.content + 1>>, <<>>)

(* The first fragment of a call brings its id and name.                    *)
SendHeader ==
  \E i \in 1..want.calls \ sent.begun :
    Chunk([sent EXCEPT !.begun = @ \union {i}], <<>>, <<Fragment(i, <<>>)>>)

(* The next of the arguments of any one call: calls may be streamed in     *)
(* parallel.                                                               *)
SendFragment ==
  \E i \in sent.begun :
    /\ sent.parts[i] < Parts
    /\ Chunk([sent EXCEPT !.parts[i] = @ + 1], <<>>,
             <<Fragment(i, <<sent.parts[i] + 1>>)>>)

(* All the calls in one event, without an index.                           *)
SendCalls ==
  /\ want.calls > 0 /\ sent.begun = {}
  /\ Chunk([sent EXCEPT !.begun = 1..want.calls, !.parts = [i \in 1..want.calls |-> Parts]], <<>>,
           [i \in 1..want.calls |-> Fragment(0, Whole(Parts))])

(* An event without fragments: a finish_reason of its own, or a delta with *)
(* nothing new.                                                            *)
SendEmpty == Chunk(sent, <<>>, <<>>)

SendDone ==
  /\ closing.reason = "length" \/ AllSent(sent)
  /\ closing' = [closing EXCEPT !.done = TRUE]
  /\ wire' = <<Done, Blank>>
  /\ UNCHANGED <<sent, disturbed>>

(* The usage event that may follow the finish_reason.                      *)
SendUsage ==
  /\ closing.reason # "open"
  /\ Write(Event(<<>>, <<>>, "null"))
  /\ UNCHANGED <<sent, closing, disturbed>>

Send ==
  /\ parsed.outcome = "reading" /\ wire = <<>> /\ ~closing.done
  /\ \/ closing.reason = "open" /\ (SendContent \/ SendHeader \/ SendFragment \/ SendCalls \/ SendEmpty)
     \/ SendDone
     \/ SendUsage
  /\ UNCHANGED <<want, data_lines, parsed>>

-----------------------------------------------------------------------------
(* The parser.                                                             *)

(* Mutant of CallOf: the position in the event is the index.               *)
CallOfByPosition(fragment, position) == position

(* The index of a fragment, or else its position in the event.             *)
CallOf(fragment, position) == IF fragment.index > 0 THEN fragment.index ELSE position

(* calls with the fragments of an event appended to theirs.                *)
Gathered(calls, fragments) ==
  LET Of(i) == FlattenSeq([k \in 1..Len(fragments) |->
                  IF CallOf(fragments[k], k) = i THEN fragments[k].part ELSE <<>>])
      Old(i) == IF i \in DOMAIN calls THEN calls[i] ELSE <<>>
      New == {CallOf(fragments[k], k) : k \in 1..Len(fragments)}
  IN [i \in DOMAIN calls \union New |-> Old(i) \o Of(i)]

Failed(p) == [p EXCEPT !.outcome = "error"]

(* The joined data lines decode as an event when they are all of its lines.*)
Decodes(group) ==
  /\ \A k \in 1..Len(group) : group[k].kind = "data"
  /\ \/ Len(group) = 1 /\ group[1].piece = "whole"
     \/ Len(group) = 2 /\ group[1].piece = "first" /\ group[2].piece = "second"

(* An event folded into p; an invalid finish_reason is a protocol error.   *)
Taken(p, event) ==
  IF event.reason = "invalid" THEN Failed(p)
  ELSE [p EXCEPT !.termination = IF event.reason = "null" THEN @ ELSE "finish_reason",
                 !.content = @ \o event.text,
                 !.calls = Gathered(@, event.fragments)]

(* consume() of the data lines of a group, if there are any.               *)
Consumed(p, group) ==
  CASE group = <<>>     -> p
    [] group = <<Done>> -> [p EXCEPT !.termination = "done"]
    [] Decodes(group)   -> Taken(p, group[1].event)
    [] OTHER            -> Failed(p)

ArgumentsDecode(calls) == \A i \in DOMAIN calls : calls[i] \in {<<>>, Whole(Parts)}

(* Mutant of Ended: what has arrived is the completion.                    *)
EndedAnyhow(p) ==
  IF p.outcome = "error" THEN p
  ELSE [p EXCEPT !.outcome = IF ArgumentsDecode(p.calls) THEN "accepted" ELSE "error"]

(* The stream is over: it must have announced its end, and the arguments   *)
(* of every call must decode.                                              *)
Ended(p) ==
  IF p.outcome = "error" THEN p
  ELSE [p EXCEPT !.outcome = IF p.termination # "none" /\ ArgumentsDecode(p.calls)
                             THEN "accepted" ELSE "error"]

(* A blank line dispatches the group; [DONE] breaks the loop.              *)
ReadBlank ==
  /\ LET p == Consumed(parsed, data_lines)
     IN parsed' = IF data_lines = <<Done>> THEN Ended(p) ELSE p
  /\ data_lines' = <<>>

(* A data line joins the group.                                            *)
ReadData(line) ==
  /\ data_lines' = Append(data_lines, line)
  /\ UNCHANGED parsed

Read ==
  /\ parsed.outcome = "reading" /\ wire # <<>>
  /\ IF Head(wire) = Blank THEN ReadBlank ELSE ReadData(Head(wire))
  /\ wire' = Tail(wire)
  /\ UNCHANGED <<want, sent, closing, disturbed>>

(* The event callback, awaited for every event and for [DONE], raises (for *)
(* an event dispatched after the loop, TransportError has the same effect).*)
CallbackRaises ==
  /\ parsed.outcome = "reading" /\ wire # <<>> /\ Head(wire) = Blank
  /\ parsed' = Failed(parsed)
  /\ disturbed' = TRUE
  /\ UNCHANGED <<want, sent, closing, wire, data_lines>>

(* Mutant of LastGroup: the for loop without its else branch.              *)
LastGroupDropped(rest) == <<>>

(* What the else branch of the for loop still dispatches.                  *)
LastGroup(rest) == data_lines \o rest

(* The connection ends between two lines.                                  *)
CloseBetweenLines ==
  /\ parsed' = Ended(Consumed(parsed, LastGroup(<<>>)))
  /\ disturbed' = (disturbed \/ wire \notin {<<>>, <<Blank>>}
                   \/ (closing.reason = "open" /\ ~closing.done))
  /\ UNCHANGED data_lines

(* It ends in the middle of a data line, whose rest decodes as nothing.    *)
CloseInLine ==
  /\ wire # <<>> /\ Head(wire) # Blank
  /\ parsed' = Ended(Consumed(parsed, LastGroup(<<Garbled>>)))
  /\ data_lines' = Append(data_lines, Garbled)
  /\ disturbed' = TRUE

(* httpx raises: a timeout, a reset, a chunked body cut short.             *)
TransportError ==
  /\ parsed' = Failed(parsed)
  /\ disturbed' = TRUE
  /\ UNCHANGED data_lines

Close ==
  /\ parsed.outcome = "reading"
  /\ CloseBetweenLines \/ CloseInLine \/ TransportError
  /\ wire' = <<>>
  /\ UNCHANGED <<want, sent, closing>>

Next == Send \/ Read \/ CallbackRaises \/ Close

Spec == Init /\ [][Next]_vars

-----------------------------------------------------------------------------
(* Every state of the stream is well typed; the calls parsed are calls the *)
(* provider made, none is invented by the way its fragments are numbered.  *)
TypeOK ==
  /\ want \in [content : 0..MaxContent, calls : 0..MaxCalls]
  /\ sent.content \in 0..want.content
  /\ sent.begun \subseteq 1..want.calls
  /\ sent.parts \in [1..want.calls -> 0..Parts]
  /\ closing \in [reason : {"open", "stop", "length"}, done : BOOLEAN]
  /\ Len(wire) <= 3 /\ Len(data_lines) <= 2
  /\ disturbed \in BOOLEAN
  /\ parsed.content \in Seq(1..MaxContent)
  /\ DOMAIN parsed.calls \subseteq sent.begun
  /\ \A i \in DOMAIN parsed.calls : parsed.calls[i] \in Seq(1..Parts)
  /\ parsed.termination \in {"none", "done", "finish_reason"}
  /\ parsed.outcome \in {"reading", "accepted", "error"}

(* A completion the parser accepts is the one the provider sent: all its   *)
(* content, every call it began with all its arguments, in order, however  *)
(* the calls' fragments were interleaved and wherever the connection broke *)
(* (litellm.py:128-151).  Unless the token limit cut it short, it is the   *)
(* completion the provider had; if it did, a call may be there without any *)
(* of its arguments, which the code takes for {}.  An event that the       *)
(* connection broke off is never taken for one (litellm.py:79-82, 124-126).*)
AcceptedWhole ==
  parsed.outcome = "accepted" =>
    /\ parsed.content = Whole(sent.content)
    /\ parsed.calls = [i \in sent.begun |-> Whole(sent.parts[i])]
    /\ \A i \in sent.begun : sent.parts[i] \in {0, Parts}
    /\ closing.reason # "length" => AllSent(sent)
    /\ \A k \in 1..Len(data_lines) : data_lines[k] # Garbled

(* A completion that came whole, over a connection that closed after its   *)
(* last event (with or without [DONE], with or without the blank line), is *)
(* never an error: only a tool call the token limit left half written is.  *)
NoFalseAlarm ==
  parsed.outcome = "error" =>
    disturbed \/ \E i \in sent.begun : sent.parts[i] < Parts
=============================================================================
