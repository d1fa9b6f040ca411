--------------------------- MODULE SseStreamProofs ---------------------------
(***************************************************************************)
(* What TLAPS proves about SseStream, for every bound: the types, that an  *)
(* accepted completion is the one that was sent, and that a completion     *)
(* that came whole is not rejected.                                        *)
(*                                                                         *)
(* While the stream is read, three things can be between the provider and  *)
(* what the parser has folded in: nothing, one event, or [DONE].  The      *)
(* invariant (Reading) says, for each, that folding it in makes what the   *)
(* parser has the image of what was sent.                                  *)
(***************************************************************************)
EXTENDS SseStream, SequenceTheorems, WellFoundedInduction, TLAPS

-----------------------------------------------------------------------------
(* The locals of the parser are the image of what the provider has sent.   *)
Image == [content |-> Whole(sent.content),
          calls |-> [i \in sent.begun |-> Whole(sent.parts[i])]]

Matches(p) == p.content = Image.content /\ p.calls = Image.calls

(* The event in transit, and how much of it has been read.                 *)
Pending == (IF data_lines # <<>> THEN data_lines[1] ELSE wire[1]).event

OneLine == Data(Pending, "whole")
FirstLine == Data(Pending, "first")
SecondLine == Data(Pending, "second")

Nothing == wire = <<>> /\ data_lines = <<>>

Whole1 == wire = <<Blank>> /\ data_lines = <<OneLine>>

Whole2 == wire = <<Blank>> /\ data_lines = <<FirstLine, SecondLine>>

Begun ==
  \/ wire = <<OneLine, Blank>> /\ data_lines = <<>>
  \/ wire = <<FirstLine, SecondLine, Blank>> /\ data_lines = <<>>
  \/ wire = <<SecondLine, Blank>> /\ data_lines = <<FirstLine>>

DoneComing ==
  \/ wire = <<Done, Blank>> /\ data_lines = <<>>
  \/ wire = <<Blank>> /\ data_lines = <<Done>>

(* Folding the event in makes the image.                                   *)
Brings(event) ==
  /\ parsed.content \o event.text = Image.content
  /\ Gathered(parsed.calls, event.fragments) = Image.calls
  /\ event.reason \in {"null", "invalid", "length", "stop"}
  /\ event.reason = "invalid" => disturbed
  /\ event.reason \in {"length", "stop"} => closing.reason = event.reason
  /\ closing.reason # "open" => closing.reason = event.reason \/ parsed.termination # "none"

(* What closes a completion is written only when it may be.                *)
ClosedInTime ==
  /\ closing.reason = "stop" => AllSent(sent)
  /\ closing.done => closing.reason = "length" \/ AllSent(sent)

Reading ==
  /\ ClosedInTime
  /\ parsed.termination \in {"none", "finish_reason"}
  /\ parsed.termination # "none" => closing.reason # "open" /\ Matches(parsed)
  /\ \/ /\ Nothing /\ Matches(parsed) /\ ~closing.done
        /\ closing.reason # "open" => parsed.termination # "none"
     \/ DoneComing /\ Matches(parsed) /\ closing.done
     \/ (Begun \/ Whole1 \/ Whole2) /\ ~closing.done /\ Brings(Pending)

(* sent and parsed have their fields, and no call has arguments before it  *)
(* is begun.                                                               *)
Shaped ==
  /\ sent = [content |-> sent.content, begun |-> sent.begun, parts |-> sent.parts]
  /\ parsed = [content |-> parsed.content, calls |-> parsed.calls,
               termination |-> parsed.termination, outcome |-> parsed.outcome]
  /\ \A i \in 1..want.calls \ sent.begun : sent.parts[i] = 0

StreamInv ==
  /\ TypeOK /\ Shaped
  /\ parsed.outcome = "reading" => Reading
  /\ AcceptedWhole /\ NoFalseAlarm

-----------------------------------------------------------------------------
(* Sequences.                                                               *)

(* Whole(n) counts to n.                                                    *)
LEMMA WholeCounts ==
  /\ \A n \in Nat : Whole(n) \in Seq(1..n) /\ Whole(n) \in Seq(Nat) /\ Len(Whole(n)) = n
  /\ Whole(0) = <<>>
  /\ \A n \in Nat : Whole(n) = <<>> => n = 0
  /\ \A m, n \in Nat : Whole(m) = Whole(n) => m = n
<1>1. \A n \in Nat : Whole(n) \in Seq(1..n) /\ Whole(n) \in Seq(Nat) /\ Len(Whole(n)) = n
  BY DEF Whole
<1>2. Whole(0) = <<>>
  BY DEF Whole
<1> QED
  BY <1>1, <1>2

(* Fragments in order make it.                                              *)
LEMMA WholeGrows ==
  ASSUME NEW n \in Nat
  PROVE  Whole(n) \o <<n + 1>> = Whole(n + 1) /\ Whole(n) \o <<>> = Whole(n)
<1>1. Whole(n) \in Seq(Nat) /\ Len(Whole(n)) = n
  BY WholeCounts
<1>2. Whole(n) \o <<n + 1>> = Whole(n + 1)
  BY <1>1 DEF Whole
<1> QED
  BY <1>1, <1>2

(* The lines of the wire are told apart.                                    *)
LEMMA LinesDiffer ==
  /\ Done # Blank /\ Done # Garbled /\ Garbled # Blank
  /\ \A e, piece : Data(e, piece) # Blank /\ Data(e, piece) # Done /\ Data(e, piece) # Garbled
BY DEF Done, Blank, Garbled, Data

(* What a sequence is that has the elements of another and one more.        *)
LEMMA AppendIs ==
  ASSUME NEW S, NEW s \in Seq(S), NEW b \in S, NEW t \in Seq(S), Len(t) = Len(s) + 1,
         \A i \in 1..Len(s) : t[i] = s[i], t[Len(s) + 1] = b
  PROVE  Append(s, b) = t /\ s \o <<b>> = t
<1>1. PICK u : u = Append(s, b)
  OBVIOUS
<1>2. /\ u \in Seq(S) /\ Len(u) = Len(s) + 1
      /\ \A i \in 1..Len(s) : u[i] = s[i]
      /\ u[Len(s) + 1] = b
  BY <1>1, AppendProperties
<1>3. u = t
  <2>1. \A i \in 1..Len(u) : i \in 1..Len(s) \/ i = Len(s) + 1
    BY <1>2
  <2>2. \A i \in 1..Len(u) : u[i] = t[i]
    BY <1>2, <2>1
  <2> QED
    BY <1>2, <2>2, SeqEqual
<1> QED
  BY <1>1, <1>3, AppendIsConcat

(* Short sequences, line by line.                                           *)
LEMMA ShortSequences ==
  /\ \A a : /\ <<a>> # <<>> /\ Head(<<a>>) = a /\ Tail(<<a>>) = <<>>
            /\ Append(<<>>, a) = <<a>> /\ <<a>> \o <<>> = <<a>> /\ <<>> \o <<a>> = <<a>>
            /\ Len(<<a>>) = 1
  /\ \A a, b : /\ <<a, b>> # <<>> /\ Head(<<a, b>>) = a /\ Tail(<<a, b>>) = <<b>>
               /\ Append(<<a>>, b) = <<a, b>> /\ <<a>> \o <<b>> = <<a, b>>
               /\ <<a, b>> \o <<>> = <<a, b>> /\ Len(<<a, b>>) = 2
  /\ \A a, b, c : /\ <<a, b, c>> # <<>> /\ Head(<<a, b, c>>) = a
                  /\ Tail(<<a, b, c>>) = <<b, c>> /\ Append(<<a, b>>, c) = <<a, b, c>>
                  /\ Len(<<a, b, c>>) = 3
<1>1. ASSUME NEW a, NEW b PROVE Append(<<a>>, b) = <<a, b>> /\ <<a>> \o <<b>> = <<a, b>>
  <2> DEFINE S == {a, b}
  <2>0. a \in S /\ b \in S
    OBVIOUS
  <2> HIDE DEF S
  <2>1. <<a>> \in Seq(S) /\ Len(<<a>>) = 1 /\ <<a>>[1] = a
    BY <2>0
  <2>2. <<a, b>> \in Seq(S) /\ Len(<<a, b>>) = 2 /\ <<a, b>>[1] = a /\ <<a, b>>[2] = b
    BY <2>0
  <2>3. PICK s \in Seq(S) : s = <<a>> /\ Len(s) = 1 /\ s[1] = a
    BY <2>1
  <2>4. PICK t \in Seq(S) : t = <<a, b>> /\ Len(t) = 2 /\ t[1] = a /\ t[2] = b
    BY <2>2
  <2>5. Len(t) = Len(s) + 1 /\ t[Len(s) + 1] = b /\ \A i \in 1..Len(s) : t[i] = s[i]
    BY <2>3, <2>4
  <2>6. Append(s, b) = t /\ s \o <<b>> = t
    BY <2>0, <2>5, AppendIs
  <2> QED
    BY <2>3, <2>4, <2>6
<1>2. ASSUME NEW a, NEW b, NEW c PROVE Append(<<a, b>>, c) = <<a, b, c>>
  <2> DEFINE S == {a, b, c}
  <2>0. a \in S /\ b \in S /\ c \in S
    OBVIOUS
  <2> HIDE DEF S
  <2>1. <<a, b>> \in Seq(S) /\ Len(<<a, b>>) = 2 /\ <<a, b>>[1] = a /\ <<a, b>>[2] = b
    BY <2>0
  <2>2. /\ <<a, b, c>> \in Seq(S) /\ Len(<<a, b, c>>) = 3
        /\ <<a, b, c>>[1] = a /\ <<a, b, c>>[2] = b /\ <<a, b, c>>[3] = c
    BY <2>0
  <2>3. PICK s \in Seq(S) : s = <<a, b>> /\ Len(s) = 2 /\ s[1] = a /\ s[2] = b
    BY <2>1
  <2>4. PICK t \in Seq(S) : t = <<a, b, c>> /\ Len(t) = 3 /\ t[1] = a /\ t[2] = b /\ t[3] = c
    BY <2>2
  <2>5. Len(t) = Len(s) + 1 /\ t[Len(s) + 1] = c /\ \A i \in 1..Len(s) : t[i] = s[i]
    BY <2>3, <2>4
  <2>6. Append(s, c) = t
    BY <2>0, <2>5, AppendIs
  <2> QED
    BY <2>3, <2>4, <2>6
<1>3. \A a : /\ <<a>> # <<>> /\ Head(<<a>>) = a /\ Tail(<<a>>) = <<>>
            /\ Append(<<>>, a) = <<a>> /\ <<a>> \o <<>> = <<a>> /\ <<>> \o <<a>> = <<a>>
            /\ Len(<<a>>) = 1
  OBVIOUS
<1>4. \A a, b : /\ <<a, b>> # <<>> /\ Head(<<a, b>>) = a /\ Tail(<<a, b>>) = <<b>>
               /\ <<a, b>> \o <<>> = <<a, b>> /\ Len(<<a, b>>) = 2
  OBVIOUS
<1>5. \A a, b, c : /\ <<a, b, c>> # <<>> /\ Head(<<a, b, c>>) = a
                  /\ Tail(<<a, b, c>>) = <<b, c>> /\ Len(<<a, b, c>>) = 3
  OBVIOUS
<1> QED
  BY <1>1, <1>2, <1>3, <1>4, <1>5

(* A sequence of sequences of which all but one are empty flattens to it.   *)
LEMMA OnePart ==
  ASSUME NEW S, NEW n \in Nat \ {0}, NEW k \in 1..n, NEW seqs,
         seqs \in [1..n -> Seq(S)], \A i \in 1..n : i # k => seqs[i] = <<>>
  PROVE  FlattenSeq(seqs) = seqs[k]
<1> DEFINE Flat(f) == f = [i \in 1..n |-> IF i = 1 THEN seqs[i] ELSE f[i-1] \o seqs[i]]
           F == CHOOSE f : Flat(f)
           w == [i \in 1..n |-> IF i < k THEN <<>> ELSE seqs[k]]
<1>1. seqs \in Seq(Seq(S)) /\ Len(seqs) = n
  OBVIOUS
<1>2. FlattenSeq(seqs) = F[n]
  BY <1>1 DEF FlattenSeq
<1>3. \A s \in Seq(S) : s \o <<>> = s /\ <<>> \o s = s
  OBVIOUS
<1>4. seqs[k] \in Seq(S) /\ <<>> \in Seq(S)
  OBVIOUS
<1>5. Flat(w)
  <2>1. ASSUME NEW i \in 1..n PROVE w[i] = IF i = 1 THEN seqs[i] ELSE w[i-1] \o seqs[i]
    <3>1. CASE i = 1
      BY <3>1
    <3>2. CASE i # 1
      <4>1. i - 1 \in 1..n
        BY <3>2
      <4>2. CASE i < k
        BY <3>2, <4>1, <4>2, <1>3, <1>4
      <4>3. CASE i = k
        BY <3>2, <4>1, <4>3, <1>3, <1>4
      <4>4. CASE i > k
        BY <3>2, <4>1, <4>4, <1>3, <1>4
      <4> QED
        BY <4>2, <4>3, <4>4
    <3> QED
      BY <3>1, <3>2
  <2> QED
    BY <2>1
<1>6. Flat(F)
  <2> HIDE DEF Flat, w
  <2> QED
    BY <1>5
<1>7. \A i \in 1..n : F[i] = w[i]
  <2> DEFINE Bad == {i \in 1..n : F[i] # w[i]}
  <2> SUFFICES ASSUME Bad # {} PROVE FALSE
    OBVIOUS
  <2>1. Bad \subseteq Nat
    OBVIOUS
  <2>2. PICK i \in Bad : \A j \in Bad : ~(j < i)
    <3> HIDE DEF Bad
    <3>1. IsWellFoundedOn(OpToRel(<, Nat), Nat)
      BY NatLessThanWellFounded
    <3>2. PICK i \in Bad : \A j \in Bad : <<j, i>> \notin OpToRel(<, Nat)
      BY <2>1, <3>1, WFMin
    <3> QED
      BY <2>1, <3>2 DEF OpToRel
  <2>3. i = 1 \/ (i - 1 \in 1..n /\ F[i-1] = w[i-1])
    <3> HIDE DEF F, w
    <3> QED
      BY <2>2
  <2> HIDE DEF F
  <2>4. F[i] = IF i = 1 THEN seqs[i] ELSE F[i-1] \o seqs[i]
    BY <1>6
  <2>5. w[i] = IF i = 1 THEN seqs[i] ELSE w[i-1] \o seqs[i]
    BY <1>5
  <2> QED
    BY <2>3, <2>4, <2>5
<1>8. w[n] = seqs[k]
  BY <1>4
<1> QED
  <2> HIDE DEF F, w
  <2> QED
    BY <1>2, <1>7, <1>8

(* An event's n fragments are, each, of another of the calls called.        *)
Numbered(S, calls, n, fragments, called) ==
  /\ n \in Nat /\ fragments \in [1..n -> [index : Nat, part : Seq(S)]]
  /\ \A i \in DOMAIN calls : calls[i] \in Seq(S)
  /\ \A k, l \in 1..n : CallOf(fragments[k], k) = CallOf(fragments[l], l) => k = l
  /\ \A k \in 1..n : CallOf(fragments[k], k) \in called
  /\ \A i \in called : \E k \in 1..n : CallOf(fragments[k], k) = i

(* Each is appended to its call; the other calls are left alone.            *)
Appended(calls, n, fragments, called) ==
  /\ Gathered(calls, fragments) = [i \in DOMAIN calls \cup called |-> Gathered(calls, fragments)[i]]
  /\ \A i \in DOMAIN calls \ called : Gathered(calls, fragments)[i] = calls[i]
  /\ \A k \in 1..n : \A i : i = CallOf(fragments[k], k) =>
       Gathered(calls, fragments)[i] =
         (IF i \in DOMAIN calls THEN calls[i] ELSE <<>>) \o fragments[k].part

(* FlattenSeq of the contributions to one call is the part of the one       *)
(* fragment that is the call's, or nothing.                                 *)
LEMMA GatherFragments ==
  ASSUME NEW S, NEW calls, NEW n, NEW fragments, NEW called,
         Numbered(S, calls, n, fragments, called)
  PROVE  Appended(calls, n, fragments, called)
<1>0. /\ n \in Nat /\ fragments \in [1..n -> [index : Nat, part : Seq(S)]]
      /\ \A i \in DOMAIN calls : calls[i] \in Seq(S)
      /\ \A k, l \in 1..n : CallOf(fragments[k], k) = CallOf(fragments[l], l) => k = l
      /\ \A k \in 1..n : CallOf(fragments[k], k) \in called
      /\ \A i \in called : \E k \in 1..n : CallOf(fragments[k], k) = i
  BY DEF Numbered
<1> USE <1>0
<1> DEFINE New == {CallOf(fragments[k], k) : k \in 1..n}
           Old(i) == IF i \in DOMAIN calls THEN calls[i] ELSE <<>>
           Parted(i) == [k \in 1..n |-> IF CallOf(fragments[k], k) = i THEN fragments[k].part ELSE <<>>]
<1>1. Len(fragments) = n
  OBVIOUS
<1>2. Gathered(calls, fragments) = [i \in DOMAIN calls \cup New |-> Old(i) \o FlattenSeq(Parted(i))]
  BY <1>1 DEF Gathered
<1>3. \A i : Parted(i) \in [1..n -> Seq(S)]
  OBVIOUS
<1>a. \A s \in [1..n -> Seq(S)] : \A k \in 1..n :
        (\A l \in 1..n : l # k => s[l] = <<>>) => FlattenSeq(s) = s[k]
  <2> SUFFICES ASSUME NEW s \in [1..n -> Seq(S)], NEW k \in 1..n,
                      \A l \in 1..n : l # k => s[l] = <<>>
               PROVE  FlattenSeq(s) = s[k]
    OBVIOUS
  <2> HIDE DEF New, Old, Parted
  <2>1. n \in Nat \ {0}
    OBVIOUS
  <2> QED
    BY <2>1, OnePart
<1>4. \A i : i \notin New => FlattenSeq(Parted(i)) = <<>>
  <2> SUFFICES ASSUME NEW i, i \notin New PROVE FlattenSeq(Parted(i)) = <<>>
    OBVIOUS
  <2>1. CASE n = 0
    <3>1. Parted(i) = <<>>
      BY <2>1
    <3> QED
      BY <3>1 DEF FlattenSeq
  <2>2. CASE n # 0
    <3>1. \A k \in 1..n : Parted(i)[k] = <<>>
      OBVIOUS
    <3>2. 1 \in 1..n /\ n \in Nat \ {0} /\ Parted(i)[1] = <<>>
      BY <2>2, <3>1
    <3>3. Parted(i) \in [1..n -> Seq(S)]
      BY <1>3
    <3> HIDE DEF Parted
    <3>4. FlattenSeq(Parted(i)) = Parted(i)[1]
      BY <1>a, <3>1, <3>2, <3>3
    <3> QED
      BY <3>2, <3>4
  <2> QED
    BY <2>1, <2>2
<1>5. \A k \in 1..n : FlattenSeq(Parted(CallOf(fragments[k], k))) = fragments[k].part
  <2> SUFFICES ASSUME NEW k \in 1..n
               PROVE  FlattenSeq(Parted(CallOf(fragments[k], k))) = fragments[k].part
    OBVIOUS
  <2>1. /\ Parted(CallOf(fragments[k], k))[k] = fragments[k].part
        /\ \A l \in 1..n : l # k => Parted(CallOf(fragments[k], k))[l] = <<>>
    OBVIOUS
  <2>2. n \in Nat \ {0} /\ Parted(CallOf(fragments[k], k)) \in [1..n -> Seq(S)]
    BY <1>3
  <2> HIDE DEF Parted
  <2>3. FlattenSeq(Parted(CallOf(fragments[k], k))) = Parted(CallOf(fragments[k], k))[k]
    BY <1>a, <2>1, <2>2
  <2> QED
    BY <2>1, <2>3
<1>6. \A i \in DOMAIN calls : Old(i) \o <<>> = Old(i) /\ Old(i) = calls[i]
  OBVIOUS
<1>7. \A k \in 1..n : CallOf(fragments[k], k) \in New
  OBVIOUS
<1> HIDE DEF Parted, Old
<1>8. \A i \in DOMAIN calls \ New : Gathered(calls, fragments)[i] = calls[i]
  <2> HIDE DEF New
  <2> QED
    BY <1>2, <1>4, <1>6
<1>9. \A k \in 1..n : Gathered(calls, fragments)[CallOf(fragments[k], k)]
                     = Old(CallOf(fragments[k], k)) \o fragments[k].part
  <2> HIDE DEF New
  <2> QED
    BY <1>2, <1>5, <1>7
<1>10. Gathered(calls, fragments) = [i \in DOMAIN calls \cup New |-> Gathered(calls, fragments)[i]]
  <2> HIDE DEF New
  <2> QED
    BY <1>2
<1>11. New = called
  <2>1. \A i \in New : i \in called
    OBVIOUS
  <2>2. \A i \in called : i \in New
    <3> SUFFICES ASSUME NEW i \in called PROVE i \in New
      OBVIOUS
    <3>1. PICK k \in 1..n : CallOf(fragments[k], k) = i
      BY <1>0
    <3> QED
      BY <3>1, <1>7
  <2> QED
    BY <2>1, <2>2
<1> HIDE DEF New
<1> QED
  BY <1>8, <1>9, <1>10, <1>11 DEF Old, Appended

-----------------------------------------------------------------------------
(* Events.                                                                  *)

(* An event without fragments leaves the calls alone.                       *)
LEMMA NoFragments ==
  ASSUME NEW S, NEW D, NEW calls \in [D -> Seq(S)]
  PROVE  Gathered(calls, <<>>) = calls
<1>1. PICK fragments : fragments = <<>>
  OBVIOUS
<1>2. /\ fragments \in [1..0 -> [index : Nat, part : Seq(S)]] /\ DOMAIN calls = D
      /\ \A i \in DOMAIN calls : calls[i] \in Seq(S)
  BY <1>1
<1>3. \A k \in 1..0 : FALSE
  OBVIOUS
<1>4. 0 \in Nat /\ D \cup {} = D /\ D \ {} = D
  OBVIOUS
<1>5. Numbered(S, calls, 0, fragments, {})
  BY <1>2, <1>3 DEF Numbered
<1>6. Appended(calls, 0, fragments, {})
  BY <1>5, GatherFragments
<1> DEFINE g == Gathered(calls, fragments)
<1>7. g = [i \in D |-> g[i]] /\ \A i \in D : g[i] = calls[i]
  BY <1>2, <1>4, <1>6 DEF Appended
<1> HIDE DEF g
<1>8. g = calls
  BY <1>7
<1> QED
  BY <1>1, <1>8 DEF g

(* A fragment with an index is appended to the call of that index.          *)
WithPart(calls, c, part) ==
  [i \in DOMAIN calls \cup {c} |->
     IF i = c THEN (IF c \in DOMAIN calls THEN calls[c] ELSE <<>>) \o part ELSE calls[i]]

LEMMA OneFragment ==
  ASSUME NEW S, NEW D, NEW calls \in [D -> Seq(S)], NEW c \in Nat \ {0}, NEW part \in Seq(S)
  PROVE  Gathered(calls, <<Fragment(c, part)>>) = WithPart(calls, c, part)
<1>1. PICK fragments : fragments = <<Fragment(c, part)>>
  OBVIOUS
<1>2. /\ fragments \in [1..1 -> [index : Nat, part : Seq(S)]]
      /\ fragments[1] = Fragment(c, part)
  BY <1>1 DEF Fragment
<1>3. CallOf(fragments[1], 1) = c /\ fragments[1].part = part
  BY <1>2 DEF CallOf, Fragment
<1>4. 1 \in Nat /\ 1 \in 1..1 /\ (\A k \in 1..1 : k = 1) /\ DOMAIN calls = D
      /\ \A i \in DOMAIN calls : calls[i] \in Seq(S)
  OBVIOUS
<1>5. /\ \A k, l \in 1..1 : CallOf(fragments[k], k) = CallOf(fragments[l], l) => k = l
      /\ \A k \in 1..1 : CallOf(fragments[k], k) \in {c}
      /\ \A i \in {c} : \E k \in 1..1 : CallOf(fragments[k], k) = i
  BY <1>3, <1>4
<1> DEFINE g == Gathered(calls, fragments)
<1>6. /\ g = [i \in DOMAIN calls \cup {c} |-> g[i]]
      /\ \A i \in DOMAIN calls \ {c} : g[i] = calls[i]
      /\ \A k \in 1..1 : \A i : i = CallOf(fragments[k], k) =>
           g[i] = (IF i \in DOMAIN calls THEN calls[i] ELSE <<>>) \o fragments[k].part
  <2>1. Numbered(S, calls, 1, fragments, {c})
    BY <1>2, <1>4, <1>5 DEF Numbered
  <2>2. Appended(calls, 1, fragments, {c})
    BY <2>1, GatherFragments
  <2> QED
    BY <2>2 DEF Appended
<1> HIDE DEF g
<1>7. g[c] = (IF c \in D THEN calls[c] ELSE <<>>) \o part
  BY <1>3, <1>4, <1>6
<1>8. g = WithPart(calls, c, part)
  BY <1>4, <1>6, <1>7 DEF WithPart
<1> QED
  BY <1>1, <1>8 DEF g

(* The fragments of an event that brings all the calls go by their position.*)
ByPosition(m, part) == [i \in 1..m |-> Fragment(0, part)]

Repeated(m, part) == [i \in 1..m |-> part]

LEMMA AllFragments ==
  ASSUME NEW S, NEW m \in Nat, NEW part \in Seq(S)
  PROVE  Gathered(NoCalls, ByPosition(m, part)) = Repeated(m, part)
<1> DEFINE fragments == [i \in 1..m |-> Fragment(0, part)]
           calls == [i \in {} |-> <<>>]
<1>1. fragments \in [1..m -> [index : Nat, part : Seq(S)]] /\ DOMAIN calls = {}
  BY DEF Fragment
<1>2. \A k \in 1..m : CallOf(fragments[k], k) = k /\ fragments[k].part = part
  BY DEF CallOf, Fragment
<1>3. <<>> \o part = part
  OBVIOUS
<1> HIDE DEF fragments, calls
<1>4. /\ \A k, l \in 1..m : CallOf(fragments[k], k) = CallOf(fragments[l], l) => k = l
      /\ \A k \in 1..m : CallOf(fragments[k], k) \in 1..m
      /\ \A i \in 1..m : \E k \in 1..m : CallOf(fragments[k], k) = i
      /\ \A i \in DOMAIN calls : calls[i] \in Seq(S)
  BY <1>1, <1>2
<1> DEFINE g == Gathered(calls, fragments)
<1>5. /\ g = [i \in DOMAIN calls \cup (1..m) |-> g[i]]
      /\ \A k \in 1..m : \A i : i = CallOf(fragments[k], k) =>
           g[i] = (IF i \in DOMAIN calls THEN calls[i] ELSE <<>>) \o fragments[k].part
  <2>1. Numbered(S, calls, m, fragments, 1..m)
    BY <1>1, <1>4 DEF Numbered
  <2>2. Appended(calls, m, fragments, 1..m)
    BY <2>1, GatherFragments
  <2> QED
    BY <2>2 DEF Appended
<1> HIDE DEF g
<1>6. \A k \in 1..m : g[k] = part
  BY <1>1, <1>2, <1>3, <1>5
<1>7. g = [i \in 1..m |-> part]
  BY <1>1, <1>5, <1>6
<1> QED
  BY <1>7 DEF g, calls, fragments, NoCalls, ByPosition, Repeated

(* Which groups of lines there can be, told apart.                          *)
LEMMA GroupsDiffer ==
  /\ \A x : <<x>> # <<>>
  /\ \A x, y : <<x, y>> # <<>> /\ \A z : <<x, y>> # <<z>>
  /\ \A x, y : <<x>> = <<y>> => x = y
  /\ \A x : Len(<<x>>) = 1 /\ <<x>>[1] = x
  /\ \A x, y : Len(<<x, y>>) = 2 /\ <<x, y>>[1] = x /\ <<x, y>>[2] = y
OBVIOUS

(* What consume() makes of each of them.                                    *)
LEMMA ConsumedGroup ==
  ASSUME NEW p, NEW e
  PROVE  /\ Consumed(p, <<>>) = p
         /\ Consumed(p, <<Done>>) = [p EXCEPT !.termination = "done"]
         /\ Consumed(p, <<Data(e, "whole")>>) = Taken(p, e)
         /\ Consumed(p, <<Data(e, "first"), Data(e, "second")>>) = Taken(p, e)
         /\ Consumed(p, <<Data(e, "first")>>) = Failed(p)
         /\ Consumed(p, <<Garbled>>) = Failed(p)
         /\ Consumed(p, <<Data(e, "first"), Garbled>>) = Failed(p)
<1>1. Consumed(p, <<>>) = p
  <2>1. PICK g : g = <<>>
    OBVIOUS
  <2>2. g # <<Done>> /\ Len(g) = 0
    BY <2>1, GroupsDiffer
  <2>3. ~Decodes(g)
    BY <2>2 DEF Decodes
  <2> QED
    BY <2>1, <2>2, <2>3 DEF Consumed
<1>2. Consumed(p, <<Done>>) = [p EXCEPT !.termination = "done"]
  <2>1. PICK g : g = <<Done>>
    OBVIOUS
  <2>2. g # <<>> /\ Len(g) = 1 /\ g[1] = Done
    BY <2>1, GroupsDiffer
  <2>3. ~Decodes(g)
    BY <2>2 DEF Decodes, Done
  <2> QED
    BY <2>1, <2>2, <2>3 DEF Consumed
<1>3. Consumed(p, <<Data(e, "whole")>>) = Taken(p, e)
  <2>1. PICK g : g = <<Data(e, "whole")>>
    OBVIOUS
  <2>2. g # <<>> /\ g # <<Done>> /\ Len(g) = 1 /\ g[1] = Data(e, "whole")
    BY <2>1, GroupsDiffer, LinesDiffer
  <2>3. Decodes(g) /\ g[1].event = e
    BY <2>2 DEF Decodes, Data
  <2> QED
    BY <2>1, <2>2, <2>3 DEF Consumed
<1>4. Consumed(p, <<Data(e, "first"), Data(e, "second")>>) = Taken(p, e)
  <2>1. PICK g : g = <<Data(e, "first"), Data(e, "second")>>
    OBVIOUS
  <2>2. g # <<>> /\ g # <<Done>> /\ Len(g) = 2 /\ g[1] = Data(e, "first") /\ g[2] = Data(e, "second")
    BY <2>1, GroupsDiffer
  <2>3. Decodes(g) /\ g[1].event = e
    BY <2>2 DEF Decodes, Data
  <2> QED
    BY <2>1, <2>2, <2>3 DEF Consumed
<1>5. Consumed(p, <<Data(e, "first")>>) = Failed(p)
  <2>1. PICK g : g = <<Data(e, "first")>>
    OBVIOUS
  <2>2. g # <<>> /\ g # <<Done>> /\ Len(g) = 1 /\ g[1] = Data(e, "first")
    BY <2>1, GroupsDiffer, LinesDiffer
  <2>3. ~Decodes(g)
    BY <2>2 DEF Decodes, Data
  <2> QED
    BY <2>1, <2>2, <2>3 DEF Consumed
<1>6. Consumed(p, <<Garbled>>) = Failed(p)
  <2>1. PICK g : g = <<Garbled>>
    OBVIOUS
  <2>2. g # <<>> /\ g # <<Done>> /\ Len(g) = 1 /\ g[1] = Garbled
    BY <2>1, GroupsDiffer, LinesDiffer
  <2>3. ~Decodes(g)
    BY <2>2 DEF Decodes, Garbled
  <2> QED
    BY <2>1, <2>2, <2>3 DEF Consumed
<1>7. Consumed(p, <<Data(e, "first"), Garbled>>) = Failed(p)
  <2>1. PICK g : g = <<Data(e, "first"), Garbled>>
    OBVIOUS
  <2>2. g # <<>> /\ g # <<Done>> /\ Len(g) = 2 /\ g[2] = Garbled
    BY <2>1, GroupsDiffer
  <2>3. ~Decodes(g)
    BY <2>2 DEF Decodes, Garbled
  <2> QED
    BY <2>1, <2>2, <2>3 DEF Consumed
<1> QED
  BY <1>1, <1>2, <1>3, <1>4, <1>5, <1>6, <1>7

-----------------------------------------------------------------------------
(* What the parser's locals are.                                            *)

(* The types of TypeOK, of a value of parsed.                               *)
WellFormed(p) ==
  /\ p = [content |-> p.content, calls |-> p.calls,
          termination |-> p.termination, outcome |-> p.outcome]
  /\ p.content \in Seq(1..MaxContent)
  /\ DOMAIN p.calls \subseteq sent.begun
  /\ \A i \in DOMAIN p.calls : p.calls[i] \in Seq(1..Parts)
  /\ p.termination \in {"none", "done", "finish_reason"}

LEMMA ImageTyped ==
  ASSUME TypeOK
  PROVE  /\ Image.content = Whole(sent.content) /\ Image.content \in Seq(1..MaxContent)
         /\ Image.calls = [i \in sent.begun |-> Whole(sent.parts[i])]
         /\ Image.calls \in [sent.begun -> Seq(1..Parts)]
<1>1. \A m, n \in Nat : m <= n => Whole(m) \in Seq(1..n)
  BY DEF Whole
<1>2. want.content \in 0..MaxContent /\ MaxContent \in Nat /\ Parts \in Nat
  BY StreamAssumption DEF TypeOK
<1>3. sent.content \in Nat /\ sent.content <= MaxContent
  BY <1>2 DEF TypeOK
<1>4. \A i \in sent.begun : sent.parts[i] \in Nat /\ sent.parts[i] <= Parts
  BY <1>2 DEF TypeOK
<1>5. Whole(sent.content) \in Seq(1..MaxContent)
  BY <1>1, <1>2, <1>3
<1>6. \A i \in sent.begun : Whole(sent.parts[i]) \in Seq(1..Parts)
  BY <1>1, <1>2, <1>4
<1> QED
  BY <1>5, <1>6 DEF Image

(* The image is well formed, whatever else is.                              *)
LEMMA MatchingFormed ==
  ASSUME TypeOK, NEW p, Matches(p),
         p = [content |-> p.content, calls |-> p.calls,
              termination |-> p.termination, outcome |-> p.outcome],
         p.termination \in {"none", "done", "finish_reason"}
  PROVE  WellFormed(p)
BY ImageTyped DEF Matches, WellFormed

(* The arguments of the image decode when each call has all or none.        *)
LEMMA ArgumentsTold ==
  ASSUME TypeOK, NEW p, Matches(p)
  PROVE  ArgumentsDecode(p.calls) <=> \A i \in sent.begun : sent.parts[i] \in {0, Parts}
<1>1. Parts \in Nat /\ \A i \in sent.begun : sent.parts[i] \in Nat
  BY StreamAssumption DEF TypeOK
<1>2. \A n \in Nat : Whole(n) \in {<<>>, Whole(Parts)} <=> n \in {0, Parts}
  BY <1>1, WholeCounts
<1>3. DOMAIN p.calls = sent.begun /\ \A i \in sent.begun : p.calls[i] = Whole(sent.parts[i])
  BY ImageTyped DEF Matches
<1> QED
  BY <1>1, <1>2, <1>3 DEF ArgumentsDecode

(* The end of the stream keeps the invariant, when what the parser has at   *)
(* the end is the image if it saw the completion closed, and there was a    *)
(* disturbance if it did not or had an error.                               *)
LEMMA EndedKeeps ==
  ASSUME StreamInv, NEW p, WellFormed(p), p.outcome \in {"reading", "error"},
         parsed' = Ended(p), UNCHANGED <<want, sent, closing>>,
         Len(wire') <= 3, Len(data_lines') <= 2, disturbed' \in BOOLEAN,
         p.outcome = "error" => disturbed',
         p.outcome = "reading" /\ p.termination = "none" => disturbed',
         p.outcome = "reading" /\ p.termination # "none" =>
           /\ Matches(p)
           /\ closing.reason # "length" => AllSent(sent)
           /\ \A k \in 1..Len(data_lines') : data_lines'[k] # Garbled
  PROVE  StreamInv'
<1>1. TypeOK /\ Shaped
  BY DEF StreamInv
<1> DEFINE q == Ended(p)
<1>2. /\ q = [content |-> q.content, calls |-> q.calls,
              termination |-> q.termination, outcome |-> q.outcome]
      /\ q.content = p.content /\ q.calls = p.calls /\ q.termination = p.termination
      /\ q.outcome \in {"accepted", "error"}
      /\ q.outcome = "accepted" => p.outcome = "reading" /\ p.termination # "none"
                                   /\ ArgumentsDecode(p.calls)
      /\ q.outcome = "error" => \/ p.outcome = "error" \/ p.termination = "none"
                                \/ ~ArgumentsDecode(p.calls)
  BY DEF Ended, WellFormed
<1> HIDE DEF q
<1>3. parsed' = q
  BY DEF q
<1>4. TypeOK'
  BY <1>1, <1>2, <1>3 DEF TypeOK, WellFormed
<1>5. Shaped'
  BY <1>1, <1>2, <1>3 DEF Shaped
<1>6. AcceptedWhole'
  <2> SUFFICES ASSUME q.outcome = "accepted" PROVE AcceptedWhole'
    BY <1>3 DEF AcceptedWhole
  <2>1. Matches(p) /\ ArgumentsDecode(p.calls)
    BY <1>2
  <2>2. /\ q.content = Whole(sent.content)
        /\ q.calls = [i \in sent.begun |-> Whole(sent.parts[i])]
    BY <1>1, <1>2, <2>1, ImageTyped DEF Matches
  <2>3. \A i \in sent.begun : sent.parts[i] \in {0, Parts}
    BY <1>1, <2>1, ArgumentsTold
  <2>4. closing'.reason # "length" => AllSent(sent)'
    BY <1>2 DEF AllSent
  <2>5. \A k \in 1..Len(data_lines') : data_lines'[k] # Garbled
    BY <1>2
  <2> QED
    BY <1>3, <2>2, <2>3, <2>4, <2>5 DEF AcceptedWhole
<1>7. NoFalseAlarm'
  <2> SUFFICES ASSUME q.outcome = "error", ~disturbed'
               PROVE  \E i \in sent.begun : sent.parts[i] < Parts
    BY <1>3 DEF NoFalseAlarm
  <2>1. Matches(p) /\ ~ArgumentsDecode(p.calls)
    BY <1>2
  <2>2. PICK i \in sent.begun : sent.parts[i] \notin {0, Parts}
    BY <1>1, <2>1, ArgumentsTold
  <2> QED
    BY <1>1, <2>2, StreamAssumption DEF TypeOK
<1> QED
  BY <1>2, <1>3, <1>4, <1>5, <1>6, <1>7 DEF StreamInv

-----------------------------------------------------------------------------
(* The provider's steps.                                                    *)

(* What is in transit when the provider may write.                          *)
LEMMA NothingComes ==
  ASSUME StreamInv, parsed.outcome = "reading", wire = <<>>
  PROVE  /\ Nothing /\ Matches(parsed) /\ ~closing.done
         /\ closing.reason # "open" <=> parsed.termination # "none"
<1>1. Reading
  BY DEF StreamInv
<1>2. ~DoneComing /\ ~Begun /\ ~Whole1 /\ ~Whole2
  BY ShortSequences DEF DoneComing, Begun, Whole1, Whole2
<1> QED
  BY <1>1, <1>2 DEF Reading

(* An event written is Begun.                                               *)
LEMMA Written ==
  ASSUME Nothing, NEW e, Write(e), UNCHANGED data_lines
  PROVE  Begun' /\ Pending' = e /\ Len(wire') <= 3
<1>1. data_lines' = <<>>
  BY DEF Nothing
<1>2. CASE wire' = Append(<<Data(e, "whole")>>, Blank)
  <2>1. wire' = <<Data(e, "whole"), Blank>>
    BY <1>2, ShortSequences
  <2>2. wire'[1] = Data(e, "whole") /\ Len(wire') = 2
    BY <2>1, GroupsDiffer
  <2>3. Pending' = e
    BY <1>1, <2>2 DEF Pending, Data
  <2> QED
    BY <1>1, <2>1, <2>2, <2>3 DEF Begun, OneLine
<1>3. CASE wire' = Append(<<Data(e, "first"), Data(e, "second")>>, Blank)
  <2>1. wire' = <<Data(e, "first"), Data(e, "second"), Blank>>
    BY <1>3, ShortSequences
  <2>2. wire'[1] = Data(e, "first") /\ Len(wire') = 3
    BY <2>1
  <2>3. Pending' = e
    BY <1>1, <2>2 DEF Pending, Data
  <2> QED
    BY <1>1, <2>1, <2>2, <2>3 DEF Begun, FirstLine, SecondLine
<1> QED
  BY <1>2, <1>3 DEF Write

(* An event that makes s sent keeps the invariant, if what it brings is     *)
(* what s has more.                                                         *)
LEMMA ChunkKeeps ==
  ASSUME StreamInv, parsed.outcome = "reading", wire = <<>>, closing.reason = "open",
         NEW s, NEW text, NEW fragments, Chunk(s, text, fragments),
         UNCHANGED <<want, data_lines, parsed>>,
         s = [content |-> s.content, begun |-> s.begun, parts |-> s.parts],
         s.content \in 0..want.content, s.begun \subseteq 1..want.calls,
         s.parts \in [1..want.calls -> 0..Parts], sent.begun \subseteq s.begun,
         \A i \in 1..want.calls \ s.begun : s.parts[i] = 0,
         Whole(sent.content) \o text = Whole(s.content),
         Gathered([i \in sent.begun |-> Whole(sent.parts[i])], fragments)
           = [i \in s.begun |-> Whole(s.parts[i])]
  PROVE  StreamInv'
<1>1. /\ TypeOK /\ Shaped /\ Reading
      /\ Nothing /\ Matches(parsed) /\ ~closing.done /\ parsed.termination = "none"
  BY NothingComes DEF StreamInv
<1>2. PICK reason \in Reasons(s) :
        /\ sent' = s
        /\ closing' = [closing EXCEPT !.reason = Announced(reason)]
        /\ disturbed' = (disturbed \/ reason = "invalid")
        /\ Write(Event(text, fragments, reason))
  BY DEF Chunk
<1> DEFINE e == Event(text, fragments, reason)
<1>3. /\ reason \in {"null", "invalid", "length", "stop"}
      /\ reason = "stop" => AllSent(s)
  BY <1>2 DEF Reasons
<1>4. /\ closing'.reason = Announced(reason) /\ closing'.done = FALSE
      /\ closing' \in [reason : {"open", "stop", "length"}, done : BOOLEAN]
  BY <1>1, <1>2 DEF TypeOK, Announced
<1>5. Begun' /\ Pending' = e /\ Len(wire') <= 3
  <2> HIDE DEF e
  <2> QED
    BY <1>1, <1>2, Written DEF e
<1>6. disturbed' \in BOOLEAN
  BY <1>1, <1>2 DEF TypeOK
<1>7. TypeOK'
  BY <1>1, <1>2, <1>4, <1>5, <1>6 DEF TypeOK
<1>8. Shaped'
  BY <1>1, <1>2 DEF Shaped
<1>9. /\ Image.content' = Whole(s.content)
      /\ Image.calls' = [i \in s.begun |-> Whole(s.parts[i])]
  BY <1>2 DEF Image
<1>10. Brings(Pending)'
  <2>1. parsed.content \o text = Whole(s.content)
    BY <1>1, ImageTyped DEF Matches
  <2>2. Gathered(parsed.calls, fragments) = [i \in s.begun |-> Whole(s.parts[i])]
    BY <1>1, ImageTyped DEF Matches
  <2>3. e.text = text /\ e.fragments = fragments /\ e.reason = reason
    BY DEF Event
  <2>4. /\ reason = "invalid" => disturbed'
        /\ reason \in {"length", "stop"} => closing'.reason = reason
        /\ closing'.reason # "open" => closing'.reason = reason
    BY <1>2, <1>3, <1>4 DEF Announced
  <2> HIDE DEF e
  <2> QED
    BY <1>3, <1>5, <1>9, <2>1, <2>2, <2>3, <2>4 DEF Brings
<1>11. ClosedInTime'
  <2>1. closing'.reason = "stop" => reason = "stop"
    BY <1>3, <1>4 DEF Announced
  <2>2. AllSent(s) => AllSent(sent)'
    BY <1>2 DEF AllSent
  <2> QED
    BY <1>3, <1>4, <2>1, <2>2 DEF ClosedInTime
<1>12. Reading'
  BY <1>1, <1>4, <1>5, <1>10, <1>11 DEF Reading
<1> QED
  BY <1>7, <1>8, <1>12 DEF StreamInv, AcceptedWhole, NoFalseAlarm

(* The fields of a value of sent after each of the provider's updates, and  *)
(* the image of the calls before them.                                      *)
LEMMA SentFields ==
  ASSUME TypeOK, Shaped
  PROVE  /\ sent.content \in Nat /\ want.content \in Nat /\ want.calls \in Nat /\ Parts \in Nat \ {0}
         /\ sent.content \in 0..want.content /\ sent.begun \subseteq 1..want.calls
         /\ sent.parts \in [1..want.calls -> 0..Parts]
         /\ [i \in sent.begun |-> Whole(sent.parts[i])] \in [sent.begun -> Seq(Nat)]
<1>1. /\ want.content \in Nat /\ want.calls \in Nat /\ Parts \in Nat \ {0}
      /\ sent.content \in 0..want.content /\ sent.begun \subseteq 1..want.calls
      /\ sent.parts \in [1..want.calls -> 0..Parts]
  BY StreamAssumption DEF TypeOK
<1>2. \A i \in sent.begun : sent.parts[i] \in Nat
  BY <1>1
<1>3. \A i \in sent.begun : Whole(sent.parts[i]) \in Seq(Nat)
  BY <1>2, WholeCounts
<1> QED
  BY <1>1, <1>3

LEMMA SendContentKeeps ==
  ASSUME StreamInv, Send, closing.reason = "open", SendContent
  PROVE  StreamInv'
<1>1. TypeOK /\ Shaped
  BY DEF StreamInv
<1> DEFINE s == [sent EXCEPT !.content = @ + 1]
<1>2. /\ s = [content |-> s.content, begun |-> s.begun, parts |-> s.parts]
      /\ s.content = sent.content + 1 /\ s.begun = sent.begun /\ s.parts = sent.parts
  BY <1>1 DEF Shaped
<1>3. Chunk(s, <<sent.content + 1>>, <<>>) /\ sent.content < want.content
  BY DEF SendContent
<1> HIDE DEF s
<1>4. s.content \in 0..want.content
  BY <1>1, <1>2, <1>3, SentFields
<1>5. Whole(sent.content) \o <<sent.content + 1>> = Whole(s.content)
  BY <1>1, <1>2, SentFields, WholeGrows
<1>6. Gathered([i \in sent.begun |-> Whole(sent.parts[i])], <<>>)
        = [i \in s.begun |-> Whole(s.parts[i])]
  BY <1>1, <1>2, SentFields, NoFragments
<1>7. \A i \in 1..want.calls \ s.begun : s.parts[i] = 0
  BY <1>1, <1>2 DEF Shaped
<1> QED
  BY <1>1, <1>2, <1>3, <1>4, <1>5, <1>6, <1>7, SentFields, ChunkKeeps DEF Send

LEMMA SendHeaderKeeps ==
  ASSUME StreamInv, Send, closing.reason = "open", SendHeader
  PROVE  StreamInv'
<1>1. TypeOK /\ Shaped
  BY DEF StreamInv
<1>2. PICK c \in 1..want.calls \ sent.begun :
        Chunk([sent EXCEPT !.begun = @ \union {c}], <<>>, <<Fragment(c, <<>>)>>)
  BY DEF SendHeader
<1> DEFINE s == [sent EXCEPT !.begun = @ \union {c}]
           calls == [i \in sent.begun |-> Whole(sent.parts[i])]
<1>3. /\ s = [content |-> s.content, begun |-> s.begun, parts |-> s.parts]
      /\ s.content = sent.content /\ s.begun = sent.begun \cup {c} /\ s.parts = sent.parts
  BY <1>1 DEF Shaped
<1>4. Chunk(s, <<>>, <<Fragment(c, <<>>)>>)
  BY <1>2
<1> HIDE DEF s
<1>5. Whole(sent.content) \o <<>> = Whole(s.content)
  BY <1>1, <1>3, SentFields, WholeGrows
<1>6. Gathered(calls, <<Fragment(c, <<>>)>>) = [i \in s.begun |-> Whole(s.parts[i])]
  <2>1. Whole(s.parts[c]) = <<>>
    BY <1>1, <1>3, WholeCounts DEF Shaped
  <2>2. /\ calls \in [sent.begun -> Seq(Nat)] /\ c \in Nat \ {0} /\ <<>> \in Seq(Nat)
        /\ c \notin sent.begun
    BY <1>1, <1>2, SentFields
  <2>3. \A i \in sent.begun : calls[i] = Whole(s.parts[i])
    BY <1>3
  <2>4. <<>> \o <<>> = <<>>
    OBVIOUS
  <2>5. DOMAIN calls = sent.begun
    OBVIOUS
  <2> HIDE DEF calls
  <2>6. Gathered(calls, <<Fragment(c, <<>>)>>) = WithPart(calls, c, <<>>)
    <3>1. PICK part : part = <<>>
      OBVIOUS
    <3>2. part \in Seq(Nat)
      BY <3>1
    <3>3. Gathered(calls, <<Fragment(c, part)>>) = WithPart(calls, c, part)
      BY <2>2, <3>2, OneFragment
    <3> QED
      BY <3>1, <3>3
  <2>7. \A i \in sent.begun \cup {c} :
          (IF i = c THEN (IF c \in sent.begun THEN calls[c] ELSE <<>>) \o <<>> ELSE calls[i])
            = Whole(s.parts[i])
    BY <2>1, <2>2, <2>3, <2>4
  <2>8. WithPart(calls, c, <<>>) = [i \in s.begun |-> Whole(s.parts[i])]
    BY <1>3, <2>5, <2>7 DEF WithPart
  <2> QED
    BY <2>6, <2>8
<1>7. \A i \in 1..want.calls \ s.begun : s.parts[i] = 0
  BY <1>1, <1>3 DEF Shaped
<1>8. s.begun \subseteq 1..want.calls
  BY <1>1, <1>2, <1>3, SentFields
<1> QED
  BY <1>1, <1>3, <1>4, <1>5, <1>6, <1>7, <1>8, SentFields, ChunkKeeps DEF Send

LEMMA SendFragmentKeeps ==
  ASSUME StreamInv, Send, closing.reason = "open", SendFragment
  PROVE  StreamInv'
<1>1. TypeOK /\ Shaped
  BY DEF StreamInv
<1>2. PICK c \in sent.begun :
        /\ sent.parts[c] < Parts
        /\ Chunk([sent EXCEPT !.parts[c] = @ + 1], <<>>,
                 <<Fragment(c, <<sent.parts[c] + 1>>)>>)
  BY DEF SendFragment
<1> DEFINE s == [sent EXCEPT !.parts[c] = @ + 1]
           calls == [i \in sent.begun |-> Whole(sent.parts[i])]
           part == <<sent.parts[c] + 1>>
<1>3. /\ s = [content |-> s.content, begun |-> s.begun, parts |-> s.parts]
      /\ s.content = sent.content /\ s.begun = sent.begun
      /\ s.parts = [sent.parts EXCEPT ![c] = @ + 1]
  BY <1>1 DEF Shaped
<1>4. Chunk(s, <<>>, <<Fragment(c, part)>>)
  BY <1>2
<1> HIDE DEF s
<1>5. Whole(sent.content) \o <<>> = Whole(s.content)
  BY <1>1, <1>3, SentFields, WholeGrows
<1>6. sent.parts[c] \in Nat /\ c \in 1..want.calls /\ sent.parts[c] + 1 \in 0..Parts
  BY <1>1, <1>2, SentFields
<1>7. s.parts \in [1..want.calls -> 0..Parts] /\ s.parts[c] = sent.parts[c] + 1
      /\ \A i \in 1..want.calls : i # c => s.parts[i] = sent.parts[i]
  BY <1>1, <1>3, <1>6, SentFields
<1>8. Gathered(calls, <<Fragment(c, part)>>) = [i \in s.begun |-> Whole(s.parts[i])]
  <2>1. calls \in [sent.begun -> Seq(Nat)] /\ c \in Nat \ {0} /\ part \in Seq(Nat)
    BY <1>1, <1>6, SentFields
  <2>2. calls[c] \o part = Whole(s.parts[c])
    BY <1>6, <1>7, WholeGrows
  <2>3. \A i \in sent.begun : i # c => calls[i] = Whole(s.parts[i])
    BY <1>1, <1>7, SentFields
  <2>0. DOMAIN calls = sent.begun
    OBVIOUS
  <2> HIDE DEF calls, part
  <2>4. Gathered(calls, <<Fragment(c, part)>>) = WithPart(calls, c, part)
    BY <2>1, OneFragment
  <2>5. \A i \in sent.begun \cup {c} :
          (IF i = c THEN (IF c \in sent.begun THEN calls[c] ELSE <<>>) \o part ELSE calls[i])
            = Whole(s.parts[i])
    BY <2>2, <2>3
  <2>6. s.begun = sent.begun \cup {c}
    BY <1>3
  <2>7. WithPart(calls, c, part) = [i \in s.begun |-> Whole(s.parts[i])]
    BY <2>0, <2>5, <2>6 DEF WithPart
  <2> QED
    BY <2>4, <2>7
<1>9. \A i \in 1..want.calls \ s.begun : s.parts[i] = 0
  BY <1>1, <1>3, <1>7 DEF Shaped
<1> QED
  BY <1>1, <1>3, <1>4, <1>5, <1>7, <1>8, <1>9, SentFields, ChunkKeeps DEF Send

LEMMA SendCallsKeeps ==
  ASSUME StreamInv, Send, closing.reason = "open", SendCalls
  PROVE  StreamInv'
<1>1. TypeOK /\ Shaped
  BY DEF StreamInv
<1> DEFINE s == [sent EXCEPT !.begun = 1..want.calls, !.parts = [i \in 1..want.calls |-> Parts]]
           fragments == [i \in 1..want.calls |-> Fragment(0, Whole(Parts))]
           calls == [i \in sent.begun |-> Whole(sent.parts[i])]
<1>2. sent.begun = {} /\ Chunk(s, <<>>, fragments)
  BY DEF SendCalls
<1>3. /\ s = [content |-> s.content, begun |-> s.begun, parts |-> s.parts]
      /\ s.content = sent.content /\ s.begun = 1..want.calls
      /\ s.parts = [i \in 1..want.calls |-> Parts]
  <2>1. PICK x : x = 1..want.calls
    OBVIOUS
  <2>2. PICK y : y = [i \in 1..want.calls |-> Parts]
    OBVIOUS
  <2>3. s = [sent EXCEPT !.begun = x, !.parts = y]
    BY <2>1, <2>2
  <2> HIDE DEF s
  <2>4. s = [content |-> sent.content, begun |-> x, parts |-> y]
    BY <1>1, <2>3 DEF Shaped
  <2>5. s.content = sent.content /\ s.begun = x /\ s.parts = y
    BY <2>4
  <2> QED
    BY <2>1, <2>2, <2>4, <2>5
<1> HIDE DEF s
<1>4. Whole(sent.content) \o <<>> = Whole(s.content)
  BY <1>1, <1>3, SentFields, WholeGrows
<1>5. s.parts \in [1..want.calls -> 0..Parts]
  BY <1>1, <1>3, SentFields
<1>6. Gathered(calls, fragments) = [i \in s.begun |-> Whole(s.parts[i])]
  <2>1. calls = [i \in {} |-> <<>>]
    BY <1>2
  <2>2. want.calls \in Nat /\ Whole(Parts) \in Seq(Nat)
    BY <1>1, SentFields, WholeCounts
  <2>3. Gathered(NoCalls, ByPosition(want.calls, Whole(Parts))) = Repeated(want.calls, Whole(Parts))
    BY <2>2, AllFragments
  <2>4. Gathered(NoCalls, fragments) = Repeated(want.calls, Whole(Parts))
    BY <2>3 DEF ByPosition
  <2>5. calls = NoCalls
    BY <2>1 DEF NoCalls
  <2>6. Repeated(want.calls, Whole(Parts)) = [i \in s.begun |-> Whole(s.parts[i])]
    BY <1>3 DEF Repeated
  <2> QED
    BY <2>4, <2>5, <2>6
<1>7. \A i \in 1..want.calls \ s.begun : s.parts[i] = 0
  BY <1>3
<1> HIDE DEF fragments
<1> QED
  BY <1>1, <1>2, <1>3, <1>4, <1>5, <1>6, <1>7, SentFields, ChunkKeeps DEF Send

LEMMA SendEmptyKeeps ==
  ASSUME StreamInv, Send, closing.reason = "open", SendEmpty
  PROVE  StreamInv'
<1>1. TypeOK /\ Shaped
  BY DEF StreamInv
<1>2. Whole(sent.content) \o <<>> = Whole(sent.content)
  BY <1>1, SentFields, WholeGrows
<1>3. Gathered([i \in sent.begun |-> Whole(sent.parts[i])], <<>>)
        = [i \in sent.begun |-> Whole(sent.parts[i])]
  BY <1>1, SentFields, NoFragments
<1> QED
  BY <1>1, <1>2, <1>3, SentFields, ChunkKeeps DEF Send, SendEmpty, Shaped

LEMMA SendDoneKeeps ==
  ASSUME StreamInv, Send, SendDone
  PROVE  StreamInv'
<1>1. /\ TypeOK /\ Shaped /\ Reading /\ parsed.outcome = "reading"
      /\ Nothing /\ Matches(parsed) /\ ~closing.done
  BY NothingComes DEF StreamInv, Send
<1>2. /\ closing' = [closing EXCEPT !.done = TRUE] /\ wire' = <<Done, Blank>>
      /\ closing.reason = "length" \/ AllSent(sent)
      /\ UNCHANGED <<want, sent, disturbed, data_lines, parsed>>
  BY DEF Send, SendDone
<1>3. /\ closing'.reason = closing.reason /\ closing'.done = TRUE
      /\ closing' \in [reason : {"open", "stop", "length"}, done : BOOLEAN]
  BY <1>1, <1>2 DEF TypeOK
<1>4. Len(wire') <= 3
  BY <1>2, GroupsDiffer
<1>5. TypeOK'
  BY <1>1, <1>2, <1>3, <1>4 DEF TypeOK
<1>6. Shaped'
  BY <1>1, <1>2 DEF Shaped
<1>7. DoneComing'
  BY <1>1, <1>2 DEF DoneComing, Nothing
<1>8. Matches(parsed)' /\ (AllSent(sent) => AllSent(sent)')
  BY <1>1, <1>2 DEF Matches, Image, AllSent
<1>9. ClosedInTime'
  BY <1>1, <1>2, <1>3, <1>8 DEF Reading, ClosedInTime
<1>10. Reading'
  BY <1>1, <1>2, <1>3, <1>7, <1>8, <1>9 DEF Reading
<1> QED
  BY <1>1, <1>2, <1>5, <1>6, <1>10 DEF StreamInv, AcceptedWhole, NoFalseAlarm

LEMMA SendUsageKeeps ==
  ASSUME StreamInv, Send, SendUsage
  PROVE  StreamInv'
<1>1. /\ TypeOK /\ Shaped /\ Reading /\ parsed.outcome = "reading"
      /\ Nothing /\ Matches(parsed) /\ ~closing.done
      /\ closing.reason # "open" => parsed.termination # "none"
  BY NothingComes DEF StreamInv, Send
<1> DEFINE e == Event(<<>>, <<>>, "null")
<1>2. /\ Write(e) /\ closing.reason # "open"
      /\ UNCHANGED <<want, sent, closing, disturbed, data_lines, parsed>>
  BY DEF Send, SendUsage
<1>3. e.text = <<>> /\ e.fragments = <<>> /\ e.reason = "null"
  BY DEF Event
<1> HIDE DEF e
<1>4. Begun' /\ Pending' = e /\ Len(wire') <= 3
  BY <1>1, <1>2, Written
<1>5. TypeOK'
  BY <1>1, <1>2, <1>4 DEF TypeOK
<1>6. Shaped'
  BY <1>1, <1>2 DEF Shaped
<1>7. Image' = Image /\ ClosedInTime'
  BY <1>1, <1>2 DEF Image, Reading, ClosedInTime, AllSent
<1>8. parsed.content \o <<>> = Image.content
  BY <1>1, ImageTyped DEF Matches
<1>9. Gathered(parsed.calls, <<>>) = Image.calls
  BY <1>1, ImageTyped, NoFragments DEF Matches
<1>10. Brings(Pending)'
  BY <1>1, <1>2, <1>3, <1>4, <1>7, <1>8, <1>9 DEF Brings
<1>11. Matches(parsed)'
  BY <1>1, <1>2, <1>7 DEF Matches
<1>12. Reading'
  BY <1>1, <1>2, <1>4, <1>7, <1>10, <1>11 DEF Reading
<1> QED
  BY <1>1, <1>2, <1>5, <1>6, <1>12 DEF StreamInv, AcceptedWhole, NoFalseAlarm

LEMMA SendKeeps ==
  ASSUME StreamInv, Send
  PROVE  StreamInv'
BY SendContentKeeps, SendHeaderKeeps, SendFragmentKeeps, SendCallsKeeps, SendEmptyKeeps,
   SendDoneKeeps, SendUsageKeeps DEF Send

-----------------------------------------------------------------------------
(* The parser's steps.                                                      *)

(* Folding in the event in transit makes the image, and sees its end when   *)
(* the provider has announced it; or the event is an error, a disturbance.  *)
LEMMA TakenBrings ==
  ASSUME StreamInv, parsed.outcome = "reading", Brings(Pending)
  PROVE  LET p == Taken(parsed, Pending) IN
         \/ p = Failed(parsed) /\ disturbed
         \/ /\ p = [content |-> p.content, calls |-> p.calls,
                    termination |-> p.termination, outcome |-> p.outcome]
            /\ Matches(p) /\ p.outcome = "reading"
            /\ p.termination \in {"none", "finish_reason"}
            /\ p.termination # "none" <=> closing.reason # "open"
<1>1. TypeOK /\ Shaped /\ Reading
  BY DEF StreamInv
<1> DEFINE e == Pending
           p == Taken(parsed, e)
<1>2. CASE e.reason = "invalid"
  BY <1>2 DEF Brings, Taken
<1>3. CASE e.reason # "invalid"
  <2>1. p = [parsed EXCEPT !.termination = IF e.reason = "null" THEN @ ELSE "finish_reason",
                           !.content = @ \o e.text,
                           !.calls = Gathered(@, e.fragments)]
    BY <1>3 DEF Taken
  <2>2. PICK text : text = parsed.content \o e.text
    OBVIOUS
  <2>3. PICK calls : calls = Gathered(parsed.calls, e.fragments)
    OBVIOUS
  <2>4. PICK termination :
          termination = IF e.reason = "null" THEN parsed.termination ELSE "finish_reason"
    OBVIOUS
  <2>5. /\ text = Image.content /\ calls = Image.calls
        /\ e.reason \in {"null", "length", "stop"}
        /\ e.reason \in {"length", "stop"} => closing.reason = e.reason
        /\ closing.reason # "open" => closing.reason = e.reason \/ parsed.termination # "none"
    BY <1>3, <2>2, <2>3 DEF Brings
  <2> HIDE DEF p, e
  <2>6. p = [parsed EXCEPT !.termination = termination, !.content = text, !.calls = calls]
    BY <2>1, <2>2, <2>3, <2>4
  <2>7. p = [content |-> text, calls |-> calls, termination |-> termination,
             outcome |-> parsed.outcome]
    BY <1>1, <2>6 DEF Shaped
  <2>8. p.content = text /\ p.calls = calls /\ p.termination = termination /\ p.outcome = "reading"
    BY <2>7
  <2>9. Matches(p)
    BY <2>5, <2>8 DEF Matches
  <2>10. /\ termination \in {"none", "finish_reason"}
         /\ termination # "none" <=> closing.reason # "open"
    <3>1. /\ parsed.termination \in {"none", "finish_reason"}
          /\ parsed.termination # "none" => closing.reason # "open"
          /\ closing.reason # "null"
      BY <1>1 DEF Reading, TypeOK
    <3>2. CASE e.reason = "null"
      BY <2>4, <2>5, <3>1, <3>2
    <3>3. CASE e.reason # "null"
      BY <2>4, <2>5, <3>3
    <3> QED
      BY <3>2, <3>3
  <2> QED
    BY <2>7, <2>8, <2>9, <2>10 DEF p, e
<1> QED
  BY <1>2, <1>3

(* What can be in transit, spelled out.                                     *)
LEMMA InTransit ==
  ASSUME StreamInv, parsed.outcome = "reading"
  PROVE  \/ Nothing
         \/ DoneComing /\ Matches(parsed) /\ closing.done
         \/ (Begun \/ Whole1 \/ Whole2) /\ ~closing.done /\ Brings(Pending)
BY DEF StreamInv, Reading

(* An error in the middle of the stream.                                    *)
LEMMA FailedKeeps ==
  ASSUME StreamInv, parsed.outcome = "reading", parsed' = Failed(parsed),
         UNCHANGED <<want, sent, closing>>, disturbed',
         disturbed' \in BOOLEAN, Len(wire') <= 3, Len(data_lines') <= 2
  PROVE  StreamInv'
<1>1. TypeOK /\ Shaped
  BY DEF StreamInv
<1>2. /\ parsed'.outcome = "error" /\ parsed'.content = parsed.content
      /\ parsed'.calls = parsed.calls /\ parsed'.termination = parsed.termination
      /\ parsed' = [content |-> parsed'.content, calls |-> parsed'.calls,
                    termination |-> parsed'.termination, outcome |-> parsed'.outcome]
  BY <1>1 DEF Shaped, Failed
<1>3. TypeOK'
  BY <1>1, <1>2 DEF TypeOK
<1>4. Shaped'
  BY <1>1, <1>2 DEF Shaped
<1> QED
  BY <1>2, <1>3, <1>4 DEF StreamInv, AcceptedWhole, NoFalseAlarm

LEMMA ReadDataKeeps ==
  ASSUME StreamInv, Read, Head(wire) # Blank
  PROVE  StreamInv'
<1>1. /\ TypeOK /\ Shaped /\ Reading /\ parsed.outcome = "reading" /\ wire # <<>>
      /\ data_lines' = Append(data_lines, Head(wire)) /\ wire' = Tail(wire)
      /\ UNCHANGED <<want, sent, closing, disturbed, parsed>>
  BY DEF StreamInv, Read, ReadData
<1>2. ~Nothing /\ ~Whole1 /\ ~Whole2
  BY <1>1, ShortSequences DEF Nothing, Whole1, Whole2
<1>3. Image' = Image /\ ClosedInTime' /\ (Matches(parsed) => Matches(parsed)')
  BY <1>1 DEF Reading, ClosedInTime, AllSent, Image, Matches
<1>4. Shaped'
  BY <1>1 DEF Shaped
<1> SUFFICES Len(wire') <= 3 /\ Len(data_lines') <= 2 /\ Reading'
  <2>1. Len(wire') <= 3 /\ Len(data_lines') <= 2 => TypeOK'
    BY <1>1 DEF TypeOK
  <2> QED
    BY <1>1, <1>4, <2>1 DEF StreamInv, AcceptedWhole, NoFalseAlarm
<1>5. CASE DoneComing
  <2>1. wire = <<Done, Blank>> /\ data_lines = <<>>
    BY <1>1, <1>5, ShortSequences DEF DoneComing
  <2>2. wire' = <<Blank>> /\ data_lines' = <<Done>>
    BY <1>1, <2>1, ShortSequences
  <2>3. DoneComing' /\ Len(wire') <= 3 /\ Len(data_lines') <= 2
    BY <2>2, GroupsDiffer DEF DoneComing
  <2>4. Matches(parsed) /\ closing.done
    <3>1. ~Begun
      BY <1>5, <2>1, GroupsDiffer, LinesDiffer, ShortSequences DEF Begun, OneLine, SecondLine, FirstLine, Data, Done
    <3> QED
      BY <1>1, <1>2, <3>1, InTransit
  <2> QED
    BY <1>1, <1>3, <2>3, <2>4 DEF Reading
<1>6. CASE Begun /\ ~closing.done /\ Brings(Pending)
  <2> DEFINE e == Pending
  <2>1. /\ Len(wire') <= 3 /\ Len(data_lines') <= 2
        /\ Pending' = e /\ (Begun \/ Whole1 \/ Whole2)'
    <3>1. CASE wire = <<Data(e, "whole"), Blank>> /\ data_lines = <<>>
      <4>1. wire' = <<Blank>> /\ data_lines' = <<Data(e, "whole")>>
        BY <1>1, <3>1, ShortSequences
      <4> HIDE DEF e
      <4>2. data_lines' # <<>> /\ data_lines'[1] = Data(e, "whole")
        BY <4>1, GroupsDiffer
      <4>3. Pending' = e
        BY <4>2 DEF Pending, Data
      <4> QED
        BY <4>1, <4>3, GroupsDiffer DEF Whole1, OneLine
    <3>2. CASE wire = <<Data(e, "first"), Data(e, "second"), Blank>> /\ data_lines = <<>>
      <4>1. wire' = <<Data(e, "second"), Blank>> /\ data_lines' = <<Data(e, "first")>>
        BY <1>1, <3>2, ShortSequences
      <4> HIDE DEF e
      <4>2. data_lines' # <<>> /\ data_lines'[1] = Data(e, "first")
        BY <4>1, GroupsDiffer
      <4>3. Pending' = e
        BY <4>2 DEF Pending, Data
      <4> QED
        BY <4>1, <4>3, GroupsDiffer DEF Begun, FirstLine, SecondLine
    <3>3. CASE wire = <<Data(e, "second"), Blank>> /\ data_lines = <<Data(e, "first")>>
      <4>1. wire' = <<Blank>> /\ data_lines' = <<Data(e, "first"), Data(e, "second")>>
        BY <1>1, <3>3, ShortSequences
      <4> HIDE DEF e
      <4>2. data_lines' # <<>> /\ data_lines'[1] = Data(e, "first")
        BY <4>1, GroupsDiffer
      <4>3. Pending' = e
        BY <4>2 DEF Pending, Data
      <4> QED
        BY <4>1, <4>3, GroupsDiffer DEF Whole2, FirstLine, SecondLine
    <3> QED
      BY <1>6, <3>1, <3>2, <3>3 DEF Begun, OneLine, FirstLine, SecondLine
  <2> HIDE DEF e
  <2>2. Brings(Pending)'
    BY <1>1, <1>3, <1>6, <2>1 DEF Brings, e
  <2> QED
    BY <1>1, <1>3, <1>6, <2>1, <2>2 DEF Reading
<1> QED
  BY <1>1, <1>2, <1>5, <1>6, InTransit

LEMMA ReadBlankKeeps ==
  ASSUME StreamInv, Read, Head(wire) = Blank
  PROVE  StreamInv'
<1> DEFINE p == Consumed(parsed, data_lines)
<1>1. /\ TypeOK /\ Shaped /\ Reading /\ parsed.outcome = "reading" /\ wire # <<>>
      /\ parsed' = IF data_lines = <<Done>> THEN Ended(p) ELSE p
      /\ data_lines' = <<>> /\ wire' = Tail(wire)
      /\ UNCHANGED <<want, sent, closing, disturbed>>
  BY DEF StreamInv, Read, ReadBlank
<1>2. ~Nothing
  BY <1>1 DEF Nothing
<1>3. ~Begun
  BY ShortSequences, LinesDiffer DEF Begun, OneLine, FirstLine, SecondLine
<1>4. /\ wire = <<Blank>>
      /\ data_lines \in {<<Done>>, <<OneLine>>, <<FirstLine, SecondLine>>}
  BY <1>1, <1>2, <1>3, InTransit, ShortSequences, LinesDiffer DEF DoneComing, Whole1, Whole2
<1>5. wire' = <<>> /\ Len(wire') <= 3 /\ Len(data_lines') <= 2 /\ data_lines' = <<>>
      /\ disturbed' \in BOOLEAN
  BY <1>1, <1>4, ShortSequences DEF TypeOK
<1>6. CASE data_lines = <<Done>>
  <2>1. Matches(parsed) /\ closing.done
    BY <1>1, <1>2, <1>3, <1>6, InTransit, GroupsDiffer, LinesDiffer
       DEF Whole1, Whole2, OneLine
  <2>2. p = [parsed EXCEPT !.termination = "done"]
    BY <1>6, ConsumedGroup
  <2> HIDE DEF p
  <2>3. /\ p = [content |-> p.content, calls |-> p.calls,
                termination |-> p.termination, outcome |-> p.outcome]
        /\ p.content = parsed.content /\ p.calls = parsed.calls
        /\ p.termination = "done" /\ p.outcome = "reading"
    BY <1>1, <2>2 DEF Shaped
  <2>4. Matches(p)
    BY <2>1, <2>3 DEF Matches
  <2>5. WellFormed(p)
    BY <1>1, <2>3, <2>4, MatchingFormed
  <2>6. closing.reason # "length" => AllSent(sent)
    BY <1>1, <2>1 DEF Reading, ClosedInTime
  <2>7. \A k \in 1..Len(data_lines') : data_lines'[k] # Garbled
    BY <1>5
  <2>8. parsed' = Ended(p)
    BY <1>1, <1>6
  <2> QED
    BY <1>1, <1>5, <2>3, <2>4, <2>5, <2>6, <2>7, <2>8, EndedKeeps
<1>7. CASE data_lines # <<Done>>
  <2>1. ~closing.done /\ Brings(Pending)
    BY <1>2, <1>1, <1>4, <1>7, InTransit, ShortSequences DEF DoneComing
  <2>2. p = Taken(parsed, Pending)
    <3> DEFINE e == Pending
    <3>1. data_lines \in {<<Data(e, "whole")>>, <<Data(e, "first"), Data(e, "second")>>}
      BY <1>4, <1>7 DEF OneLine, FirstLine, SecondLine
    <3> HIDE DEF e
    <3>2. /\ Consumed(parsed, <<Data(e, "whole")>>) = Taken(parsed, e)
          /\ Consumed(parsed, <<Data(e, "first"), Data(e, "second")>>) = Taken(parsed, e)
      BY ConsumedGroup
    <3>3. p = Taken(parsed, e)
      BY <3>1, <3>2
    <3> QED
      BY <3>3 DEF e
  <2>3. parsed' = p
    BY <1>1, <1>7
  <2> HIDE DEF p
  <2>4. CASE p = Failed(parsed) /\ disturbed
    BY <1>1, <1>5, <2>3, <2>4, FailedKeeps
  <2>5. CASE /\ p = [content |-> p.content, calls |-> p.calls,
                     termination |-> p.termination, outcome |-> p.outcome]
             /\ Matches(p) /\ p.outcome = "reading"
             /\ p.termination \in {"none", "finish_reason"}
             /\ p.termination # "none" <=> closing.reason # "open"
    <3>1. WellFormed(p)
      BY <1>1, <2>5, MatchingFormed
    <3>2. TypeOK'
      BY <1>1, <1>5, <2>3, <2>5, <3>1 DEF TypeOK, WellFormed
    <3>3. Shaped'
      BY <1>1, <2>3, <2>5 DEF Shaped
    <3>4. Matches(parsed)' /\ ClosedInTime'
      BY <1>1, <2>3, <2>5 DEF Matches, Image, Reading, ClosedInTime, AllSent
    <3>5. Nothing'
      BY <1>5 DEF Nothing
    <3>6. Reading'
      BY <1>1, <2>1, <2>3, <2>5, <3>4, <3>5 DEF Reading
    <3> QED
      BY <2>3, <2>5, <3>2, <3>3, <3>6 DEF StreamInv, AcceptedWhole, NoFalseAlarm
  <2> QED
    BY <1>1, <2>1, <2>2, <2>4, <2>5, TakenBrings
<1> QED
  BY <1>6, <1>7

LEMMA CallbackRaisesKeeps ==
  ASSUME StreamInv, CallbackRaises
  PROVE  StreamInv'
BY FailedKeeps DEF CallbackRaises, StreamInv, TypeOK

LEMMA ReadKeeps ==
  ASSUME StreamInv, Read
  PROVE  StreamInv'
BY ReadDataKeeps, ReadBlankKeeps

(* The connection ends between two lines: the group so far is dispatched,   *)
(* and the disturbance is that of a stream which had not come to its end.   *)
LEMMA CloseBetweenLinesKeeps ==
  ASSUME StreamInv, Close, CloseBetweenLines
  PROVE  StreamInv'
<1> DEFINE p == Consumed(parsed, data_lines)
<1>1. /\ TypeOK /\ Shaped /\ Reading /\ parsed.outcome = "reading" /\ wire' = <<>>
      /\ disturbed' = (disturbed \/ wire \notin {<<>>, <<Blank>>}
                       \/ (closing.reason = "open" /\ ~closing.done))
      /\ UNCHANGED <<want, sent, closing, data_lines>>
  BY DEF StreamInv, Close, CloseBetweenLines
<1>2. parsed' = Ended(p)
  <2>1. data_lines \o <<>> = data_lines
    <3>1. CASE data_lines = <<>>
      BY <3>1
    <3>2. CASE data_lines # <<>>
      <4>1. \/ DoneComing \/ Begun \/ Whole1 \/ Whole2
        BY <1>1, <3>2, InTransit DEF Nothing
      <4> QED
        BY <3>2, <4>1, ShortSequences DEF DoneComing, Begun, Whole1, Whole2
    <3> QED
      BY <3>1, <3>2
  <2> QED
    BY <2>1 DEF Close, CloseBetweenLines, LastGroup
<1>3. /\ Len(wire') <= 3 /\ Len(data_lines') <= 2 /\ disturbed' \in BOOLEAN
  BY <1>1, ShortSequences DEF TypeOK
<1>4. WellFormed(parsed)
  BY <1>1 DEF WellFormed, TypeOK, Shaped
<1>5. parsed.termination # "none" => Matches(parsed) /\ (closing.reason # "length" => AllSent(sent))
  BY <1>1 DEF Reading, ClosedInTime, TypeOK
(* Nothing has been read of what is in transit.                             *)
<1>6. CASE data_lines = <<>>
  <2>1. p = parsed
    BY <1>6, ConsumedGroup
  <2>2. parsed.termination = "none" => disturbed'
    <3>1. CASE Nothing
      BY <1>1, <3>1, NothingComes DEF Nothing
    <3>2. CASE ~Nothing
      <4>1. wire # <<>> /\ wire # <<Blank>>
        BY <1>1, <1>6, <3>2, InTransit, ShortSequences, LinesDiffer
           DEF Nothing, DoneComing, Begun, Whole1, Whole2, OneLine, FirstLine, SecondLine
      <4> QED
        BY <1>1, <4>1
    <3> QED
      BY <3>1, <3>2
  <2>3. \A k \in 1..Len(data_lines') : data_lines'[k] # Garbled
    BY <1>1, <1>6
  <2> HIDE DEF p
  <2> QED
    BY <1>1, <1>2, <1>3, <1>4, <1>5, <2>1, <2>2, <2>3, EndedKeeps
(* All of it.                                                               *)
<1>7. CASE data_lines = <<Done>>
  <2>1. Matches(parsed) /\ closing.done
    BY <1>1, <1>7, InTransit, GroupsDiffer, LinesDiffer
       DEF Nothing, Begun, Whole1, Whole2, OneLine, FirstLine
  <2>2. p = [parsed EXCEPT !.termination = "done"]
    BY <1>7, ConsumedGroup
  <2> HIDE DEF p
  <2>3. /\ p = [content |-> p.content, calls |-> p.calls,
                termination |-> p.termination, outcome |-> p.outcome]
        /\ p.content = parsed.content /\ p.calls = parsed.calls
        /\ p.termination = "done" /\ p.outcome = "reading"
    BY <1>1, <2>2 DEF Shaped
  <2>4. Matches(p)
    BY <2>1, <2>3 DEF Matches
  <2>5. WellFormed(p)
    BY <1>1, <2>3, <2>4, MatchingFormed
  <2>6. closing.reason # "length" => AllSent(sent)
    BY <1>1, <2>1 DEF Reading, ClosedInTime
  <2>7. \A k \in 1..Len(data_lines') : data_lines'[k] # Garbled
    BY <1>1, <1>7, GroupsDiffer, LinesDiffer
  <2> QED
    BY <1>1, <1>2, <1>3, <2>3, <2>4, <2>5, <2>6, <2>7, EndedKeeps
<1>8. CASE Whole1 \/ Whole2
  <2> DEFINE e == Pending
  <2>1. data_lines \in {<<Data(e, "whole")>>, <<Data(e, "first"), Data(e, "second")>>}
    BY <1>8 DEF Whole1, Whole2, OneLine, FirstLine, SecondLine
  <2> HIDE DEF e
  <2>2. \A k \in 1..Len(data_lines) : data_lines[k] # Garbled
    <3>1. CASE data_lines = <<Data(e, "whole")>>
      BY <3>1, GroupsDiffer, LinesDiffer
    <3>2. CASE data_lines = <<Data(e, "first"), Data(e, "second")>>
      <4>1. Len(data_lines) = 2 /\ data_lines[1] = Data(e, "first") /\ data_lines[2] = Data(e, "second")
        BY <3>2, GroupsDiffer
      <4> QED
        BY <4>1, LinesDiffer
    <3> QED
      BY <2>1, <3>1, <3>2
  <2>3. data_lines # <<>> /\ data_lines # <<Done>>
    BY <2>1, GroupsDiffer, LinesDiffer
  <2>4. ~closing.done /\ Brings(Pending)
    BY <1>1, <2>3, InTransit, GroupsDiffer, ShortSequences DEF Nothing, DoneComing
  <2>5. p = Taken(parsed, Pending)
    <3>1. /\ Consumed(parsed, <<Data(e, "whole")>>) = Taken(parsed, e)
          /\ Consumed(parsed, <<Data(e, "first"), Data(e, "second")>>) = Taken(parsed, e)
      BY ConsumedGroup
    <3>2. p = Taken(parsed, e)
      BY <2>1, <3>1
    <3> QED
      BY <3>2 DEF e
  <2> HIDE DEF p
  <2>6. CASE p = Failed(parsed) /\ disturbed
    <3>1. Ended(p) = Failed(parsed)
      BY <1>1, <2>6 DEF Ended, Failed, Shaped
    <3> QED
      BY <1>1, <1>2, <1>3, <2>6, <3>1, FailedKeeps
  <2>7. CASE /\ p = [content |-> p.content, calls |-> p.calls,
                     termination |-> p.termination, outcome |-> p.outcome]
             /\ Matches(p) /\ p.outcome = "reading"
             /\ p.termination \in {"none", "finish_reason"}
             /\ p.termination # "none" <=> closing.reason # "open"
    <3>1. WellFormed(p)
      BY <1>1, <2>7, MatchingFormed
    <3>2. p.termination = "none" => disturbed'
      BY <1>1, <2>4, <2>7
    <3>3. p.termination # "none" /\ closing.reason # "length" => AllSent(sent)
      BY <1>1, <2>7 DEF Reading, ClosedInTime, TypeOK
    <3>4. \A k \in 1..Len(data_lines') : data_lines'[k] # Garbled
      BY <1>1, <2>2
    <3> QED
      BY <1>1, <1>2, <1>3, <2>7, <3>1, <3>2, <3>3, <3>4, EndedKeeps
  <2> QED
    BY <1>1, <2>4, <2>5, <2>6, <2>7, TakenBrings
(* The first of the two lines of an event.                                  *)
<1>9. CASE wire = <<SecondLine, Blank>> /\ data_lines = <<FirstLine>>
  <2>1. p = Failed(parsed)
    BY <1>9, ConsumedGroup DEF FirstLine
  <2>2. Ended(p) = Failed(parsed)
    BY <1>1, <2>1 DEF Ended, Failed, Shaped
  <2>3. wire # <<>> /\ wire # <<Blank>>
    BY <1>9, GroupsDiffer
  <2>4. disturbed'
    BY <1>1, <2>3
  <2> HIDE DEF p
  <2> QED
    BY <1>1, <1>2, <1>3, <2>2, <2>4, FailedKeeps
<1> QED
  BY <1>1, <1>6, <1>7, <1>8, <1>9, InTransit DEF Nothing, DoneComing, Begun

(* In the middle of a line, or with an exception of httpx: an error.        *)
LEMMA CloseInLineKeeps ==
  ASSUME StreamInv, Close, CloseInLine
  PROVE  StreamInv'
<1>1. /\ TypeOK /\ Shaped /\ parsed.outcome = "reading" /\ wire' = <<>>
      /\ wire # <<>> /\ Head(wire) # Blank /\ disturbed' = TRUE
      /\ parsed' = Ended(Consumed(parsed, data_lines \o <<Garbled>>))
      /\ data_lines' = Append(data_lines, Garbled)
      /\ UNCHANGED <<want, sent, closing>>
  BY DEF StreamInv, Close, CloseInLine, LastGroup
<1>2. ~Nothing /\ ~Whole1 /\ ~Whole2 /\ wire # <<Blank>>
  BY <1>1, ShortSequences DEF Nothing, Whole1, Whole2
<1>3. data_lines = <<>> \/ data_lines = <<FirstLine>>
  BY <1>1, <1>2, InTransit DEF DoneComing, Begun
<1>4. /\ Consumed(parsed, data_lines \o <<Garbled>>) = Failed(parsed)
      /\ Len(data_lines') <= 2
  <2>0. data_lines' = Append(data_lines, Garbled)
    BY <1>1
  <2>1. CASE data_lines = <<>>
    <3>1. Append(<<>>, Garbled) = <<Garbled>> /\ <<>> \o <<Garbled>> = <<Garbled>>
      BY ShortSequences
    <3>2. data_lines \o <<Garbled>> = <<Garbled>> /\ data_lines' = <<Garbled>>
      BY <2>0, <2>1, <3>1
    <3>3. Consumed(parsed, <<Garbled>>) = Failed(parsed)
      BY ConsumedGroup
    <3>4. Len(<<Garbled>>) <= 2
      BY GroupsDiffer
    <3> QED
      BY <3>2, <3>3, <3>4
  <2>2. CASE data_lines = <<FirstLine>>
    <3>1. /\ Append(<<FirstLine>>, Garbled) = <<FirstLine, Garbled>>
          /\ <<FirstLine>> \o <<Garbled>> = <<FirstLine, Garbled>>
      BY ShortSequences
    <3>2. data_lines \o <<Garbled>> = <<FirstLine, Garbled>> /\ data_lines' = <<FirstLine, Garbled>>
      BY <2>0, <2>2, <3>1
    <3>3. Consumed(parsed, <<FirstLine, Garbled>>) = Failed(parsed)
      BY ConsumedGroup DEF FirstLine
    <3>4. Len(<<FirstLine, Garbled>>) <= 2
      BY GroupsDiffer
    <3> QED
      BY <3>2, <3>3, <3>4
  <2> QED
    BY <1>3, <2>1, <2>2
<1>5. parsed' = Failed(parsed)
  BY <1>1, <1>4 DEF Ended, Failed, Shaped
<1>6. Len(wire') <= 3 /\ disturbed' \in BOOLEAN /\ disturbed'
  BY <1>1
<1> QED
  BY <1>1, <1>4, <1>5, <1>6, FailedKeeps

LEMMA TransportErrorKeeps ==
  ASSUME StreamInv, Close, TransportError
  PROVE  StreamInv'
<1>1. /\ Len(wire') <= 3 /\ Len(data_lines') <= 2 /\ disturbed' /\ disturbed' \in BOOLEAN
      /\ parsed.outcome = "reading" /\ parsed' = Failed(parsed)
      /\ UNCHANGED <<want, sent, closing>>
  BY DEF Close, TransportError, StreamInv, TypeOK
<1> QED
  BY <1>1, FailedKeeps

-----------------------------------------------------------------------------
LEMMA StreamInvInit ==
  ASSUME Init
  PROVE  StreamInv
<1>1. /\ want.content \in Nat /\ want.calls \in Nat
      /\ want \in [content : 0..MaxContent, calls : 0..MaxCalls]
  BY StreamAssumption DEF Init
<1>2. /\ sent.content = 0 /\ sent.begun = {} /\ sent.parts = [i \in 1..want.calls |-> 0]
      /\ closing.reason = "open" /\ closing.done = FALSE
      /\ wire = <<>> /\ data_lines = <<>> /\ disturbed = FALSE
      /\ parsed.content = <<>> /\ parsed.calls = NoCalls
      /\ parsed.termination = "none" /\ parsed.outcome = "reading"
  BY DEF Init
<1>3. TypeOK
  <2>1. sent.parts \in [1..want.calls -> 0..Parts]
    BY <1>2, StreamAssumption
  <2>2. closing \in [reason : {"open", "stop", "length"}, done : BOOLEAN]
    BY DEF Init
  <2>3. parsed.content \in Seq(1..MaxContent)
    BY <1>2
  <2>4. Len(wire) <= 3 /\ Len(data_lines) <= 2 /\ disturbed \in BOOLEAN
    <3>1. Len(<<>>) = 0
      OBVIOUS
    <3>2. wire = <<>> /\ data_lines = <<>>
      BY <1>2
    <3>3. Len(wire) = 0 /\ Len(data_lines) = 0
      BY <3>1, <3>2
    <3>4. disturbed \in BOOLEAN
      BY DEF Init
    <3> QED
      BY <3>3, <3>4
  <2>5. DOMAIN parsed.calls = {}
    BY <1>2 DEF NoCalls
  <2>6. sent.content \in 0..want.content /\ sent.begun \subseteq 1..want.calls
    BY <1>1, <1>2
  <2>7. /\ DOMAIN parsed.calls \subseteq sent.begun
        /\ \A i \in DOMAIN parsed.calls : parsed.calls[i] \in Seq(1..Parts)
    BY <2>5
  <2>8. /\ parsed.termination \in {"none", "done", "finish_reason"}
        /\ parsed.outcome \in {"reading", "accepted", "error"}
    BY <1>2
  <2> QED
    BY <1>1, <2>1, <2>2, <2>3, <2>4, <2>6, <2>7, <2>8 DEF TypeOK
<1>4. Shaped
  BY <1>2 DEF Shaped, Init
<1>5. Matches(parsed)
  <2>1. parsed.content = Whole(sent.content)
    BY <1>2, WholeCounts
  <2>2. parsed.calls = [i \in sent.begun |-> Whole(sent.parts[i])]
    BY <1>2 DEF NoCalls
  <2> QED
    BY <2>1, <2>2 DEF Matches, Image
<1>6. Reading
  BY <1>2, <1>5 DEF Reading, ClosedInTime, Nothing
<1> QED
  BY <1>2, <1>3, <1>4, <1>6 DEF StreamInv, AcceptedWhole, NoFalseAlarm

LEMMA StreamInvStep ==
  ASSUME StreamInv, [Next]_vars
  PROVE  StreamInv'
<1>1. CASE Send
  BY <1>1, SendKeeps
<1>2. CASE Read
  BY <1>2, ReadKeeps
<1>3. CASE CallbackRaises
  BY <1>3, CallbackRaisesKeeps
<1>4. CASE Close
  BY <1>4, CloseBetweenLinesKeeps, CloseInLineKeeps, TransportErrorKeeps DEF Close
<1>5. CASE UNCHANGED vars
  <2>1. TypeOK' /\ Shaped' /\ AcceptedWhole' /\ NoFalseAlarm'
    BY <1>5 DEF vars, StreamInv, TypeOK, Shaped, AcceptedWhole, AllSent, NoFalseAlarm
  <2>2. Pending' = Pending /\ Image' = Image /\ (ClosedInTime => ClosedInTime')
    BY <1>5 DEF vars, Pending, Image, ClosedInTime, AllSent
  <2>3. /\ OneLine' = OneLine /\ FirstLine' = FirstLine /\ SecondLine' = SecondLine
    BY <2>2 DEF OneLine, FirstLine, SecondLine
  <2>4. /\ Nothing => Nothing'
        /\ DoneComing => DoneComing'
        /\ Begun => Begun'
        /\ Whole1 => Whole1'
        /\ Whole2 => Whole2'
        /\ Matches(parsed) => Matches(parsed)'
        /\ Brings(Pending) => Brings(Pending)'
    BY <1>5, <2>2, <2>3 DEF vars, Nothing, DoneComing, Begun, Whole1, Whole2, Matches, Brings
  <2>5. parsed.outcome = "reading" => Reading'
    BY <1>5, <2>2, <2>4 DEF vars, StreamInv, Reading
  <2> QED
    BY <1>5, <2>1, <2>5 DEF vars, StreamInv
<1> QED
  BY <1>1, <1>2, <1>3, <1>4, <1>5 DEF Next

(* The invariant, of every behaviour.                                       *)
THEOREM StreamInvariant == Spec => []StreamInv
<1>1. Init => StreamInv
  BY StreamInvInit
<1>2. StreamInv /\ [Next]_vars => StreamInv'
  BY StreamInvStep
<1> QED
  BY <1>1, <1>2, PTL DEF Spec

(* Every state of the stream is well typed, and the calls parsed are calls  *)
(* the provider made.                                                       *)
THEOREM StreamTypeCorrect == Spec => []TypeOK
<1>1. StreamInv => TypeOK
  BY DEF StreamInv
<1> QED
  BY <1>1, StreamInvariant, PTL

(* A completion the parser accepts is the one the provider sent, whatever   *)
(* the interleaving of its fragments and wherever the connection broke      *)
(* (litellm.py:79-82, 124-151).                                             *)
THEOREM AcceptedIsWhole == Spec => []AcceptedWhole
<1>1. StreamInv => AcceptedWhole
  BY DEF StreamInv
<1> QED
  BY <1>1, StreamInvariant, PTL

(* A completion that came whole over a connection that closed after its     *)
(* last event is not an error, unless the token limit left a call half      *)
(* written.                                                                 *)
THEOREM NoFalseAlarms == Spec => []NoFalseAlarm
<1>1. StreamInv => NoFalseAlarm
  BY DEF StreamInv
<1> QED
  BY <1>1, StreamInvariant, PTL
=============================================================================
