------------------------- MODULE ParsedCallsProofs -------------------------
(***************************************************************************)
(* Theorems about the parser's pairing and nesting: what it says of a      *)
(* record is what happened on the server, for every set of keys and        *)
(* activities, every limit, and every order of nested, overlapping and     *)
(* damaged records.                                                        *)
(***************************************************************************)
EXTENDS TraceParserProofs

Activations == [id : Nat, activity : Activities, caller : Nat]

\* A stack of the parser is the inner end of what is open, under the sequences
\* the activations were born with.
InnerEnd(stack, open, names) ==
    /\ Len(stack) <= Len(open)
    /\ \A i \in DOMAIN stack :
          /\ stack[i].sequence \in DOMAIN names
          /\ names[stack[i].sequence] = open[Len(open) - Len(stack) + i].id
          /\ stack[i].activity = open[Len(open) - Len(stack) + i].activity

\* Open statements differ from whatever else is open under their key.
StatementsDiffer(open) ==
    \A i, j \in DOMAIN open :
        i # j /\ open[i].activity.kind = "statement" => open[i].activity # open[j].activity

\* Every activation but the outermost was called by the one around it.
Chained(open) == \A i \in 2..Len(open) : open[i].caller = open[i - 1].id

-----------------------------------------------------------------------------
(* What the server has open. *)

CallsTyped == starts \in Nat /\ calls \in [Keys -> Seq(Activations)]

CallsDiffer == \A k \in Keys : StatementsDiffer(calls[k])

\* Where nothing overlaps nothing finishes out of order.
CallsChained == ~ overlapped => ~ disordered /\ \A k \in Keys : Chained(calls[k])

(* What the parser makes of it. *)

ParserTyped ==
    /\ WithinLimits(parser)
    /\ NoKey \notin DOMAIN parser.stacks
    /\ born \in Seq(Nat)
    /\ parser.sequence = Len(born)

StacksInner == ~ disordered => \A k \in Keys : InnerEnd(StackOf(parser, k), calls[k], born)

\* Before the first gap nothing that is open is forgotten.
StacksWhole ==
    ~ disordered /\ ~ parser.incomplete =>
        \A k \in Keys \ {NoKey} : Len(StackOf(parser, k)) = Len(calls[k])

NestingInv ==
    /\ CallsTyped
    /\ CallsDiffer
    /\ CallsChained
    /\ ParserTyped
    /\ StacksInner
    /\ StacksWhole

-----------------------------------------------------------------------------
(* Sequences. *)

\* A sequence without one of its elements.
LEMMA RemovedAt ==
    ASSUME NEW S, NEW s \in Seq(S), NEW i \in 1..Len(s)
    PROVE  /\ RemoveAt(s, i) \in Seq(S)
           /\ Len(RemoveAt(s, i)) = Len(s) - 1
           /\ \A j \in 1..(Len(s) - 1) : RemoveAt(s, i)[j] = IF j < i THEN s[j] ELSE s[j + 1]
<1> DEFINE n == Len(s)
           a == SubSeq(s, 1, i - 1)
           b == SubSeq(s, i + 1, n)
<1>1. n \in Nat /\ i \in Nat /\ 1 <= i /\ i <= n /\ \A j \in 1..n : s[j] \in S
  OBVIOUS
<1>2. RemoveAt(s, i) = a \o b
  BY DEF RemoveAt
<1>3. /\ a \in Seq(S)
      /\ Len(a) = i - 1
      /\ \A j \in 1..(i - 1) : a[j] = s[j]
  <2>1. \A j \in 1..(i - 1) : s[j] \in S
    BY <1>1
  <2>2. /\ a \in Seq(S)
        /\ Len(a) = IF 1 <= i - 1 THEN (i - 1) - 1 + 1 ELSE 0
        /\ \A j \in 1..((i - 1) - 1 + 1) : a[j] = s[1 + j - 1]
    BY <1>1, <2>1, SubSeqProperties
  <2> QED
    BY <1>1, <2>2
<1>4. /\ b \in Seq(S)
      /\ Len(b) = n - i
      /\ \A j \in 1..(n - i) : b[j] = s[i + j]
  <2>1. \A j \in (i + 1)..n : s[j] \in S
    BY <1>1
  <2>2. /\ b \in Seq(S)
        /\ Len(b) = IF i + 1 <= n THEN n - (i + 1) + 1 ELSE 0
        /\ \A j \in 1..(n - (i + 1) + 1) : b[j] = s[i + 1 + j - 1]
    BY <1>1, <2>1, SubSeqProperties
  <2> QED
    BY <1>1, <2>2
<1> HIDE DEF a, b
<1>5. /\ a \o b \in Seq(S)
      /\ Len(a \o b) = n - 1
      /\ \A j \in 1..(n - 1) : (a \o b)[j] = IF j <= Len(a) THEN a[j] ELSE b[j - Len(a)]
  BY <1>1, <1>3, <1>4, ConcatProperties
<1>6. ASSUME NEW j \in 1..(n - 1)
      PROVE  (a \o b)[j] = IF j < i THEN s[j] ELSE s[j + 1]
  <2>1. CASE j < i
    BY <1>1, <1>3, <1>5, <2>1
  <2>2. CASE ~ (j < i)
    <3>1. j - Len(a) \in 1..(n - i) /\ i + (j - Len(a)) = j + 1 /\ ~ (j <= Len(a))
      BY <1>1, <1>3, <2>2
    <3> QED
      BY <1>4, <1>5, <2>2, <3>1
  <2> QED
    BY <2>1, <2>2
<1> QED
  BY <1>2, <1>5, <1>6

\* Nothing remembered is the inner end of anything.
LEMMA NothingInner ==
    ASSUME NEW S, NEW open \in Seq(S), NEW names
    PROVE  InnerEnd(<<>>, open, names)
  BY DEF InnerEnd

\* A new name for another activation changes no stack.
LEMMA NamedInner ==
    ASSUME NEW stack \in Seq(Frames), NEW open, NEW names \in Seq(Nat), NEW n \in Nat,
           InnerEnd(stack, open, names)
    PROVE  InnerEnd(stack, open, Append(names, n))
<1>1. \A i \in DOMAIN names : i \in DOMAIN Append(names, n) /\ Append(names, n)[i] = names[i]
  OBVIOUS
<1> QED
  BY <1>1 DEF InnerEnd

\* The activation that opens is pushed under its new name.
LEMMA PushedInner ==
    ASSUME NEW stack \in Seq(Frames), NEW open \in Seq(Activations), NEW names \in Seq(Nat),
           NEW a \in Activations, InnerEnd(stack, open, names)
    PROVE  InnerEnd(Append(stack, Frame(a.activity, Len(names) + 1)),
                    Append(open, a), Append(names, a.id))
<1> DEFINE new == Frame(a.activity, Len(names) + 1)
           stack1 == Append(stack, new)
           open1 == Append(open, a)
           names1 == Append(names, a.id)
<1>1. new \in Frames /\ new.sequence = Len(names) + 1 /\ new.activity = a.activity
  BY DEF Frame, Frames, Activations
<1> HIDE DEF new
<1>2. /\ Len(stack) \in Nat
      /\ Len(open) \in Nat
      /\ Len(stack1) = Len(stack) + 1
      /\ DOMAIN stack1 = 1..(Len(stack) + 1)
      /\ Len(open1) = Len(open) + 1
      /\ DOMAIN names1 = 1..(Len(names) + 1)
      /\ DOMAIN names = 1..Len(names)
      /\ Len(names) \in Nat
      /\ DOMAIN stack = 1..Len(stack)
  BY <1>1 DEF Activations
<1>3. /\ \A i \in 1..Len(stack) : stack1[i] = stack[i]
      /\ stack1[Len(stack) + 1] = new
      /\ \A i \in 1..Len(open) : open1[i] = open[i]
      /\ open1[Len(open) + 1] = a
      /\ \A i \in 1..Len(names) : names1[i] = names[i]
      /\ names1[Len(names) + 1] = a.id
  BY <1>1 DEF Activations
<1> HIDE DEF stack1, open1, names1
<1>4. ASSUME NEW i \in DOMAIN stack1
      PROVE  /\ stack1[i].sequence \in DOMAIN names1
             /\ names1[stack1[i].sequence] = open1[Len(open1) - Len(stack1) + i].id
             /\ stack1[i].activity = open1[Len(open1) - Len(stack1) + i].activity
  <2>1. CASE i <= Len(stack)
    <3>1. i \in 1..Len(stack) /\ Len(stack) <= Len(open)
      BY <1>2, <2>1 DEF InnerEnd
    <3>2. /\ Len(open1) - Len(stack1) + i = Len(open) - Len(stack) + i
          /\ Len(open) - Len(stack) + i \in 1..Len(open)
      BY <1>2, <3>1
    <3>3. /\ stack[i].sequence \in DOMAIN names
          /\ names[stack[i].sequence] = open[Len(open) - Len(stack) + i].id
          /\ stack[i].activity = open[Len(open) - Len(stack) + i].activity
      BY <1>2, <3>1 DEF InnerEnd
    <3>4. stack[i].sequence \in DOMAIN names1
      BY <1>2, <3>3
    <3> QED
      BY <1>2, <1>3, <3>1, <3>2, <3>3, <3>4
  <2>2. CASE i = Len(stack) + 1
    <3>1. Len(open1) - Len(stack1) + i = Len(open) + 1
      BY <1>2, <2>2
    <3>2. Len(names) + 1 \in DOMAIN names1
      BY <1>2
    <3> QED
      BY <1>1, <1>3, <2>2, <3>1, <3>2
  <2> QED
    BY <1>2, <2>1, <2>2
<1>5. Len(stack1) <= Len(open1)
  BY <1>2 DEF InnerEnd
<1>6. InnerEnd(stack1, open1, names1)
  BY <1>4, <1>5 DEF InnerEnd
<1> QED
  BY <1>6 DEF stack1, open1, names1, new

\* The innermost activation and the top of the stack go together.
LEMMA PoppedInner ==
    ASSUME NEW stack \in Seq(Frames), stack # <<>>, NEW open \in Seq(Activations),
           NEW names, InnerEnd(stack, open, names)
    PROVE  /\ Len(open) \in DOMAIN open
           /\ InnerEnd(Front(stack), RemoveAt(open, Len(open)), names)
<1>1. /\ Len(stack) \in Nat \ {0}
      /\ Len(open) \in Nat
      /\ Len(stack) <= Len(open)
      /\ DOMAIN stack = 1..Len(stack)
      /\ DOMAIN open = 1..Len(open)
  BY DEF InnerEnd
<1>2. Len(open) \in 1..Len(open)
  BY <1>1
<1>3. /\ RemoveAt(open, Len(open)) \in Seq(Activations)
      /\ Len(RemoveAt(open, Len(open))) = Len(open) - 1
      /\ \A j \in 1..(Len(open) - 1) : RemoveAt(open, Len(open))[j] = open[j]
  <2>1. \A j \in 1..(Len(open) - 1) : j < Len(open)
    BY <1>1
  <2>2. /\ RemoveAt(open, Len(open)) \in Seq(Activations)
        /\ Len(RemoveAt(open, Len(open))) = Len(open) - 1
        /\ \A j \in 1..(Len(open) - 1) :
              RemoveAt(open, Len(open))[j] = IF j < Len(open) THEN open[j] ELSE open[j + 1]
    BY <1>2, RemovedAt
  <2> QED
    BY <2>1, <2>2
<1>4. /\ Front(stack) \in Seq(Frames)
      /\ Len(Front(stack)) = Len(stack) - 1
      /\ \A i \in 1..(Len(stack) - 1) : Front(stack)[i] = stack[i]
  BY FrontOf
<1>5. DOMAIN Front(stack) = 1..(Len(stack) - 1)
  BY <1>4
<1> DEFINE rest == RemoveAt(open, Len(open))
           below == Front(stack)
<1> HIDE DEF rest, below
<1>6. /\ Len(rest) = Len(open) - 1
      /\ Len(below) = Len(stack) - 1
      /\ DOMAIN below = 1..(Len(stack) - 1)
      /\ \A j \in 1..(Len(open) - 1) : rest[j] = open[j]
      /\ \A i \in 1..(Len(stack) - 1) : below[i] = stack[i]
  BY <1>3, <1>4, <1>5 DEF rest, below
<1>7. ASSUME NEW i \in DOMAIN below
      PROVE  /\ below[i].sequence \in DOMAIN names
             /\ names[below[i].sequence] = rest[Len(rest) - Len(below) + i].id
             /\ below[i].activity = rest[Len(rest) - Len(below) + i].activity
  <2>1. /\ i \in 1..Len(stack)
        /\ Len(rest) - Len(below) + i = Len(open) - Len(stack) + i
        /\ Len(open) - Len(stack) + i \in 1..(Len(open) - 1)
    BY <1>1, <1>6
  <2>2. /\ stack[i].sequence \in DOMAIN names
        /\ names[stack[i].sequence] = open[Len(open) - Len(stack) + i].id
        /\ stack[i].activity = open[Len(open) - Len(stack) + i].activity
    BY <1>1, <2>1 DEF InnerEnd
  <2> QED
    BY <1>6, <2>1, <2>2
<1>8. Len(below) <= Len(rest)
  BY <1>1, <1>6
<1>9. InnerEnd(below, rest, names)
  BY <1>7, <1>8 DEF InnerEnd
<1> QED
  BY <1>1, <1>2, <1>9 DEF rest, below

-----------------------------------------------------------------------------
(* What one record does to the parser. *)

\* Events that name no other event and are not certain.
Silent(events) ==
    \A i \in DOMAIN events :
        /\ events[i].parent = 0
        /\ events[i].incomplete
        /\ events[i].phase = "finish" => events[i].sequence = 0

LEMMA SilentOnes ==
    ASSUME NEW s, NEW phase
    PROVE  /\ Silent(<<GapEvent>>)
           /\ Silent(<<Unmatched(phase)>>)
           /\ Silent(<<Event("start", s, 0, TRUE), GapEvent>>)
           /\ Silent(<<>>)
  BY DEF Silent, GapEvent, Unmatched, Event

\* A gap leaves no stack and everything uncertain.
LEMMA AfterGap ==
    ASSUME NEW p, WithinLimits(p)
    PROVE  /\ DOMAIN Gapped(p).stacks = {}
           /\ \A j : StackOf(Gapped(p), j) = <<>>
           /\ Gapped(p).incomplete = TRUE
           /\ Gapped(p).sequence = p.sequence
<1>1. p \in Parsers
  BY DEF WithinLimits
<1>2. DOMAIN NoStacks = {}
  BY DEF NoStacks
<1>3. /\ Gapped(p).stacks = NoStacks
      /\ Gapped(p).incomplete = TRUE
      /\ Gapped(p).sequence = p.sequence
  BY <1>1 DEF Gapped, Parsers
<1> QED
  BY <1>2, <1>3 DEF StackOf

\* A new stack for one key changes no other stack, and nothing else.
LEMMA AfterWithStack ==
    ASSUME NEW p, p \in Parsers, NEW k, NEW s
    PROVE  /\ \A j : StackOf(WithStack(p, k, s), j) = IF j = k THEN s ELSE StackOf(p, j)
           /\ DOMAIN WithStack(p, k, s).stacks \subseteq DOMAIN p.stacks \cup {k}
           /\ WithStack(p, k, s).sequence = p.sequence
           /\ WithStack(p, k, s).incomplete = p.incomplete
<1>1. CASE s = <<>>
  <2> DEFINE m == [j \in DOMAIN p.stacks \ {k} |-> p.stacks[j]]
             q == WithStack(p, k, s)
  <2>1. q.stacks = m /\ q.sequence = p.sequence /\ q.incomplete = p.incomplete
    BY <1>1 DEF WithStack, Parsers
  <2>2. DOMAIN m = DOMAIN p.stacks \ {k} /\ \A j \in DOMAIN m : m[j] = p.stacks[j]
    OBVIOUS
  <2> QED
    BY <1>1, <2>1, <2>2 DEF StackOf
<1>2. CASE s # <<>>
  <2> DEFINE m == [j \in DOMAIN p.stacks \cup {k} |-> IF j = k THEN s ELSE p.stacks[j]]
             q == WithStack(p, k, s)
  <2>1. q.stacks = m /\ q.sequence = p.sequence /\ q.incomplete = p.incomplete
    BY <1>2 DEF WithStack, Parsers
  <2>2. /\ DOMAIN m = DOMAIN p.stacks \cup {k}
        /\ \A j \in DOMAIN m : m[j] = IF j = k THEN s ELSE p.stacks[j]
    OBVIOUS
  <2> QED
    BY <1>2, <2>1, <2>2 DEF StackOf
<1> QED
  BY <1>1, <1>2

\* What a record of key k may do to parser p, so that q and the events result.
Ignored(p, q, events) == q = p /\ Silent(events)

Dropped(p, q, k, events) ==
    /\ \A j : StackOf(q, j) = IF j = k THEN <<>> ELSE StackOf(p, j)
    /\ DOMAIN q.stacks \subseteq DOMAIN p.stacks \cup {k}
    /\ q.incomplete
    /\ q.sequence = p.sequence
    /\ Silent(events)

Forgotten(p, q, events) ==
    /\ \A j : StackOf(q, j) = <<>>
    /\ DOMAIN q.stacks = {}
    /\ q.incomplete
    /\ q.sequence \in {p.sequence, p.sequence + 1}
    /\ Silent(events)

Pushed(p, q, k, f, events) ==
    /\ \A j : StackOf(q, j) = IF j = k THEN Append(StackOf(p, k), Frame(f, p.sequence + 1))
                                       ELSE StackOf(p, j)
    /\ DOMAIN q.stacks \subseteq DOMAIN p.stacks \cup {k}
    /\ q.incomplete = p.incomplete
    /\ q.sequence = p.sequence + 1
    /\ events = <<Event("start", p.sequence + 1, Enclosing(StackOf(p, k)), p.incomplete)>>

Popped(p, q, k, f, events) ==
    /\ StackOf(p, k) # <<>>
    /\ Last(StackOf(p, k)).activity = f
    /\ \A j : StackOf(q, j) = IF j = k THEN Front(StackOf(p, k)) ELSE StackOf(p, j)
    /\ DOMAIN q.stacks \subseteq DOMAIN p.stacks \cup {k}
    /\ q.incomplete = p.incomplete
    /\ q.sequence = p.sequence
    /\ Len(events) = 1 /\ DOMAIN events = {1}
    /\ events[1].phase = "finish"
    /\ events[1].sequence = Last(StackOf(p, k)).sequence

LEMMA UnusableResult ==
    ASSUME NEW p, WithinLimits(p), NEW k, NEW phase
    PROVE  /\ Forgotten(p, GapResult(p).parser, GapResult(p).events)
           /\ Dropped(p, WithStack([p EXCEPT !.incomplete = TRUE], k, <<>>), k, <<Unmatched(phase)>>)
<1>1. Forgotten(p, GapResult(p).parser, GapResult(p).events)
  BY AfterGap, SilentOnes DEF Forgotten, GapResult
<1> DEFINE t == [p EXCEPT !.incomplete = TRUE]
<1>2. /\ t \in Parsers
      /\ t.stacks = p.stacks
      /\ t.incomplete = TRUE
      /\ t.sequence = p.sequence
  BY DEF WithinLimits, Parsers
<1> HIDE DEF t
<1>3. \A j : StackOf(t, j) = StackOf(p, j)
  BY <1>2 DEF StackOf
<1>4. Dropped(p, WithStack(t, k, <<>>), k, <<Unmatched(phase)>>)
  <2> DEFINE q == WithStack(t, k, <<>>)
  <2>1. /\ \A j : StackOf(q, j) = IF j = k THEN <<>> ELSE StackOf(t, j)
        /\ DOMAIN q.stacks \subseteq DOMAIN t.stacks \cup {k}
        /\ q.sequence = t.sequence
        /\ q.incomplete = t.incomplete
    BY <1>2, AfterWithStack
  <2> HIDE DEF q
  <2>2. Dropped(p, q, k, <<Unmatched(phase)>>)
    BY <1>2, <1>3, <2>1, SilentOnes DEF Dropped
  <2> QED
    BY <2>2 DEF q
<1> QED
  BY <1>1, <1>4 DEF t

LEMMA StartOutcome ==
    ASSUME NEW p, WithinLimits(p), NEW k, NEW f, NEW flushed,
           NEW r, r = RecordResult(p, "start", k, f, flushed)
    PROVE  \/ k = NoKey /\ Ignored(p, r.parser, r.events)
           \/ k # NoKey /\ Dropped(p, r.parser, k, r.events)
           \/ k # NoKey /\ Forgotten(p, r.parser, r.events)
           \/ k # NoKey /\ Pushed(p, r.parser, k, f, r.events)
<1>1. CASE k = NoKey
  BY <1>1, SilentOnes DEF RecordResult, Ignored
<1>2. CASE k # NoKey /\ Anonymous(f)
  BY <1>2, UnusableResult DEF RecordResult
<1>3. CASE k # NoKey /\ ~ Anonymous(f)
  <2> DEFINE s == p.sequence + 1
             t == [p EXCEPT !.sequence = s]
             deeper == Append(StackOf(p, k), Frame(f, s))
  <2>0. r = IF Overflows(p, k)
            THEN [parser |-> Gapped(t), events |-> <<Event("start", s, 0, TRUE), GapEvent>>]
            ELSE [parser |-> WithStack(t, k, deeper),
                  events |-> <<Event("start", s, Enclosing(StackOf(p, k)), p.incomplete)>>]
    BY <1>3 DEF RecordResult, StartResult
  <2>1. /\ t \in Parsers
        /\ WithinLimits(t)
        /\ t.stacks = p.stacks
        /\ t.incomplete = p.incomplete
        /\ t.sequence = s
        /\ s \in Nat
    BY FieldsWithinLimits DEF WithinLimits, Parsers
  <2> HIDE DEF t, deeper
  <2>2. CASE Overflows(p, k)
    <3> DEFINE both == <<Event("start", s, 0, TRUE), GapEvent>>
    <3>0. r = [parser |-> Gapped(t), events |-> both]
      BY <2>0, <2>2
    <3> HIDE DEF both
    <3>1. r.parser = Gapped(t) /\ r.events = both
      BY <3>0
    <3>2. /\ \A j : StackOf(r.parser, j) = <<>>
          /\ DOMAIN r.parser.stacks = {}
          /\ r.parser.incomplete
          /\ r.parser.sequence = s
      BY <2>1, <3>1, AfterGap
    <3>3. Silent(r.events)
      BY <3>1, SilentOnes DEF both
    <3>4. Forgotten(p, r.parser, r.events)
      BY <3>2, <3>3 DEF Forgotten
    <3> QED
      BY <1>3, <3>4
  <2>3. CASE ~ Overflows(p, k)
    <3>1. /\ r.parser = WithStack(t, k, deeper)
          /\ r.events = <<Event("start", s, Enclosing(StackOf(p, k)), p.incomplete)>>
      BY <2>0, <2>3
    <3>2. \A j : StackOf(t, j) = StackOf(p, j)
      BY <2>1 DEF StackOf
    <3> DEFINE q == WithStack(t, k, deeper)
    <3>3. /\ \A j : StackOf(q, j) = IF j = k THEN deeper ELSE StackOf(t, j)
          /\ DOMAIN q.stacks \subseteq DOMAIN t.stacks \cup {k}
          /\ q.sequence = t.sequence
          /\ q.incomplete = t.incomplete
      BY <2>1, AfterWithStack
    <3> HIDE DEF q
    <3>4. Pushed(p, q, k, f, r.events)
      BY <2>1, <3>1, <3>2, <3>3 DEF Pushed, deeper
    <3>5. r.parser = q
      BY <3>1 DEF q
    <3> QED
      BY <1>3, <3>4, <3>5
  <2> QED
    BY <2>2, <2>3
<1> QED
  BY <1>1, <1>2, <1>3

LEMMA FinishOutcome ==
    ASSUME NEW p, WithinLimits(p), NEW k, NEW f, NEW flushed,
           NEW r, r = RecordResult(p, "finish", k, f, flushed)
    PROVE  \/ k = NoKey /\ Ignored(p, r.parser, r.events)
           \/ k # NoKey /\ Dropped(p, r.parser, k, r.events)
           \/ k # NoKey /\ Popped(p, r.parser, k, f, r.events)
<1>1. CASE k = NoKey
  BY <1>1, SilentOnes DEF RecordResult, Ignored
<1>2. CASE k # NoKey /\ Anonymous(f)
  BY <1>2, UnusableResult DEF RecordResult
<1>3. CASE k # NoKey /\ ~ Anonymous(f)
  <2>0. r = FinishResult(p, k, f, flushed)
    BY <1>3 DEF RecordResult
  <2>1. CASE Matches(StackOf(p, k), f)
    <3>1. /\ r.parser = WithStack(p, k, Front(StackOf(p, k)))
          /\ r.events = <<Event("finish", Last(StackOf(p, k)).sequence,
                                Enclosing(Front(StackOf(p, k))), p.incomplete \/ flushed)>>
      BY <2>0, <2>1 DEF FinishResult
    <3>2. /\ Len(r.events) = 1 /\ DOMAIN r.events = {1}
          /\ r.events[1].phase = "finish"
          /\ r.events[1].sequence = Last(StackOf(p, k)).sequence
      BY <3>1 DEF Event
    <3>3. p \in Parsers
      BY DEF WithinLimits
    <3>4. Popped(p, r.parser, k, f, r.events)
      BY <2>1, <3>1, <3>2, <3>3, AfterWithStack DEF Popped, Matches
    <3> QED
      BY <1>3, <3>4
  <2>2. CASE ~ Matches(StackOf(p, k), f)
    BY <1>3, <2>0, <2>2, UnusableResult DEF FinishResult
  <2> QED
    BY <2>1, <2>2
<1> QED
  BY <1>1, <1>2, <1>3

-----------------------------------------------------------------------------
(* The server's side of a step. *)

LEMMA OpenedCalls ==
    ASSUME CallsTyped, CallsDiffer, CallsChained,
           NEW k \in Keys, NEW f \in Activities, NEW caller \in 0..starts,
           CanStart(k, f, caller), Opened(k, f, caller)
    PROVE  /\ CallsTyped' /\ CallsDiffer' /\ CallsChained'
           /\ Started(k, f, caller) \in Activations
           /\ \A j \in Keys : calls'[j] = IF j = k THEN Append(calls[k], Started(k, f, caller))
                                                   ELSE calls[j]
<1> DEFINE a == Started(k, f, caller)
           new == Append(calls[k], a)
<1>1. a \in Activations /\ a.activity = f /\ a.caller = caller
  BY DEF Started, Activations, CallsTyped
<1> HIDE DEF a
<1>2. calls[k] \in Seq(Activations)
  BY DEF CallsTyped
<1>3. /\ new \in Seq(Activations)
      /\ Len(new) = Len(calls[k]) + 1
      /\ Len(calls[k]) \in Nat
      /\ DOMAIN new = 1..(Len(calls[k]) + 1)
      /\ DOMAIN calls[k] = 1..Len(calls[k])
      /\ \A i \in 1..Len(calls[k]) : new[i] = calls[k][i]
      /\ new[Len(calls[k]) + 1] = a
  BY <1>1, <1>2
<1> HIDE DEF new
<1>4. calls' = [calls EXCEPT ![k] = new]
  BY DEF Opened, new, a
<1>5. \A j \in Keys : calls'[j] = IF j = k THEN new ELSE calls[j]
  BY <1>4 DEF CallsTyped
<1>6. CallsTyped'
  BY <1>3, <1>4 DEF CallsTyped, Opened
<1>7. CallsDiffer'
  <2>1. StatementsDiffer(new)
    <3>1. \A i \in DOMAIN calls[k] : f.kind = "statement" => calls[k][i].activity # f
      BY DEF CanStart
    <3>2. StatementsDiffer(calls[k])
      BY DEF CallsDiffer
    <3>3. ASSUME NEW i \in DOMAIN new, NEW j \in DOMAIN new,
                 i # j, new[i].activity.kind = "statement"
          PROVE  new[i].activity # new[j].activity
      <4>1. CASE i \in 1..Len(calls[k]) /\ j \in 1..Len(calls[k])
        BY <1>3, <3>2, <3>3, <4>1 DEF StatementsDiffer
      <4>2. CASE i = Len(calls[k]) + 1 /\ j \in 1..Len(calls[k])
        BY <1>1, <1>3, <3>1, <3>3, <4>2
      <4>3. CASE i \in 1..Len(calls[k]) /\ j = Len(calls[k]) + 1
        BY <1>1, <1>3, <3>1, <3>3, <4>3
      <4> QED
        BY <1>3, <3>3, <4>1, <4>2, <4>3
    <3> QED
      BY <3>3 DEF StatementsDiffer
  <2> QED
    BY <1>5, <2>1 DEF CallsDiffer
<1>8. CallsChained'
  <2> SUFFICES ASSUME ~ overlapped' PROVE ~ disordered' /\ \A j \in Keys : Chained(calls'[j])
    BY DEF CallsChained
  <2>1. ~ overlapped /\ caller = Innermost(k) /\ ~ disordered'
    BY DEF Opened, CallsChained
  <2>2. \A j \in Keys : Chained(calls[j])
    BY <2>1 DEF CallsChained
  <2>3. Chained(new)
    <3>1. ASSUME NEW i \in 2..Len(new)
          PROVE  new[i].caller = new[i - 1].id
      <4>1. CASE i <= Len(calls[k])
        <5>1. i \in 2..Len(calls[k]) /\ i \in 1..Len(calls[k]) /\ i - 1 \in 1..Len(calls[k])
          BY <1>3, <4>1
        <5> QED
          BY <1>3, <2>2, <5>1 DEF Chained
      <4>2. CASE i = Len(calls[k]) + 1
        <5>1. calls[k] # <<>> /\ i - 1 = Len(calls[k]) /\ i - 1 \in 1..Len(calls[k])
          BY <1>3, <4>2
        <5>2. caller = calls[k][Len(calls[k])].id
          BY <2>1, <5>1 DEF Innermost, Last
        <5> QED
          BY <1>1, <1>3, <4>2, <5>1, <5>2
      <4> QED
        BY <1>3, <4>1, <4>2
    <3> QED
      BY <3>1 DEF Chained
  <2> QED
    BY <1>5, <2>1, <2>2, <2>3
<1> QED
  BY <1>1, <1>5, <1>6, <1>7, <1>8 DEF new, a

\* Of activations that called one another only the innermost may finish.
LEMMA FinishedCalls ==
    ASSUME CallsTyped, CallsDiffer, CallsChained,
           NEW k \in Keys, NEW i \in DOMAIN calls[k], MayFinish(k, i), Finished(k, i)
    PROVE  /\ CallsTyped' /\ CallsDiffer' /\ CallsChained'
           /\ \A j \in Keys : calls'[j] = IF j = k THEN RemoveAt(calls[k], i) ELSE calls[j]
<1> DEFINE rest == RemoveAt(calls[k], i)
           n == Len(calls[k])
<1>1. calls[k] \in Seq(Activations) /\ i \in 1..n /\ n \in Nat /\ DOMAIN calls[k] = 1..n
  BY DEF CallsTyped
<1>2. /\ rest \in Seq(Activations)
      /\ Len(rest) = n - 1
      /\ \A j \in 1..(n - 1) : rest[j] = IF j < i THEN calls[k][j] ELSE calls[k][j + 1]
  BY <1>1, RemovedAt
<1>3. DOMAIN rest = 1..(n - 1)
  BY <1>2
<1> HIDE DEF rest
<1>4. calls' = [calls EXCEPT ![k] = rest]
  BY DEF Finished, rest
<1>5. \A j \in Keys : calls'[j] = IF j = k THEN rest ELSE calls[j]
  BY <1>4 DEF CallsTyped
<1>6. CallsTyped'
  BY <1>2, <1>4 DEF CallsTyped, Finished
<1>7. CallsDiffer'
  <2>1. StatementsDiffer(calls[k])
    BY DEF CallsDiffer
  <2>2. ASSUME NEW x \in DOMAIN rest, NEW y \in DOMAIN rest,
               x # y, rest[x].activity.kind = "statement"
        PROVE  rest[x].activity # rest[y].activity
    <3> DEFINE at(j) == IF j < i THEN j ELSE j + 1
    <3>1. x \in 1..(n - 1) /\ y \in 1..(n - 1) /\ x # y
      BY <1>3, <2>2
    <3>2. at(x) \in 1..n /\ at(y) \in 1..n /\ at(x) # at(y)
      BY <1>1, <3>1
    <3>3. rest[x] = calls[k][at(x)] /\ rest[y] = calls[k][at(y)]
      BY <1>2, <3>1
    <3> HIDE DEF at
    <3> QED
      BY <1>1, <2>1, <2>2, <3>2, <3>3 DEF StatementsDiffer
  <2>3. StatementsDiffer(rest)
    BY <2>2 DEF StatementsDiffer
  <2> QED
    BY <1>5, <2>3 DEF CallsDiffer
<1>8. CallsChained'
  <2> SUFFICES ASSUME ~ overlapped' PROVE ~ disordered' /\ \A j \in Keys : Chained(calls'[j])
    BY DEF CallsChained
  <2>1. ~ overlapped /\ ~ disordered /\ \A j \in Keys : Chained(calls[j])
    BY DEF Finished, CallsChained
  <2>2. i = n
    <3> SUFFICES ASSUME i # n PROVE FALSE
      OBVIOUS
    <3>1. i + 1 \in 2..n /\ i + 1 \in DOMAIN calls[k] /\ (i + 1) - 1 = i
      BY <1>1
    <3>2. calls[k][i + 1].caller = calls[k][i].id
      BY <2>1, <3>1 DEF Chained
    <3> QED
      BY <3>1, <3>2 DEF MayFinish
  <2>3. ~ disordered'
    <3>1. ~ (i < Len(calls[k]))
      BY <1>1, <2>2
    <3> QED
      BY <2>1, <3>1, Zenon DEF Finished
  <2>4. ASSUME NEW j \in 2..Len(rest)
        PROVE  rest[j].caller = rest[j - 1].id
    <3>1. /\ j \in 2..n /\ j \in 1..(n - 1) /\ j - 1 \in 1..(n - 1)
          /\ j < i /\ j - 1 < i
      BY <1>1, <1>2, <2>2
    <3>2. rest[j] = calls[k][j] /\ rest[j - 1] = calls[k][j - 1]
      BY <1>2, <3>1
    <3> QED
      BY <2>1, <3>1, <3>2 DEF Chained
  <2>5. Chained(rest)
    BY <2>4 DEF Chained
  <2> QED
    BY <1>5, <2>1, <2>3, <2>5
<1> QED
  BY <1>5, <1>6, <1>7, <1>8 DEF rest

-----------------------------------------------------------------------------
(* Both sides together. *)

\* A record of k that the parser could not use, or that told it to forget,
\* leaves stacks that are right as before or empty.
LEMMA EmptyStacksFit ==
    ASSUME NEW k \in Keys, CallsTyped', ParserTyped, StacksInner,
           \A j \in Keys : StackOf(parser', j) \in {<<>>, StackOf(parser, j)},
           \A j \in Keys : j # k => calls'[j] = calls[j],
           StackOf(parser', k) = <<>>,
           parser'.incomplete,
           born' = born \/ \E n \in Nat : born' = Append(born, n),
           disordered' \/ ~ disordered
    PROVE  StacksInner' /\ StacksWhole'
<1>1. StacksWhole'
  BY DEF StacksWhole
<1>2. ASSUME ~ disordered', NEW j \in Keys
      PROVE  InnerEnd(StackOf(parser', j), calls'[j], born')
  <2>1. calls'[j] \in Seq(Activations)
    BY DEF CallsTyped
  <2>2. CASE StackOf(parser', j) = <<>>
    BY <2>1, <2>2, NothingInner
  <2>3. CASE j # k /\ StackOf(parser', j) = StackOf(parser, j)
    <3>1. StackOf(parser, j) \in Seq(Frames)
      BY DEF StackOf, ParserTyped, WithinLimits, IsStack
    <3>2. InnerEnd(StackOf(parser, j), calls[j], born)
      BY <1>2 DEF StacksInner
    <3>3. InnerEnd(StackOf(parser, j), calls[j], born')
      BY <3>1, <3>2, NamedInner DEF ParserTyped
    <3> QED
      BY <2>3, <3>3
  <2> QED
    BY <2>2, <2>3
<1>3. StacksInner'
  BY <1>2 DEF StacksInner
<1> QED
  BY <1>1, <1>3

LEMMA StackTyped ==
    ASSUME ParserTyped, NEW k
    PROVE  StackOf(parser, k) \in Seq(Frames)
  BY DEF StackOf, ParserTyped, WithinLimits, IsStack

\* What a start leaves: born grows exactly when the parser counted it.
LEMMA StartNests ==
    ASSUME NestingInv, NEW k \in Keys, NEW f \in Activities, NEW caller \in 0..starts,
           ServerStart(k, f, caller)
    PROVE  NestingInv'
<1> DEFINE a == Started(k, f, caller)
           r == RecordResult(parser, "start", k, f, FALSE)
<1>0. /\ CallsTyped /\ CallsDiffer /\ CallsChained /\ ParserTyped /\ StacksInner /\ StacksWhole
      /\ WithinLimits(parser)
  BY DEF NestingInv, ParserTyped
<1>1. /\ CallsTyped' /\ CallsDiffer' /\ CallsChained'
      /\ a \in Activations
      /\ \A j \in Keys : calls'[j] = IF j = k THEN Append(calls[k], a) ELSE calls[j]
  BY <1>0, OpenedCalls DEF ServerStart
<1>2. /\ parser' = r.parser
      /\ disordered' = disordered
      /\ born' = IF r.parser.sequence > parser.sequence THEN Append(born, a.id) ELSE born
  BY DEF ServerStart, Take, Opened, Started
<1>3. \/ k = NoKey /\ Ignored(parser, parser', r.events)
      \/ k # NoKey /\ Dropped(parser, parser', k, r.events)
      \/ k # NoKey /\ Forgotten(parser, parser', r.events)
      \/ k # NoKey /\ Pushed(parser, parser', k, f, r.events)
  BY <1>0, <1>2, StartOutcome
<1>4. WithinLimits(parser')
  BY <1>0, <1>2, RecordWithinLimits
<1>5. /\ a.id \in Nat /\ a.activity = f /\ calls[k] \in Seq(Activations)
      /\ born \in Seq(Nat) /\ Len(born) \in Nat
      /\ parser.sequence = Len(born)
      /\ Append(born, a.id) \in Seq(Nat) /\ Len(Append(born, a.id)) = Len(born) + 1
  <2>1. a.activity = f
    BY DEF Started
  <2> HIDE DEF a
  <2>2. a.id \in Nat
    BY <1>1 DEF Activations
  <2>3. calls[k] \in Seq(Activations)
    BY <1>0 DEF CallsTyped
  <2>4. born \in Seq(Nat) /\ parser.sequence = Len(born)
    BY <1>0 DEF ParserTyped
  <2> QED
    BY <2>1, <2>2, <2>3, <2>4
<1> HIDE DEF a, r
<1>6. CASE k = NoKey /\ Ignored(parser, parser', r.events)
  <2>1. parser' = parser /\ born' = born
    BY <1>2, <1>5, <1>6 DEF Ignored
  <2>2. ParserTyped'
    BY <1>0, <2>1 DEF ParserTyped
  <2>3. StackOf(parser, k) = <<>>
    BY <1>0, <1>6 DEF StackOf, ParserTyped
  <2>4. ASSUME ~ disordered', NEW j \in Keys
        PROVE  InnerEnd(StackOf(parser', j), calls'[j], born')
    <3>1. CASE j = k
      BY <1>1, <2>1, <2>3, <3>1, NothingInner DEF CallsTyped
    <3>2. CASE j # k
      BY <1>0, <1>1, <1>2, <2>1, <2>4, <3>2 DEF StacksInner
    <3> QED
      BY <3>1, <3>2
  <2>5. StacksInner'
    BY <2>4 DEF StacksInner
  <2>6. StacksWhole'
    BY <1>0, <1>1, <1>2, <1>6, <2>1 DEF StacksWhole
  <2> QED
    BY <1>1, <2>2, <2>5, <2>6 DEF NestingInv
<1>7. CASE k # NoKey /\ Dropped(parser, parser', k, r.events)
  <2>1. born' = born /\ parser'.sequence = parser.sequence
    BY <1>2, <1>5, <1>7 DEF Dropped
  <2>2. ParserTyped'
    BY <1>0, <1>4, <1>7, <2>1 DEF ParserTyped, Dropped
  <2>3. StacksInner' /\ StacksWhole'
    BY <1>0, <1>1, <1>2, <1>7, <2>1, EmptyStacksFit DEF Dropped
  <2> QED
    BY <1>1, <2>2, <2>3 DEF NestingInv
<1>8. CASE k # NoKey /\ Forgotten(parser, parser', r.events)
  <2>1. /\ born' = born \/ born' = Append(born, a.id)
        /\ born' \in Seq(Nat)
        /\ parser'.sequence = Len(born')
    BY <1>2, <1>5, <1>8 DEF Forgotten
  <2>2. ParserTyped'
    BY <1>4, <1>8, <2>1 DEF ParserTyped, Forgotten
  <2>3. StacksInner' /\ StacksWhole'
    BY <1>0, <1>1, <1>2, <1>5, <1>8, <2>1, EmptyStacksFit DEF Forgotten
  <2> QED
    BY <1>1, <2>2, <2>3 DEF NestingInv
<1>9. CASE k # NoKey /\ Pushed(parser, parser', k, f, r.events)
  <2>1. born' = Append(born, a.id) /\ parser'.sequence = Len(born')
    BY <1>2, <1>5, <1>9 DEF Pushed
  <2>2. ParserTyped'
    BY <1>0, <1>4, <1>5, <1>9, <2>1 DEF ParserTyped, Pushed
  <2> DEFINE deeper == Append(StackOf(parser, k), Frame(f, Len(born) + 1))
  <2>3. \A j : StackOf(parser', j) = IF j = k THEN deeper ELSE StackOf(parser, j)
    BY <1>5, <1>9 DEF Pushed
  <2>4. ASSUME ~ disordered', NEW j \in Keys
        PROVE  InnerEnd(StackOf(parser', j), calls'[j], born')
    <3>1. InnerEnd(StackOf(parser, j), calls[j], born)
      BY <1>0, <1>2, <2>4 DEF StacksInner
    <3>2. StackOf(parser, j) \in Seq(Frames)
      BY <1>0, StackTyped
    <3>3. CASE j = k
      <4>1. InnerEnd(deeper, Append(calls[k], a), Append(born, a.id))
        BY <1>1, <1>5, <3>1, <3>2, <3>3, PushedInner
      <4> QED
        BY <1>1, <2>1, <2>3, <3>3, <4>1
    <3>4. CASE j # k
      BY <1>1, <1>5, <2>1, <2>3, <3>1, <3>2, <3>4, NamedInner
    <3> QED
      BY <3>3, <3>4
  <2>5. StacksInner'
    BY <2>4 DEF StacksInner
  <2>6. ASSUME ~ disordered', ~ parser'.incomplete, NEW j \in Keys \ {NoKey}
        PROVE  Len(StackOf(parser', j)) = Len(calls'[j])
    <3>1. Len(StackOf(parser, j)) = Len(calls[j])
      BY <1>0, <1>2, <1>9, <2>6 DEF StacksWhole, Pushed
    <3>2. StackOf(parser, k) \in Seq(Frames)
      BY <1>0, StackTyped
    <3>3. CASE j = k
      <4>1. Frame(f, Len(born) + 1) \in Frames
        BY <1>5 DEF Frame, Frames
      <4>2. Len(deeper) = Len(StackOf(parser, k)) + 1
        BY <3>2, <4>1
      <4>3. Len(Append(calls[k], a)) = Len(calls[k]) + 1
        BY <1>1, <1>5
      <4>4. Len(StackOf(parser, k)) = Len(calls[k])
        BY <3>1, <3>3
      <4> HIDE DEF deeper
      <4> QED
        BY <1>1, <2>3, <3>3, <4>2, <4>3, <4>4
    <3> QED
      BY <1>1, <2>3, <3>1, <3>3
  <2>7. StacksWhole'
    BY <2>6 DEF StacksWhole
  <2> QED
    BY <1>1, <2>2, <2>5, <2>7 DEF NestingInv
<1> QED
  BY <1>3, <1>6, <1>7, <1>8, <1>9

\* What a finish leaves: a statement that is not innermost never agrees with the
\* top of the stack, as what is innermost is another activity.
LEMMA FinishPops ==
    ASSUME NestingInv, NEW k \in Keys, NEW i \in DOMAIN calls[k],
           MayFinish(k, i), Finished(k, i), ~ disordered',
           StackOf(parser, k) # <<>>,
           Last(StackOf(parser, k)).activity = calls[k][i].activity
    PROVE  /\ i = Len(calls[k])
           /\ Last(StackOf(parser, k)).sequence \in DOMAIN born
           /\ born[Last(StackOf(parser, k)).sequence] = calls[k][i].id
<1> DEFINE stack == StackOf(parser, k)
           n == Len(calls[k])
<1>1. ~ disordered /\ (i < n => calls[k][i].activity.kind = "statement")
  BY Zenon DEF Finished
<1>2. InnerEnd(stack, calls[k], born)
  BY <1>1 DEF NestingInv, StacksInner
<1>3. stack \in Seq(Frames) /\ calls[k] \in Seq(Activations)
  BY StackTyped DEF NestingInv, CallsTyped
<1>4. /\ Len(stack) \in DOMAIN stack
      /\ Len(stack) \in Nat
      /\ n \in Nat
      /\ n - Len(stack) + Len(stack) = n
      /\ DOMAIN calls[k] = 1..n
      /\ Last(stack) = stack[Len(stack)]
      /\ Len(stack) <= n
      /\ n \in DOMAIN calls[k]
  BY <1>2, <1>3 DEF InnerEnd, Last
<1> HIDE DEF stack, n
<1>5. /\ Last(stack).sequence \in DOMAIN born
      /\ born[Last(stack).sequence] = calls[k][n].id
      /\ Last(stack).activity = calls[k][n].activity
  BY <1>2, <1>4 DEF InnerEnd, n
<1>6. Last(stack).activity = calls[k][i].activity
  BY DEF stack
<1>7. StatementsDiffer(calls[k])
  BY DEF NestingInv, CallsDiffer
<1>8. i = n
  <2> SUFFICES ASSUME i # n PROVE FALSE
    OBVIOUS
  <2>1. i < n
    BY <1>4
  <2>2. calls[k][i].activity.kind = "statement"
    BY <1>1, <2>1
  <2>3. calls[k][i].activity # calls[k][n].activity
    BY <1>4, <1>7, <2>2 DEF StatementsDiffer
  <2> QED
    BY <1>5, <1>6, <2>3
<1> QED
  BY <1>5, <1>8 DEF stack, n

LEMMA FinishNests ==
    ASSUME NestingInv, NEW k \in Keys, NEW i \in DOMAIN calls[k], NEW flushed \in BOOLEAN,
           ServerFinish(k, i, flushed)
    PROVE  NestingInv'
<1> DEFINE f == calls[k][i].activity
           r == RecordResult(parser, "finish", k, f, flushed)
           rest == RemoveAt(calls[k], i)
<1>0. /\ CallsTyped /\ CallsDiffer /\ CallsChained /\ ParserTyped /\ StacksInner /\ StacksWhole
      /\ WithinLimits(parser) /\ MayFinish(k, i) /\ Finished(k, i)
  BY DEF NestingInv, ParserTyped, ServerFinish
<1>1. /\ CallsTyped' /\ CallsDiffer' /\ CallsChained'
      /\ \A j \in Keys : calls'[j] = IF j = k THEN rest ELSE calls[j]
  BY <1>0, FinishedCalls
<1>2. parser' = r.parser /\ born' = born
  BY DEF ServerFinish, Take
<1>3. \/ k = NoKey /\ Ignored(parser, parser', r.events)
      \/ k # NoKey /\ Dropped(parser, parser', k, r.events)
      \/ k # NoKey /\ Popped(parser, parser', k, f, r.events)
  BY <1>0, <1>2, FinishOutcome
<1>4. WithinLimits(parser')
  BY <1>0, <1>2, RecordWithinLimits
<1>5. disordered' \/ ~ disordered
  BY <1>0, Zenon DEF Finished
<1>6. calls[k] \in Seq(Activations) /\ born \in Seq(Nat) /\ parser.sequence = Len(born)
  BY <1>0 DEF CallsTyped, ParserTyped
<1> HIDE DEF r
<1>7. CASE k = NoKey /\ Ignored(parser, parser', r.events)
  <2>1. parser' = parser
    BY <1>7 DEF Ignored
  <2>2. ParserTyped'
    BY <1>0, <1>2, <2>1 DEF ParserTyped
  <2>3. StackOf(parser, k) = <<>>
    BY <1>0, <1>7 DEF StackOf, ParserTyped
  <2>4. ASSUME ~ disordered', NEW j \in Keys
        PROVE  InnerEnd(StackOf(parser', j), calls'[j], born')
    <3>1. CASE j = k
      BY <1>1, <2>1, <2>3, <3>1, NothingInner DEF CallsTyped
    <3>2. CASE j # k
      BY <1>0, <1>1, <1>2, <1>5, <2>1, <2>4, <3>2 DEF StacksInner
    <3> QED
      BY <3>1, <3>2
  <2>5. StacksInner'
    BY <2>4 DEF StacksInner
  <2>6. StacksWhole'
    BY <1>0, <1>1, <1>5, <1>7, <2>1 DEF StacksWhole
  <2> QED
    BY <1>1, <2>2, <2>5, <2>6 DEF NestingInv
<1>8. CASE k # NoKey /\ Dropped(parser, parser', k, r.events)
  <2>1. ParserTyped'
    BY <1>0, <1>2, <1>4, <1>8 DEF ParserTyped, Dropped
  <2>2. StacksInner' /\ StacksWhole'
    BY <1>0, <1>1, <1>2, <1>5, <1>8, EmptyStacksFit DEF Dropped
  <2> QED
    BY <1>1, <2>1, <2>2 DEF NestingInv
<1>9. CASE k # NoKey /\ Popped(parser, parser', k, f, r.events)
  <2>1. ParserTyped'
    BY <1>0, <1>2, <1>4, <1>9 DEF ParserTyped, Popped
  <2>2. \A j : StackOf(parser', j) = IF j = k THEN Front(StackOf(parser, k)) ELSE StackOf(parser, j)
    BY <1>9 DEF Popped
  <2>3. StackOf(parser, k) # <<>> /\ Last(StackOf(parser, k)).activity = f
    BY <1>9 DEF Popped
  <2>4. StackOf(parser, k) \in Seq(Frames)
    BY <1>0, StackTyped
  <2>5. ASSUME ~ disordered'
        PROVE  /\ i = Len(calls[k])
               /\ InnerEnd(StackOf(parser, k), calls[k], born)
    <3>1. i = Len(calls[k])
      BY <1>0, <2>3, <2>5, FinishPops
    <3> QED
      BY <1>0, <1>5, <2>5, <3>1 DEF StacksInner
  <2>6. ASSUME ~ disordered', NEW j \in Keys
        PROVE  InnerEnd(StackOf(parser', j), calls'[j], born')
    <3>1. CASE j = k
      <4>1. InnerEnd(Front(StackOf(parser, k)), RemoveAt(calls[k], Len(calls[k])), born)
        BY <1>6, <2>3, <2>4, <2>5, <2>6, PoppedInner
      <4> QED
        BY <1>1, <1>2, <2>2, <2>5, <2>6, <3>1, <4>1
    <3>2. CASE j # k
      BY <1>0, <1>1, <1>2, <1>5, <2>2, <2>6, <3>2 DEF StacksInner
    <3> QED
      BY <3>1, <3>2
  <2>7. StacksInner'
    BY <2>6 DEF StacksInner
  <2>8. ASSUME ~ disordered', ~ parser'.incomplete, NEW j \in Keys \ {NoKey}
        PROVE  Len(StackOf(parser', j)) = Len(calls'[j])
    <3>1. Len(StackOf(parser, j)) = Len(calls[j])
      BY <1>0, <1>5, <1>9, <2>8 DEF StacksWhole, Popped
    <3>2. CASE j = k
      <4>1. i \in 1..Len(calls[k])
        BY <1>6
      <4>2. Len(rest) = Len(calls[k]) - 1
        BY <1>6, <4>1, RemovedAt
      <4>3. Len(Front(StackOf(parser, k))) = Len(StackOf(parser, k)) - 1
        BY <2>3, <2>4, FrontOf
      <4> QED
        BY <1>1, <2>2, <3>1, <3>2, <4>2, <4>3
    <3> QED
      BY <1>1, <2>2, <3>1, <3>2
  <2>9. StacksWhole'
    BY <2>8 DEF StacksWhole
  <2> QED
    BY <1>1, <2>1, <2>7, <2>9 DEF NestingInv
<1> QED
  BY <1>3, <1>7, <1>8, <1>9

\* A gap, with whatever happened on the server unseen.
LEMMA GapNests ==
    ASSUME ParserTyped, StacksInner, CallsTyped',
           parser' = GapResult(parser).parser, born' = born
    PROVE  ParserTyped' /\ StacksInner' /\ StacksWhole'
<1>1. WithinLimits(parser)
  BY DEF ParserTyped
<1>2. /\ DOMAIN parser'.stacks = {}
      /\ \A j : StackOf(parser', j) = <<>>
      /\ parser'.incomplete = TRUE
      /\ parser'.sequence = parser.sequence
  BY <1>1, AfterGap DEF GapResult
<1>3. WithinLimits(parser')
  BY <1>1, GapWithinLimits DEF GapResult
<1>4. ParserTyped'
  BY <1>2, <1>3 DEF ParserTyped
<1>5. StacksInner'
  <2>1. \A j \in Keys : calls'[j] \in Seq(Activations)
    BY DEF CallsTyped
  <2> QED
    BY <1>2, <2>1, NothingInner DEF StacksInner
<1>6. StacksWhole'
  BY <1>2 DEF StacksWhole
<1> QED
  BY <1>4, <1>5, <1>6

-----------------------------------------------------------------------------
LEMMA NestingInit == Init => NestingInv
<1> SUFFICES ASSUME Init PROVE NestingInv
  OBVIOUS
<1>1. CallsTyped
  BY DEF Init, CallsTyped
<1>2. /\ DOMAIN parser.stacks = {}
      /\ parser.sequence = 0
      /\ WithinLimits(parser)
  BY LimitsInit DEF Init, NewParser, NoStacks
<1>3. ParserTyped
  BY <1>2 DEF Init, ParserTyped
<1>4. \A k \in Keys : StackOf(parser, k) = <<>> /\ calls[k] = <<>>
  BY <1>2 DEF Init, StackOf
<1>5. CallsDiffer /\ CallsChained
  BY <1>4 DEF Init, CallsDiffer, StatementsDiffer, CallsChained, Chained
<1>6. StacksInner /\ StacksWhole
  <2>1. \A k \in Keys : InnerEnd(StackOf(parser, k), calls[k], born)
    BY <1>1, <1>4, NothingInner DEF CallsTyped
  <2> QED
    BY <1>4, <2>1 DEF StacksInner, StacksWhole
<1> QED
  BY <1>1, <1>3, <1>5, <1>6 DEF NestingInv

LEMMA NestingStep == NestingInv /\ [Next]_vars => NestingInv'
<1> SUFFICES ASSUME NestingInv, [Next]_vars PROVE NestingInv'
  OBVIOUS
<1>0. CallsTyped /\ CallsDiffer /\ CallsChained /\ ParserTyped /\ StacksInner /\ StacksWhole
  BY DEF NestingInv
<1>1. ASSUME NEW k \in Keys, NEW f \in Activities, NEW caller \in 0..starts,
             ServerStart(k, f, caller)
      PROVE  NestingInv'
  BY <1>1, StartNests
<1>2. ASSUME NEW k \in Keys, NEW f \in Activities, NEW caller \in 0..starts,
             DamagedStart(k, f, caller)
      PROVE  NestingInv'
  <2>1. CallsTyped' /\ CallsDiffer' /\ CallsChained'
    BY <1>0, <1>2, OpenedCalls DEF DamagedStart
  <2> QED
    BY <1>0, <1>2, <2>1, GapNests DEF DamagedStart, Take, NestingInv
<1>3. ASSUME NEW k \in Keys, NEW i \in DOMAIN calls[k], NEW flushed \in BOOLEAN,
             ServerFinish(k, i, flushed)
      PROVE  NestingInv'
  BY <1>3, FinishNests
<1>4. ASSUME NEW k \in Keys, NEW i \in DOMAIN calls[k], DamagedFinish(k, i)
      PROVE  NestingInv'
  <2>1. CallsTyped' /\ CallsDiffer' /\ CallsChained'
    BY <1>0, <1>4, FinishedCalls DEF DamagedFinish
  <2> QED
    BY <1>0, <1>4, <2>1, GapNests DEF DamagedFinish, Take, NestingInv
<1>5. ASSUME UNCHANGED <<calls, starts, born, overlapped, disordered>>,
             parser' = GapResult(parser).parser
      PROVE  NestingInv'
  <2>1. CallsTyped' /\ CallsDiffer' /\ CallsChained'
    BY <1>0, <1>5 DEF CallsTyped, CallsDiffer, CallsChained
  <2> QED
    BY <1>0, <1>5, <2>1, GapNests DEF NestingInv
<1>6. ASSUME UNCHANGED <<parser, calls, starts, born, overlapped, disordered>>
      PROVE  NestingInv'
  BY <1>0, <1>6 DEF NestingInv, CallsTyped, CallsDiffer, CallsChained, ParserTyped,
     StacksInner, StacksWhole
<1>7. CASE StrayGap
  BY <1>5, <1>7 DEF StrayGap, Take
<1>8. CASE EndOfStream
  BY <1>5, <1>6, <1>8 DEF EndOfStream, Take, FlushResult
<1>9. CASE UNCHANGED vars
  BY <1>6, <1>9 DEF vars
<1> QED
  BY <1>1, <1>2, <1>3, <1>4, <1>7, <1>8, <1>9 DEF Next

\* What the events of a record may say, given what was open before it.
LastInv == PairedWithOwnStart /\ ParentIsCaller /\ CertainStartIsRight

LEMMA SilentEventsFit ==
    /\ Silent(last.events) => LastInv
    /\ Silent(last'.events) => LastInv'
  BY DEF Silent, LastInv, PairedWithOwnStart, ParentIsCaller, CertainStartIsRight

LEMMA StartSaysRight ==
    ASSUME NestingInv, NEW k \in Keys, NEW f \in Activities, NEW caller \in 0..starts,
           ServerStart(k, f, caller)
    PROVE  LastInv'
<1> DEFINE stack == StackOf(parser, k)
           n == Len(calls[k])
           s == parser.sequence + 1
           e == Event("start", s, Enclosing(stack), parser.incomplete)
<1>1. /\ WithinLimits(parser)
      /\ parser' = RecordResult(parser, "start", k, f, FALSE).parser
      /\ last'.events = RecordResult(parser, "start", k, f, FALSE).events
      /\ last'.of.caller = caller
      /\ overlapped' = (overlapped \/ caller # Innermost(k))
  BY DEF NestingInv, ParserTyped, ServerStart, Take, Opened, Started
<1>2. \/ Silent(last'.events)
      \/ k # NoKey /\ Pushed(parser, parser', k, f, last'.events)
  <2> DEFINE r == RecordResult(parser, "start", k, f, FALSE)
  <2>1. \/ k = NoKey /\ Ignored(parser, r.parser, r.events)
        \/ k # NoKey /\ Dropped(parser, r.parser, k, r.events)
        \/ k # NoKey /\ Forgotten(parser, r.parser, r.events)
        \/ k # NoKey /\ Pushed(parser, r.parser, k, f, r.events)
    BY <1>1, StartOutcome
  <2> QED
    BY <1>1, <2>1 DEF Ignored, Dropped, Forgotten
<1>3. CASE Silent(last'.events)
  BY <1>3, SilentEventsFit
<1>4. CASE k # NoKey /\ Pushed(parser, parser', k, f, last'.events)
  <2>1. last'.events = <<e>>
    BY <1>4 DEF Pushed
  <2>2. /\ DOMAIN last'.events = {1}
        /\ last'.events[1].phase = "start"
        /\ last'.events[1].parent = Enclosing(stack)
        /\ last'.events[1].incomplete = parser.incomplete
    BY <2>1 DEF Event
  <2>3. PairedWithOwnStart'
    BY <2>2 DEF PairedWithOwnStart
  <2> HIDE DEF e, s
  <2>4. ASSUME ~ overlapped'
        PROVE  /\ ~ disordered
               /\ InnerEnd(stack, calls[k], born)
               /\ caller = Innermost(k)
               /\ ~ parser.incomplete => Len(stack) = n
    BY <1>1, <1>4, <2>4 DEF NestingInv, CallsChained, StacksInner, StacksWhole
  <2>5. stack \in Seq(Frames) /\ calls[k] \in Seq(Activations) /\ born \in Seq(Nat)
    BY StackTyped DEF NestingInv, CallsTyped, ParserTyped
  <2> HIDE DEF stack, n
  <2>6. ASSUME ~ overlapped', stack # <<>>
        PROVE  /\ Enclosing(stack) \in DOMAIN born
               /\ born[Enclosing(stack)] = caller
    <3>1. /\ Len(stack) \in DOMAIN stack
          /\ n \in Nat
          /\ n - Len(stack) + Len(stack) = n
          /\ Last(stack) = stack[Len(stack)]
          /\ Len(stack) <= n
          /\ calls[k] # <<>>
      BY <2>4, <2>5, <2>6 DEF InnerEnd, Last, n
    <3>2. /\ Last(stack).sequence \in DOMAIN born
          /\ born[Last(stack).sequence] = calls[k][n].id
      BY <2>4, <2>6, <3>1 DEF InnerEnd, n
    <3>3. caller = calls[k][n].id
      BY <2>4, <2>6, <3>1 DEF Innermost, Last, n
    <3> QED
      BY <2>6, <3>2, <3>3 DEF Enclosing
  <2>7. \A j \in DOMAIN born : born'[j] = born[j]
    <3>1. born' = born \/ born' = Append(born, starts + 1)
      BY DEF ServerStart
    <3>2. starts + 1 \in Nat
      BY DEF NestingInv, CallsTyped
    <3>3. \A j \in DOMAIN born : Append(born, starts + 1)[j] = born[j]
      BY <2>5, <3>2
    <3> QED
      BY <3>1, <3>3
  <2>8. ParentIsCaller'
    <3> SUFFICES ASSUME ~ overlapped', Enclosing(stack) # 0
                 PROVE  born'[Enclosing(stack)] = caller
      BY <1>1, <2>2 DEF ParentIsCaller
    <3>1. stack # <<>>
      BY DEF Enclosing
    <3> QED
      BY <2>6, <2>7, <3>1
  <2>9. CertainStartIsRight'
    <3> SUFFICES ASSUME ~ overlapped', ~ parser.incomplete
                 PROVE  caller = IF Enclosing(stack) = 0 THEN 0 ELSE born'[Enclosing(stack)]
      BY <1>1, <2>2 DEF CertainStartIsRight
    <3>1. CASE stack = <<>>
      <4>1. calls[k] = <<>>
        BY <2>4, <2>5, <3>1 DEF n
      <4> QED
        BY <2>4, <3>1, <4>1 DEF Enclosing, Innermost
    <3>2. CASE stack # <<>>
      <4>1. Enclosing(stack) # 0
        BY <2>5, <2>6, <3>2
      <4> QED
        BY <2>6, <2>7, <3>2, <4>1
    <3> QED
      BY <3>1, <3>2
  <2> QED
    BY <2>3, <2>8, <2>9 DEF LastInv
<1> QED
  BY <1>2, <1>3, <1>4

LEMMA FinishSaysRight ==
    ASSUME NestingInv, NEW k \in Keys, NEW i \in DOMAIN calls[k], NEW flushed \in BOOLEAN,
           ServerFinish(k, i, flushed)
    PROVE  LastInv'
<1> DEFINE f == calls[k][i].activity
           stack == StackOf(parser, k)
<1>1. /\ WithinLimits(parser)
      /\ MayFinish(k, i) /\ Finished(k, i)
      /\ parser' = RecordResult(parser, "finish", k, f, flushed).parser
      /\ last'.events = RecordResult(parser, "finish", k, f, flushed).events
      /\ last'.of = calls[k][i]
      /\ born' = born
  BY DEF NestingInv, ParserTyped, ServerFinish, Take
<1>2. \/ Silent(last'.events)
      \/ k # NoKey /\ Popped(parser, parser', k, f, last'.events)
  BY <1>1, FinishOutcome DEF Ignored, Dropped
<1>3. CASE Silent(last'.events)
  BY <1>3, SilentEventsFit
<1>4. CASE k # NoKey /\ Popped(parser, parser', k, f, last'.events)
  <2>1. /\ DOMAIN last'.events = {1}
        /\ last'.events[1].phase = "finish"
        /\ last'.events[1].sequence = Last(stack).sequence
        /\ stack # <<>> /\ Last(stack).activity = f
    BY <1>4 DEF Popped
  <2>2. ParentIsCaller' /\ CertainStartIsRight'
    BY <2>1 DEF ParentIsCaller, CertainStartIsRight
  <2>3. PairedWithOwnStart'
    <3>1. ~ disordered' => born[Last(stack).sequence] = calls[k][i].id
      BY <1>1, <2>1, FinishPops
    <3> QED
      BY <1>1, <2>1, <3>1 DEF PairedWithOwnStart
  <2> QED
    BY <2>2, <2>3 DEF LastInv
<1> QED
  BY <1>2, <1>3, <1>4

LEMMA LastStep == NestingInv /\ LastInv /\ [Next]_vars => LastInv'
<1> SUFFICES ASSUME NestingInv, LastInv, [Next]_vars PROVE LastInv'
  OBVIOUS
<1>1. ASSUME NEW k \in Keys, NEW f \in Activities, NEW caller \in 0..starts,
             ServerStart(k, f, caller)
      PROVE  LastInv'
  BY <1>1, StartSaysRight
<1>2. ASSUME NEW k \in Keys, NEW i \in DOMAIN calls[k], NEW flushed \in BOOLEAN,
             ServerFinish(k, i, flushed)
      PROVE  LastInv'
  BY <1>2, FinishSaysRight
<1>3. ASSUME Silent(last'.events)
      PROVE  LastInv'
  BY <1>3, SilentEventsFit
<1>4. ASSUME NEW k \in Keys, NEW f \in Activities, NEW caller \in 0..starts,
             DamagedStart(k, f, caller)
      PROVE  LastInv'
  BY <1>3, <1>4, SilentOnes DEF DamagedStart, Take, GapResult
<1>5. ASSUME NEW k \in Keys, NEW i \in DOMAIN calls[k], DamagedFinish(k, i)
      PROVE  LastInv'
  BY <1>3, <1>5, SilentOnes DEF DamagedFinish, Take, GapResult
<1>6. CASE StrayGap
  BY <1>3, <1>6, SilentOnes DEF StrayGap, Take, GapResult
<1>7. CASE EndOfStream
  BY <1>3, <1>7, SilentOnes DEF EndOfStream, Take, GapResult, FlushResult
<1>8. CASE UNCHANGED vars
  BY <1>8 DEF vars, LastInv, PairedWithOwnStart, ParentIsCaller, CertainStartIsRight
<1> QED
  BY <1>1, <1>2, <1>4, <1>5, <1>6, <1>7, <1>8 DEF Next

-----------------------------------------------------------------------------
\* Whatever the order and the damage of the records, the stack of a key is the
\* inner end of what is open there (finish, Gap and the maps they share).
THEOREM StacksAreInnerCalls == Spec => []StackIsInnerCalls
<1>1. NestingInv => StackIsInnerCalls
  <2> SUFFICES ASSUME NestingInv, ~ disordered, NEW k \in DOMAIN parser.stacks
               PROVE  /\ Len(calls[k]) - Len(parser.stacks[k]) >= 0
                      /\ InnerEnd(parser.stacks[k], calls[k], born)
    BY DEF StackIsInnerCalls, InnerEnd
  <2>1. k \in Keys /\ IsStack(parser.stacks[k]) /\ StackOf(parser, k) = parser.stacks[k]
    BY StackMap DEF NestingInv, ParserTyped, WithinLimits, Parsers, StackOf
  <2>2. InnerEnd(parser.stacks[k], calls[k], born)
    BY <2>1 DEF NestingInv, StacksInner
  <2>3. calls[k] \in Seq(Activations)
    BY <2>1 DEF NestingInv, CallsTyped
  <2> QED
    BY <2>1, <2>2, <2>3 DEF InnerEnd, IsStack
<1> QED
  BY <1>1, NestingInit, NestingStep, PTL DEF Spec

LEMMA LastAlways == Spec => []LastInv
<1>1. Init => LastInv
  BY SilentOnes, SilentEventsFit DEF Init, Silent
<1> QED
  BY <1>1, NestingInit, NestingStep, LastStep, PTL DEF Spec

\* No finish is ever paired with the start of another activation, unless
\* routines of one key finish in another order than innermost first.
THEOREM FinishesFindTheirStart == Spec => []PairedWithOwnStart
  BY LastAlways, PTL DEF LastInv

\* The parent of a start, where the parser names one, is the activation that
\* called it.
THEOREM ParentsAreCallers == Spec => []ParentIsCaller
  BY LastAlways, PTL DEF LastInv

\* A start that is not marked incomplete is a root or a child exactly as on the
\* server.
THEOREM CertainStartsAreRight == Spec => []CertainStartIsRight
  BY LastAlways, PTL DEF LastInv
=============================================================================
