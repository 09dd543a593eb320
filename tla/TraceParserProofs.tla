------------------------- MODULE TraceParserProofs -------------------------
(***************************************************************************)
(* Theorems about the parser's memory, for every set of keys and           *)
(* activities, every limit, and every order of records: nested, damaged,   *)
(* overlapping, or nonsense.                                               *)
(***************************************************************************)
EXTENDS ParsedCalls, FiniteSetTheorems, SequenceTheorems, TLAPS

\* Entries of the stacks.
Frames == [activity : Activities, sequence : Nat]

\* One stack of the map: never empty, never deeper than MaxDepth.
IsStack(s) == s \in Seq(Frames) /\ Len(s) \in 1..MaxDepth

StackMaps == UNION {[S -> Seq(Frames)] : S \in SUBSET Keys}

Parsers == [stacks : StackMaps, sequence : Nat, incomplete : BOOLEAN]

\* The inductive form of ParserBounded: a stack only grows while it is below
\* MaxDepth and the map only while it is below MaxScopes, so the stacks must be
\* sequences and the keys finitely many for either to be counted.
WithinLimits(p) ==
    /\ p \in Parsers
    /\ IsFiniteSet(DOMAIN p.stacks)
    /\ Cardinality(DOMAIN p.stacks) <= MaxScopes
    /\ \A k \in DOMAIN p.stacks : IsStack(p.stacks[k])

-----------------------------------------------------------------------------
\* A function on some keys is a map of stacks, and the other way round.
LEMMA StackMap ==
    ASSUME NEW m
    PROVE  m \in StackMaps <=> DOMAIN m \subseteq Keys /\ m \in [DOMAIN m -> Seq(Frames)]
  BY DEF StackMaps

\* What the fields of a parser are after one of them is replaced.
LEMMA WithStacks ==
    ASSUME NEW p \in Parsers, NEW m \in StackMaps
    PROVE  /\ [p EXCEPT !.stacks = m] \in Parsers
           /\ [p EXCEPT !.stacks = m].stacks = m
  BY DEF Parsers

\* A gap keeps the limits, as it keeps nothing.
LEMMA GapWithinLimits ==
    ASSUME NEW p, WithinLimits(p)
    PROVE  WithinLimits(Gapped(p))
<1>1. DOMAIN NoStacks = {} /\ NoStacks \in StackMaps
  BY StackMap DEF NoStacks
<1>2. Gapped(p) \in Parsers /\ Gapped(p).stacks = NoStacks
  BY <1>1 DEF WithinLimits, Parsers, Gapped
<1>3. IsFiniteSet({}) /\ Cardinality({}) = 0
  BY FS_EmptySet
<1> QED
  BY <1>1, <1>2, <1>3, MaxScopesAssumption DEF WithinLimits

\* Emptying the stack of a key forgets the key.
LEMMA EmptiedWithinLimits ==
    ASSUME NEW p, WithinLimits(p), NEW k
    PROVE  WithinLimits(WithStack(p, k, <<>>))
<1> DEFINE m == [j \in DOMAIN p.stacks \ {k} |-> p.stacks[j]]
           q == WithStack(p, k, <<>>)
<1>1. DOMAIN m = DOMAIN p.stacks \ {k} /\ \A j \in DOMAIN m : m[j] = p.stacks[j]
  OBVIOUS
<1>2. p \in Parsers /\ p.stacks \in StackMaps
  BY DEF WithinLimits, Parsers
<1>3. m \in StackMaps
  BY <1>2, StackMap
<1>4. q \in Parsers /\ q.stacks = m
  BY <1>2, <1>3, WithStacks DEF WithStack
<1>5. /\ IsFiniteSet(DOMAIN m)
      /\ Cardinality(DOMAIN m) <= Cardinality(DOMAIN p.stacks)
      /\ Cardinality(DOMAIN m) \in Nat
      /\ Cardinality(DOMAIN p.stacks) \in Nat
  BY <1>1, FS_Subset, FS_CardinalityType DEF WithinLimits
<1>6. Cardinality(DOMAIN m) <= MaxScopes
  BY <1>5, MaxScopesAssumption DEF WithinLimits
<1> QED
  BY <1>1, <1>4, <1>5, <1>6 DEF WithinLimits

\* Giving a key another stack keeps the limits, if the key has one already or
\* there is room for one more.
LEMMA StackWithinLimits ==
    ASSUME NEW p, WithinLimits(p), NEW k \in Keys, NEW s, IsStack(s),
           k \in DOMAIN p.stacks \/ Cardinality(DOMAIN p.stacks) < MaxScopes
    PROVE  WithinLimits(WithStack(p, k, s))
<1> DEFINE m == [j \in DOMAIN p.stacks \cup {k} |-> IF j = k THEN s ELSE p.stacks[j]]
           q == WithStack(p, k, s)
<1>1. s # <<>>
  BY DEF IsStack
<1>2. /\ DOMAIN m = DOMAIN p.stacks \cup {k}
      /\ \A j \in DOMAIN m : m[j] = IF j = k THEN s ELSE p.stacks[j]
  OBVIOUS
<1>3. p \in Parsers /\ p.stacks \in StackMaps
  BY DEF WithinLimits, Parsers
<1>4. m \in StackMaps
  <2>1. \A j \in DOMAIN m : m[j] \in Seq(Frames)
    BY <1>2, <1>3, StackMap DEF IsStack
  <2>2. DOMAIN m \subseteq Keys
    BY <1>2, <1>3, StackMap
  <2> QED
    BY <2>1, <2>2, StackMap
<1>5. q \in Parsers /\ q.stacks = m
  BY <1>1, <1>3, <1>4, WithStacks DEF WithStack
<1>6. IsFiniteSet(DOMAIN m) /\ Cardinality(DOMAIN m) <= MaxScopes
  <2>1. IsFiniteSet(DOMAIN p.stacks) /\ Cardinality(DOMAIN p.stacks) \in Nat
    BY FS_CardinalityType DEF WithinLimits
  <2>2. CASE k \in DOMAIN p.stacks
    <3>1. DOMAIN m = DOMAIN p.stacks
      BY <1>2, <2>2
    <3> QED
      BY <3>1, <2>1 DEF WithinLimits
  <2>3. CASE k \notin DOMAIN p.stacks
    <3>1. /\ IsFiniteSet(DOMAIN p.stacks \cup {k})
          /\ Cardinality(DOMAIN p.stacks \cup {k}) = Cardinality(DOMAIN p.stacks) + 1
      BY <2>1, <2>3, FS_AddElement
    <3> QED
      BY <1>2, <2>1, <2>3, <3>1, MaxScopesAssumption
  <2> QED
    BY <2>2, <2>3
<1>7. \A j \in DOMAIN m : IsStack(m[j])
  BY <1>2 DEF WithinLimits
<1> QED
  BY <1>5, <1>6, <1>7 DEF WithinLimits

\* Setting the fields finish sets beside the stacks.
LEMMA FieldsWithinLimits ==
    ASSUME NEW p, WithinLimits(p), NEW n \in Nat
    PROVE  /\ WithinLimits([p EXCEPT !.sequence = n])
           /\ WithinLimits([p EXCEPT !.incomplete = TRUE])
           /\ [p EXCEPT !.sequence = n].stacks = p.stacks
           /\ [p EXCEPT !.incomplete = TRUE].stacks = p.stacks
<1>1. /\ [p EXCEPT !.sequence = n] \in Parsers
      /\ [p EXCEPT !.incomplete = TRUE] \in Parsers
      /\ [p EXCEPT !.sequence = n].stacks = p.stacks
      /\ [p EXCEPT !.incomplete = TRUE].stacks = p.stacks
  BY DEF WithinLimits, Parsers
<1> QED
  BY <1>1 DEF WithinLimits

\* The start of an activity, at the limits and below them.
LEMMA StartWithinLimits ==
    ASSUME NEW p, WithinLimits(p), NEW k \in Keys, NEW f \in Activities
    PROVE  WithinLimits(StartResult(p, k, f).parser)
<1> DEFINE s == p.sequence + 1
           q == [p EXCEPT !.sequence = s]
           deeper == Append(StackOf(p, k), Frame(f, s))
<1>1. s \in Nat
  BY DEF WithinLimits, Parsers
<1>2. WithinLimits(q) /\ q.stacks = p.stacks
  BY <1>1, FieldsWithinLimits
<1>3. CASE Overflows(p, k)
  BY <1>2, <1>3, GapWithinLimits DEF StartResult
<1>4. CASE ~ Overflows(p, k)
  <2>1. StackOf(p, k) \in Seq(Frames)
    BY DEF StackOf, WithinLimits, IsStack
  <2>2. Frame(f, s) \in Frames
    BY <1>1 DEF Frame, Frames
  <2>3. deeper \in Seq(Frames) /\ Len(deeper) = Len(StackOf(p, k)) + 1
    BY <2>1, <2>2
  <2>4. Len(StackOf(p, k)) < MaxDepth /\ Len(StackOf(p, k)) \in Nat
    BY <1>4, <2>1, MaxDepthAssumption DEF Overflows
  <2>5. IsStack(deeper)
    BY <2>3, <2>4, MaxDepthAssumption DEF IsStack
  <2>6. k \in DOMAIN p.stacks \/ Cardinality(DOMAIN p.stacks) < MaxScopes
    <3>1. CASE StackOf(p, k) = <<>>
      BY <1>4, <3>1, FS_CardinalityType, MaxScopesAssumption DEF Overflows, WithinLimits
    <3>2. CASE StackOf(p, k) # <<>>
      BY <3>2 DEF StackOf
    <3> QED
      BY <3>1, <3>2
  <2>7. WithinLimits(WithStack(q, k, deeper))
    BY <1>2, <2>5, <2>6, StackWithinLimits
  <2> QED
    BY <1>4, <2>7 DEF StartResult
<1> QED
  BY <1>3, <1>4

\* All but the last element of a sequence.
LEMMA FrontOf ==
    ASSUME NEW S, NEW s \in Seq(S), s # <<>>
    PROVE  /\ Front(s) \in Seq(S)
           /\ Len(Front(s)) = Len(s) - 1
           /\ \A i \in 1..(Len(s) - 1) : Front(s)[i] = s[i]
<1>1. Len(s) \in Nat \ {0}
  OBVIOUS
<1> DEFINE n == Len(s) - 1
<1>2. n \in Int /\ n >= 0 /\ \A i \in 1..n : s[i] \in S
  BY <1>1
<1>3. Front(s) = SubSeq(s, 1, n)
  BY DEF Front
<1> HIDE DEF n
<1>4. /\ SubSeq(s, 1, n) \in Seq(S)
      /\ Len(SubSeq(s, 1, n)) = IF 1 <= n THEN n - 1 + 1 ELSE 0
      /\ \A i \in 1..(n - 1 + 1) : SubSeq(s, 1, n)[i] = s[1 + i - 1]
  BY <1>2, SubSeqProperties
<1>5. Len(SubSeq(s, 1, n)) = n
  BY <1>2, <1>4
<1>6. \A i \in 1..n : SubSeq(s, 1, n)[i] = s[i]
  BY <1>2, <1>4
<1> QED
  BY <1>3, <1>4, <1>5, <1>6 DEF n

\* The finish of an activity pops one frame, or forgets the key.
LEMMA FinishWithinLimits ==
    ASSUME NEW p, WithinLimits(p), NEW k \in Keys, NEW f, NEW flushed
    PROVE  WithinLimits(FinishResult(p, k, f, flushed).parser)
<1> DEFINE stack == StackOf(p, k)
<1>1. CASE Matches(stack, f)
  <2>1. k \in DOMAIN p.stacks /\ IsStack(stack)
    BY <1>1 DEF Matches, StackOf, WithinLimits
  <2>2. Front(stack) \in Seq(Frames) /\ Len(Front(stack)) = Len(stack) - 1
    BY <1>1, <2>1, FrontOf DEF IsStack, Matches
  <2>3. CASE Front(stack) = <<>>
    BY <1>1, <2>3, EmptiedWithinLimits DEF FinishResult
  <2>4. CASE Front(stack) # <<>>
    <3>1. IsStack(Front(stack))
      BY <2>1, <2>2, <2>4, MaxDepthAssumption DEF IsStack
    <3>2. WithinLimits(WithStack(p, k, Front(stack)))
      BY <2>1, <3>1, StackWithinLimits
    <3> QED
      BY <1>1, <3>2 DEF FinishResult
  <2> QED
    BY <2>3, <2>4
<1>2. CASE ~ Matches(stack, f)
  BY <1>2, FieldsWithinLimits, EmptiedWithinLimits DEF FinishResult
<1> QED
  BY <1>1, <1>2

\* Whatever record the server writes, its limits hold after the parser took it.
LEMMA RecordWithinLimits ==
    ASSUME NEW p, WithinLimits(p), NEW k \in Keys, NEW f, NEW flushed,
           NEW phase \in {"start", "finish"}, phase = "start" => f \in Activities
    PROVE  WithinLimits(RecordResult(p, phase, k, f, flushed).parser)
<1>1. CASE k = NoKey
  BY <1>1 DEF RecordResult
<1>2. CASE k # NoKey /\ Anonymous(f)
  BY <1>2, FieldsWithinLimits, EmptiedWithinLimits DEF RecordResult
<1>3. CASE k # NoKey /\ ~ Anonymous(f) /\ phase = "start"
  BY <1>3, StartWithinLimits DEF RecordResult
<1>4. CASE k # NoKey /\ ~ Anonymous(f) /\ phase = "finish"
  BY <1>4, FinishWithinLimits DEF RecordResult
<1> QED
  BY <1>1, <1>2, <1>3, <1>4

-----------------------------------------------------------------------------
LimitsInv == WithinLimits(parser)

LEMMA LimitsInit == Init => WithinLimits(parser)
<1> SUFFICES ASSUME Init PROVE WithinLimits(parser)
  OBVIOUS
<1>1. IsFiniteSet({}) /\ Cardinality({}) = 0
  BY FS_EmptySet
<1>2. DOMAIN NoStacks = {} /\ NoStacks \in StackMaps
  BY StackMap DEF NoStacks
<1>3. NewParser \in Parsers /\ NewParser.stacks = NoStacks
  BY <1>2 DEF NewParser, Parsers
<1> QED
  BY <1>1, <1>2, <1>3, MaxScopesAssumption DEF Init, WithinLimits

\* The parser's limits survive every step of the server and of the stream.
LEMMA LimitsStep == WithinLimits(parser) /\ [Next]_vars => WithinLimits(parser')
<1> SUFFICES ASSUME WithinLimits(parser), [Next]_vars PROVE WithinLimits(parser')
  OBVIOUS
<1>a. WithinLimits(GapResult(parser).parser)
  BY GapWithinLimits DEF GapResult
<1>1. ASSUME NEW k \in Keys, NEW f \in Activities, NEW caller \in 0..starts, ServerStart(k, f, caller)
      PROVE  WithinLimits(parser')
  <2>1. parser' = RecordResult(parser, "start", k, f, FALSE).parser
    BY <1>1 DEF ServerStart, Take
  <2> QED
    BY <2>1, RecordWithinLimits
<1>2. ASSUME NEW k \in Keys, NEW f \in Activities, NEW caller \in 0..starts, DamagedStart(k, f, caller)
      PROVE  WithinLimits(parser')
  BY <1>2, <1>a DEF DamagedStart, Take
<1>3. ASSUME NEW k \in Keys, NEW i \in DOMAIN calls[k], NEW flushed \in BOOLEAN,
             ServerFinish(k, i, flushed)
      PROVE  WithinLimits(parser')
  <2>1. parser' = RecordResult(parser, "finish", k, calls[k][i].activity, flushed).parser
    BY <1>3 DEF ServerFinish, Take
  <2> QED
    BY <2>1, RecordWithinLimits
<1>4. ASSUME NEW k \in Keys, NEW i \in DOMAIN calls[k], DamagedFinish(k, i)
      PROVE  WithinLimits(parser')
  BY <1>4, <1>a DEF DamagedFinish, Take
<1>5. CASE StrayGap
  BY <1>5, <1>a DEF StrayGap, Take
<1>6. CASE EndOfStream
  BY <1>6, <1>a DEF EndOfStream, Take, FlushResult
<1>7. CASE UNCHANGED vars
  BY <1>7 DEF vars
<1> QED
  BY <1>1, <1>2, <1>3, <1>4, <1>5, <1>6, <1>7 DEF Next

\* The parser's memory is bounded by MaxScopes and MaxDepth (the two limits
\* consume checks before it pushes), whatever the stream contains.
THEOREM ParserMemoryBounded == Spec => []ParserBounded
<1>1. Init => LimitsInv
  BY LimitsInit DEF LimitsInv
<1>2. LimitsInv /\ [Next]_vars => LimitsInv'
  BY LimitsStep DEF LimitsInv
<1>3. LimitsInv => ParserBounded
  BY DEF LimitsInv, WithinLimits, IsStack, ParserBounded
<1> QED
  BY <1>1, <1>2, <1>3, PTL DEF Spec
=============================================================================
