---------------------------- MODULE TraceParser ----------------------------
(***************************************************************************)
(* Pairing of Trace records (src/internal/traceparse/parser.go).           *)
(*                                                                         *)
(* The parser reads the text of one Trace session line by line.  When a    *)
(* record ends it looks at a small part of it: which activity the record   *)
(* is about (kind, name, statement number), whether it starts or finishes, *)
(* and the attachment and transaction it carries.  It keeps one stack of   *)
(* open activities per <<attachment, transaction>> and gives every start a *)
(* sequence number, the enclosing sequence as its parent, and every finish *)
(* the number of the start on top of the stack, if they agree.             *)
(*                                                                         *)
(* The parser is a record of the fields finish, Gap and Flush share; each  *)
(* operator below returns the parser after one record and the events that  *)
(* record put on the channel.  Lexing of lines is abstracted: a record is  *)
(* recognised, or it makes a gap.                                          *)
(***************************************************************************)
EXTENDS Naturals, Sequences, SequencesExt, FiniteSets

CONSTANTS
    MaxScopes,      \* open <<attachment, transaction>> stacks
    MaxDepth,       \* open activities of one stack
    NoKey,          \* a record without attachment or transaction
    NoStatement     \* a statement record without a statement number

ASSUME MaxScopesAssumption == MaxScopes \in Nat \ {0}
ASSUME MaxDepthAssumption  == MaxDepth \in Nat \ {0}

NoStacks == [k \in {} |-> <<>>]

NewParser == [stacks |-> NoStacks, sequence |-> 0, incomplete |-> FALSE]

StackOf(p, k) == IF k \in DOMAIN p.stacks THEN p.stacks[k] ELSE <<>>

\* A key is in the map only while its stack is not empty.
WithStack(p, k, stack) ==
    [p EXCEPT !.stacks =
        IF stack = <<>>
        THEN [j \in DOMAIN p.stacks \ {k} |-> p.stacks[j]]
        ELSE [j \in DOMAIN p.stacks \cup {k} |-> IF j = k THEN stack ELSE p.stacks[j]]]

\* The sequence of the activity that encloses whatever comes next.
Enclosing(stack) == IF stack = <<>> THEN 0 ELSE Last(stack).sequence

Frame(activity, s) == [activity |-> activity, sequence |-> s]

Event(phase, s, parent, incomplete) ==
    [phase |-> phase, sequence |-> s, parent |-> parent, incomplete |-> incomplete]

\* Correlation "unmatched" is sequence 0; such an event is always incomplete.
Unmatched(phase) == Event(phase, 0, 0, TRUE)

GapEvent == Event("gap", 0, 0, TRUE)

\* Mutant: the stacks survive a gap.
GappedKeepingStacks(p) == [p EXCEPT !.incomplete = TRUE]

\* Mutant: what follows a gap passes for complete.
GappedUnnoticed(p) == [p EXCEPT !.stacks = NoStacks]

\* A gap forgets every open activity and taints everything that follows.
Gapped(p) == [p EXCEPT !.stacks = NoStacks, !.incomplete = TRUE]

GapResult(p) == [parser |-> Gapped(p), events |-> <<GapEvent>>]

\* Mutant: the depth of one stack is not limited.
OverflowsScopesOnly(p, k) == Cardinality(DOMAIN p.stacks) >= MaxScopes /\ StackOf(p, k) = <<>>

Overflows(p, k) ==
    \/ Cardinality(DOMAIN p.stacks) >= MaxScopes /\ StackOf(p, k) = <<>>
    \/ Len(StackOf(p, k)) >= MaxDepth

\* A statement record without its number breaks the stack of its key.
Anonymous(activity) == activity.kind = "statement" /\ activity.statement = NoStatement

\* The start of an activity.  At a limit the start is still emitted, as an
\* incomplete root, and is followed by a gap.
StartResult(p, k, activity) ==
    LET stack == StackOf(p, k)
        s     == p.sequence + 1
    IN  IF Overflows(p, k)
        THEN [parser |-> Gapped([p EXCEPT !.sequence = s]),
              events |-> <<Event("start", s, 0, TRUE), GapEvent>>]
        ELSE [parser |-> WithStack([p EXCEPT !.sequence = s], k,
                                   Append(stack, Frame(activity, s))),
              events |-> <<Event("start", s, Enclosing(stack), p.incomplete)>>]

\* Mutant: the innermost start is taken whatever it started.
MatchesAny(stack, activity) == stack # <<>>

\* A finish matches the innermost open start only, by kind, name and number.
Matches(stack, activity) == stack # <<>> /\ Last(stack).activity = activity

\* The finish of an activity.  flushed: the record was released by the idle
\* timer (FlushFinished), so that its counters may be cut short.
FinishResult(p, k, activity, flushed) ==
    LET stack   == StackOf(p, k)
        below   == Front(stack)
        tainted == [p EXCEPT !.incomplete = TRUE]
    IN  IF Matches(stack, activity)
        THEN [parser |-> WithStack(p, k, below),
              events |-> <<Event("finish", Last(stack).sequence, Enclosing(below),
                                 p.incomplete \/ flushed)>>]
        ELSE [parser |-> WithStack(tainted, k, <<>>),
              events |-> <<Unmatched("finish")>>]

\* finish: one complete record of the stream.
RecordResult(p, phase, k, activity, flushed) ==
    CASE k = NoKey           -> [parser |-> p, events |-> <<Unmatched(phase)>>]
      [] k # NoKey /\ Anonymous(activity) ->
            [parser |-> WithStack([p EXCEPT !.incomplete = TRUE], k, <<>>),
             events |-> <<Unmatched(phase)>>]
      [] k # NoKey /\ ~ Anonymous(activity) /\ phase = "start"  -> StartResult(p, k, activity)
      [] k # NoKey /\ ~ Anonymous(activity) /\ phase = "finish" -> FinishResult(p, k, activity, flushed)

\* Flush at the end of the stream: activities left open make a last gap.
FlushResult(p) ==
    IF DOMAIN p.stacks # {} THEN GapResult(p) ELSE [parser |-> p, events |-> <<>>]
=============================================================================
