---------------------------- MODULE ParsedCalls ----------------------------
(***************************************************************************)
(* The parser of TraceParser.tla reading what a server writes: statements, *)
(* procedures, functions and triggers that call one another on several     *)
(* attachments and transactions, with some records damaged.                *)
(*                                                                         *)
(* The server side is external: it is modelled from the records the parser *)
(* expects.  Every activation has an identity of its own, which the text   *)
(* does not show; "born" remembers which activation got which sequence, so *)
(* that properties can say whether the parser's guess was right.           *)
(***************************************************************************)
EXTENDS TraceParser

CONSTANTS
    Keys,           \* <<attachment, transaction>> pairs, and perhaps NoKey
    Activities,     \* records [kind, name, statement]
    MaxStarts       \* bound of the model: activations ever started

VARIABLES
    parser,         \* the fields of Parser
    calls,          \* [Keys -> open activations, outermost first]
    starts,         \* activations started so far
    born,           \* <<activation of sequence 1, of sequence 2, ...>>
    last,           \* the events of the last record, and its activation
    overlapped,     \* did an activation ever start that the innermost one did not call?
    disordered,     \* did a routine ever finish before an activation started later?
    ended           \* the stream was flushed

vars == <<parser, calls, starts, born, last, overlapped, disordered, ended>>

NoActivation == [id |-> 0, caller |-> 0]

Init ==
    /\ parser = NewParser
    /\ calls = [k \in Keys |-> <<>>]
    /\ starts = 0
    /\ born = <<>>
    /\ last = [events |-> <<>>, of |-> NoActivation]
    /\ overlapped = FALSE
    /\ disordered = FALSE
    /\ ended = FALSE

Take(result, a) ==
    /\ parser' = result.parser
    /\ last' = [events |-> result.events, of |-> a]

Started(k, f, caller) == [id |-> starts + 1, activity |-> f, caller |-> caller]

Innermost(k) == IF calls[k] = <<>> THEN 0 ELSE Last(calls[k]).id

\* Any open activation of a key may call the next one: a cursor that is fetched
\* again runs its routines under cursors opened since.  The client (0) starts
\* statements, and does so as well while its earlier cursors are open.
MayCall(k, f, caller) ==
    \/ caller = 0 /\ f.kind = "statement"
    \/ \E i \in DOMAIN calls[k] : caller = calls[k][i].id

\* A statement number names one open cursor.
CanStart(k, f, caller) ==
    /\ ~ ended
    /\ starts < MaxStarts
    /\ MayCall(k, f, caller)
    /\ f.kind = "statement" => \A i \in DOMAIN calls[k] : calls[k][i].activity # f

Opened(k, f, caller) ==
    /\ calls' = [calls EXCEPT ![k] = Append(@, Started(k, f, caller))]
    /\ starts' = starts + 1
    /\ overlapped' = (overlapped \/ caller # Innermost(k))
    /\ UNCHANGED <<disordered, ended>>

ServerStart(k, f, caller) ==
    LET result == RecordResult(parser, "start", k, f, FALSE)
    IN  /\ CanStart(k, f, caller)
        /\ Take(result, Started(k, f, caller))
        /\ born' = IF result.parser.sequence > parser.sequence
                   THEN Append(born, starts + 1) ELSE born
        /\ Opened(k, f, caller)

\* An activation finishes when none that it called is open, so also under one
\* opened later: a suspended cursor is closed whenever its reader likes.
MayFinish(k, i) ==
    /\ ~ ended
    /\ \A j \in DOMAIN calls[k] : calls[k][j].caller # calls[k][i].id

Finished(k, i) ==
    /\ calls' = [calls EXCEPT ![k] = RemoveAt(@, i)]
    /\ disordered' = (disordered \/ (i < Len(calls[k]) /\ calls[k][i].activity.kind # "statement"))
    /\ UNCHANGED <<starts, overlapped, ended>>

ServerFinish(k, i, flushed) ==
    /\ MayFinish(k, i)
    /\ Take(RecordResult(parser, "finish", k, calls[k][i].activity, flushed), calls[k][i])
    /\ Finished(k, i)
    /\ UNCHANGED born

\* The record is there, but the parser cannot use it: an event name it does
\* not know (FAILED EXECUTE_STATEMENT_FINISH is one), a bad timestamp, a line
\* or a record longer than MaxRecord.
DamagedStart(k, f, caller) ==
    /\ CanStart(k, f, caller)
    /\ Take(GapResult(parser), NoActivation)
    /\ Opened(k, f, caller)
    /\ UNCHANGED born

DamagedFinish(k, i) ==
    /\ MayFinish(k, i)
    /\ Take(GapResult(parser), NoActivation)
    /\ Finished(k, i)
    /\ UNCHANGED born

\* A record of other traffic that the parser cannot use.
StrayGap ==
    /\ ~ ended
    /\ Take(GapResult(parser), NoActivation)
    /\ UNCHANGED <<calls, starts, born, overlapped, disordered, ended>>

\* The session is closed, whatever is still running on the server.
EndOfStream ==
    /\ ~ ended
    /\ ended' = TRUE
    /\ Take(FlushResult(parser), NoActivation)
    /\ UNCHANGED <<calls, starts, born, overlapped, disordered>>

Next ==
    \/ \E k \in Keys : \E f \in Activities : \E caller \in 0..starts :
          \/ ServerStart(k, f, caller)
          \/ DamagedStart(k, f, caller)
    \/ \E k \in Keys : \E i \in DOMAIN calls[k] :
          \/ \E flushed \in BOOLEAN : ServerFinish(k, i, flushed)
          \/ DamagedFinish(k, i)
    \/ StrayGap
    \/ EndOfStream

Spec == Init /\ [][Next]_vars

-----------------------------------------------------------------------------
Sequences == 1..parser.sequence

\* The sequences on a stack were issued, and grow towards the top; no sequence
\* is on two stacks.
TypeOK ==
    /\ starts \in 0..MaxStarts
    /\ parser.sequence = Len(born)
    /\ parser.incomplete \in BOOLEAN
    /\ \A k \in DOMAIN parser.stacks :
          \A i \in DOMAIN parser.stacks[k] :
             /\ parser.stacks[k][i].sequence \in Sequences
             /\ i > 1 => parser.stacks[k][i - 1].sequence < parser.stacks[k][i].sequence

\* Whatever the stream contains, the parser remembers at most MaxScopes
\* stacks of at most MaxDepth activities (finish, at its limits).
ParserBounded ==
    /\ Cardinality(DOMAIN parser.stacks) <= MaxScopes
    /\ \A k \in DOMAIN parser.stacks : Len(parser.stacks[k]) \in 1..MaxDepth

\* A finish that gets a sequence gets that of its own start: recursion of one
\* procedure, damage anywhere in the stream, overflow and cursors that overlap
\* and are closed in any order may cost the match, but never pair a finish with
\* another start, as long as routines finish innermost first.
PairedWithOwnStart ==
    ~ disordered => \A i \in DOMAIN last.events :
        last.events[i].phase = "finish" /\ last.events[i].sequence # 0
            => born[last.events[i].sequence] = last.of.id

\* The parent the parser names for a start is the activation that called it,
\* even after damage, as long as whatever starts was called by the innermost
\* open activation.
ParentIsCaller ==
    ~ overlapped => \A i \in DOMAIN last.events :
        last.events[i].phase = "start" /\ last.events[i].parent # 0
            => born[last.events[i].parent] = last.of.caller

\* A start in good standing is nested as it is on the server, whatever came
\* before: a start whose caller the parser forgot, or may have mistaken, is
\* marked incomplete and never passes for a root or a child that is certain.
CertainStartIsRight ==
    ~ overlapped => \A i \in DOMAIN last.events :
        LET e == last.events[i]
        IN  e.phase = "start" /\ ~ e.incomplete
                => last.of.caller = IF e.parent = 0 THEN 0 ELSE born[e.parent]

\* The stack the parser keeps for a key is the inner end of what is really
\* open there: what a gap forgot is the outer end, and nothing is left over
\* from activations that are gone.
StackIsInnerCalls ==
    ~ disordered => \A k \in DOMAIN parser.stacks :
        LET stack == parser.stacks[k]
            outer == Len(calls[k]) - Len(stack)
        IN  /\ outer >= 0
            /\ \A i \in DOMAIN stack :
                  /\ born[stack[i].sequence] = calls[k][outer + i].id
                  /\ stack[i].activity = calls[k][outer + i].activity
=============================================================================
