--------------------------- MODULE TableCounters ---------------------------
(***************************************************************************)
(* The counters of a table in a performance section of the trace           *)
(* (parser.go, tableCounterRow).  The server writes the name and a column  *)
(* per counter, without separators; a zero counter is blank, and a long    *)
(* name or a counter of too many digits shifts the rest.  The parser reads *)
(* the row from its right end and tries every split of it.                 *)
(*                                                                         *)
(* A row is a sequence of "d" (a digit), "sp" and "a" (another character   *)
(* of a name); a counter is the number of its digits, 0 for a zero.        *)
(***************************************************************************)
EXTENDS Naturals, SequencesExt

CONSTANTS
    Fields,         \* counters of a row: 8
    Width,          \* of a counter's column: 10
    MaxDigits,      \* of an int64: 19
    NameWidth       \* of the column of names: 32 or more

Repeat(c, n) == [i \in 1..n |-> c]

PadTo(width, n) == Repeat("sp", IF n < width THEN width - n ELSE 0)

\* The row the server writes.
Row(name, digits) ==
    name \o PadTo(NameWidth, Len(name))
    \o FlattenSeq([f \in 1..Fields |-> PadTo(Width, digits[f]) \o Repeat("d", digits[f])])

\* strings.TrimSpace
WithoutSpaces(s) ==
    LET said == {i \in DOMAIN s : s[i] # "sp"}
    IN  IF said = {} THEN <<>> ELSE SubSeq(s, Min(said), Max(said))

\* A split of the row under way: where the rest ends, the digits of the
\* counters read from it, and which of them were padded.
Split(end, digits, padded) == [end |-> end, digits |-> digits, padded |-> padded]

\* The last column is a blank, or a number in its place.
InColumn(row, sp) ==
    LET fixed   == SubSeq(row, sp.end - Width + 1, sp.end)
        trimmed == WithoutSpaces(fixed)
        n       == Len(trimmed)
    IN  IF /\ sp.end >= Width
           /\ \A i \in 1..n : trimmed[i] = "d"
           /\ n = 0 \/ fixed[Width] = "d"
        THEN {Split(sp.end - Width, <<n>> \o sp.digits, <<0 < n /\ n < Width>> \o sp.padded)}
        ELSE {}

\* The last column has overflowed: the number reaches as far as there are digits.
Overflowed(row, sp) ==
    LET start == Max({0} \cup {i \in 1..sp.end : row[i] # "d"})
        n     == sp.end - start
    IN  IF sp.end >= Width /\ n > Width /\ n <= MaxDigits
        THEN {Split(start, <<n>> \o sp.digits, <<FALSE>> \o sp.padded)}
        ELSE {}

Splits(row) ==
    LET read[f \in 0..Fields] ==
          IF f = 0 THEN {Split(Len(row), <<>>, <<>>)}
          ELSE UNION {InColumn(row, sp) \cup Overflowed(row, sp) : sp \in read[f - 1]}
    IN  read[Fields]

\* The border between two numbers is not known when they touch and one is too
\* long for its column.
Ambiguous(sp) ==
    \E f \in 1..(Fields - 1) :
        /\ sp.digits[f] > 0 /\ sp.digits[f + 1] > 0 /\ ~ sp.padded[f + 1]
        /\ sp.digits[f] > Width \/ sp.digits[f + 1] > Width

\* What follows a name that ended in its column is the overflow of a counter.
NameOverrun(row, sp) ==
    /\ sp.end > NameWidth /\ row[NameWidth] = "sp"
    /\ \A i \in (NameWidth + 1)..sp.end : row[i] = "d"

NameOf(row, sp) == WithoutSpaces(SubSeq(row, 1, sp.end))

Candidates(row) ==
    {sp \in Splits(row) :
        /\ ~ Ambiguous(sp) /\ ~ NameOverrun(row, sp)
        /\ sp.end >= NameWidth /\ NameOf(row, sp) # <<>>}

\* Mutant: the candidate with the longest name.
CountersOfLongest(row) ==
    {[name |-> NameOf(row, sp), digits |-> sp.digits] :
        sp \in {c \in Candidates(row) : \A d \in Candidates(row) : c.end >= d.end}}

\* What the parser makes of a row: nothing, or the candidate with the shortest name.
Counters(row) ==
    {[name |-> NameOf(row, sp), digits |-> sp.digits] :
        sp \in {c \in Candidates(row) : \A d \in Candidates(row) : c.end <= d.end}}

-----------------------------------------------------------------------------
(* What the rows mean. *)

Overflows(digits, f) == digits[f] > Width

\* Two counters touch and one of them has overflowed: where one ends and the
\* other begins cannot be seen.
WideNeighbours(digits) ==
    \E f \in 1..(Fields - 1) :
        /\ digits[f] > 0 /\ digits[f + 1] >= Width
        /\ Overflows(digits, f) \/ Overflows(digits, f + 1)

\* So do a name that fills its column and ends in a digit, and the first counter.
WideNameNeighbour(name, digits) ==
    /\ Len(name) >= NameWidth /\ Last(name) = "d" /\ digits[1] >= Width
    /\ Len(name) > NameWidth \/ Overflows(digits, 1)

\* A name whose part beyond its column looks like a counter.
LooksOverrun(name) ==
    /\ Len(name) > NameWidth /\ name[NameWidth] = "sp"
    /\ \A i \in (NameWidth + 1)..Len(name) : name[i] = "d"

Said(name, digits) == [name |-> name, digits |-> digits]

\* A row in which no two numbers run together is read back as the server wrote
\* it, whatever overflows its column: no counter is taken for its neighbour, no
\* digit of a name for a counter, and only a name longer than its column may have
\* the row rejected (parser.go:413-488).
ReadBack(name, digits) ==
    ~ (WideNeighbours(digits) \/ WideNameNeighbour(name, digits) \/ LooksOverrun(name)) =>
        LET read == Counters(Row(name, digits))
        IN  /\ read \subseteq {Said(name, digits)}
            /\ Len(name) <= NameWidth => read # {}

\* A row in which an overflowed counter runs into its neighbour is rejected
\* (parser_test.go:438-446, "ambiguous adjacent counters were accepted").
WideNeighboursRejected(name, digits) ==
    WideNeighbours(digits) => Counters(Row(name, digits)) = {}
=============================================================================
