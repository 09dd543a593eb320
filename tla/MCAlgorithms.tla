---------------------------- MODULE MCAlgorithms ----------------------------
(***************************************************************************)
(* Bounded inputs of the pure algorithms, for TLC: a text that grows by a  *)
(* few symbols, a row of counters that grows by one, a tree that grows by  *)
(* one node, a session that grows by a line of SQL or a record.            *)
(***************************************************************************)
EXTENDS SqlText, TableCounters, TreeExport, RecordLines

CONSTANTS
    MaxPieces,      \* pieces of a text
    MaxTreeNodes,   \* nodes of a tree
    MaxCounter,     \* digits of a counter
    MaxRecords,     \* records of a session
    MaxSqlLines     \* lines of SQL in a session

VARIABLE input

Pieces ==
    {<<"/", "*">>, <<"*", "/">>, <<"-", "-">>, <<"q", "'">>, <<"]", "'">>, <<".", ".", ".">>,
     <<"'">>, <<"\"">>, <<"[">>, <<"]">>, <<")">>, <<"x">>, <<"1">>, <<"nl">>, <<"KW">>}

Names ==
    {<<"a">>, <<"a", "d">>, <<"a", "sp", "d">>, <<"a", "a", "a", "a">>, <<"a", "a", "a", "d">>,
     <<"a", "a", "a", "a", "a">>, <<"a", "a", "a", "d", "d">>, <<"a", "a", "a", "sp", "d">>}

Node(parent, sort) == [parent |-> parent, sort |-> sort]

Text(text, pieces) == [kind |-> "text", text |-> text, pieces |-> pieces]
CounterRow(name, digits) == [kind |-> "row", name |-> name, digits |-> digits]
SpanTree(nodes, tainted, omitted, collapse) ==
    [kind |-> "tree", tree |-> Tree(nodes, tainted, omitted), collapse |-> collapse]
SessionOf(records) == [kind |-> "session", records |-> records]

\* Records without the text of their statement; "other" is an event the parser
\* does not know.
Records ==
    {r \in [kind : {"statement", "procedure", "other"}, phase : {"start", "finish"}, sql : {<<>>},
            plan : BOOLEAN, param : BOOLEAN, table : BOOLEAN] :
        /\ r.table => r.phase = "finish" /\ r.param
        /\ r.plan => r.kind = "statement"
        /\ r.kind = "other" => r.phase = "start" /\ ~ r.param}

\* What a line of a literal or comment, and one of SQL proper, may look like.
LiteralLooks ==
    Headers \cup {"attachment", "transaction", "statement", "procedure", "dashes", "carets",
                 "blank", "plan", "table", "counters", "param", "returns", "count", "performance"}
SqlLooks == {"blank", "dashes", "plan", "param", "performance"}

\* The next line of a text: an open text wants nothing, a cut one always does,
\* and a comment ("---") leaves what was wanted.
NextLines(sql) ==
    LET open == Unclosed(sql)
        Plain == {l \in {SqlLine(odd, wants, cut) : odd, wants, cut \in BOOLEAN} :
                    IF open # l.odd THEN ~ l.wants ELSE l.cut => l.wants}
        Looking == {[Line(looks, 0) EXCEPT !.wants = looks = "dashes" /\ ~ open /\ Wanting(sql)] :
                        looks \in IF open THEN LiteralLooks ELSE SqlLooks}
    IN  IF sql = <<>> THEN Plain \cup {Line("ddl", 0)} \cup {[l EXCEPT !.looks = "ddl"] : l \in Plain}
        ELSE IF Last(sql).cut THEN {}
        ELSE Plain \cup Looking

\* A statement has a text, which is whole or cut.
Executed(r) == r.kind = "statement" => r.sql # <<>> /\ (Last(r.sql).cut \/ ~ Unclosed(r.sql))

SqlLines(records) == FoldLeft(LAMBDA n, r : n + Len(r.sql), 0, records)

Init ==
    \/ input = Text(<<>>, 0)
    \/ \E name \in Names : input = CounterRow(name, <<>>)
    \/ \E sort \in Sorts, tainted, omitted, collapse \in BOOLEAN :
          /\ tainted \/ omitted => collapse /\ tainted # omitted
          /\ input = SpanTree(<<Node(0, sort)>>, tainted, omitted, collapse)
    \/ \E r \in Records : input = SessionOf(<<r>>)

MoreText ==
    /\ input.kind = "text" /\ input.pieces < MaxPieces
    /\ \E piece \in Pieces : input' = Text(input.text \o piece, input.pieces + 1)

MoreCounters ==
    /\ input.kind = "row" /\ Len(input.digits) < Fields
    /\ \E n \in 0..MaxCounter : input' = CounterRow(input.name, Append(input.digits, n))

MoreNodes ==
    /\ input.kind = "tree" /\ Len(input.tree.nodes) < MaxTreeNodes
    /\ \E parent \in Places(input.tree), sort \in Sorts :
          input' = [input EXCEPT !.tree.nodes = Append(@, Node(parent, sort))]

MoreSql ==
    /\ input.kind = "session" /\ SqlLines(input.records) < MaxSqlLines
    /\ Last(input.records).kind = "statement"
    /\ \E l \in NextLines(Last(input.records).sql) :
          input' = [input EXCEPT !.records[Len(input.records)].sql = Append(@, l)]

MoreRecords ==
    /\ input.kind = "session" /\ Len(input.records) < MaxRecords
    /\ Executed(Last(input.records))
    /\ \E r \in Records : input' = SessionOf(Append(input.records, r))

Next == MoreText \/ MoreCounters \/ MoreNodes \/ MoreSql \/ MoreRecords

Spec == Init /\ [][Next]_input

-----------------------------------------------------------------------------
\* ReadAsWritten (SqlText) of every bounded text (framing.go, sql.go:233-418).
SqlTextIsRead == input.kind = "text" => ReadAsWritten(input.text)

\* ReadBack (TableCounters) of every bounded row (parser.go:413-488).
CountersReadBack ==
    input.kind = "row" /\ Len(input.digits) = Fields => ReadBack(input.name, input.digits)

\* ExportIsWhole (TreeExport) of every bounded tree (spans.go:476-691).
TreeExportIsWhole == input.kind = "tree" => ExportIsWhole(input.tree, input.collapse)

\* ReadAsRecords (RecordLines) of every bounded session (parser.go:160-365, 489-516).
SessionIsRead ==
    input.kind = "session" /\ (\A n \in DOMAIN input.records : Executed(input.records[n])) =>
        ReadAsRecords(input.records)

\* WideNeighboursRejected (TableCounters) of every bounded row (parser_test.go:438-446).
AdjacentWideRejected ==
    input.kind = "row" /\ Len(input.digits) = Fields =>
        WideNeighboursRejected(input.name, input.digits)
=============================================================================
