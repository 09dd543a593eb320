---------------------------- MODULE RecordLines ----------------------------
(***************************************************************************)
(* How the trace parser finds the records in the lines of a session        *)
(* (src/internal/traceparse/parser.go, consume and finish).  The text of a *)
(* statement stands between the lines that describe its execution, in any  *)
(* number of lines which may look like those: the parser must see where it *)
(* ends, and must take nothing in it for the server's word.                *)
(*                                                                         *)
(* A line is what it looks like and the record it tells of (0: it only     *)
(* looks so), and, if it belongs to a statement, what the scanners of      *)
(* SqlText make of it: whether it has an odd quote and so opens or closes  *)
(* a literal, whether it ends with a token that wants more, and whether    *)
(* the server has cut it ("...").  What a record has when it is whole is   *)
(* the subject of Truth.  Stacks and sequences are in TraceParser.         *)
(***************************************************************************)
EXTENDS Naturals, SequencesExt

CONSTANTS MaxLines      \* of a record, after its header: for MaxRecord bytes

Headers == {"statement header", "procedure header", "other header"}

Line(looks, of) == [looks |-> looks, of |-> of, odd |-> FALSE, wants |-> FALSE, cut |-> FALSE]

SqlLine(odd, wants, cut) == [Line("text", 0) EXCEPT !.odd = odd, !.wants = wants, !.cut = cut]

NonBlank(lines) == SelectSeq(lines, LAMBDA l : l.looks # "blank")

-----------------------------------------------------------------------------
(* The text of a statement: framing.go, as its outcome. *)

\* Is a literal or a comment open after the lines?
Unclosed(lines) == FoldLeft(LAMBDA open, l : open # l.odd, FALSE, lines)

Wanting(lines) == NonBlank(lines) # <<>> /\ Last(NonBlank(lines)).wants

MayEnd(lines) == ~ Unclosed(lines) /\ ~ Wanting(lines)

\* LeadingOperation, of a text that may have performance counters and no count
\* of its records.
TerminalOperation(lines) == lines # <<>> /\ lines[1].looks = "ddl"

-----------------------------------------------------------------------------
(* The parser. *)

NoRecord == [kind |-> "none"]

NewRecord(kind, incomplete) ==
    [kind |-> kind, attachment |-> 0, transaction |-> 0, named |-> 0, sql |-> <<>>,
     plan |-> 0, duration |-> 0, tables |-> 0, incomplete |-> incomplete]

NewReader ==
    [current |-> NoRecord, sql |-> <<>>, collectSQL |-> FALSE, sqlSeparated |-> FALSE,
     metadataHeader |-> FALSE, planSection |-> FALSE, performanceSection |-> FALSE,
     tableWidth |-> FALSE, size |-> 0, incomplete |-> FALSE, events |-> <<>>]

\* Gap: what was being read is given up, and what follows is incomplete.
Gap(p) ==
    [p EXCEPT !.incomplete = TRUE, !.current = NoRecord, !.sql = <<>>,
              !.collectSQL = FALSE, !.sqlSeparated = FALSE,
              !.events = Append(@, NewRecord("gap", TRUE))]

\* The text is described only if it is whole, for all that can be seen of it.
Describable(lines) == lines # <<>> => ~ Unclosed(lines) /\ ~ (NonBlank(lines) # <<>> /\ Last(NonBlank(lines)).cut)

Identified(e) == e.attachment # 0 /\ e.transaction # 0 /\ (e.kind = "statement" => e.named # 0)

\* finish: the record is emitted.
Released(p) ==
    LET e == p.current
        whole == Describable(p.sql) /\ Identified(e) /\ ~ p.incomplete
    IN  IF e = NoRecord THEN p
        ELSE [p EXCEPT !.current = NoRecord, !.sql = <<>>, !.collectSQL = FALSE,
                       !.incomplete = @ \/ (e.attachment # 0 /\ e.transaction # 0 /\ ~ Identified(e)),
                       !.events = Append(@, [e EXCEPT !.sql = NonBlank(p.sql), !.incomplete = @ \/ ~ whole])]

\* Mutant: any header ends the text.
EndsAtHeader(p, line) ==
    \/ line.looks \in Headers
    \/ line.looks = "carets" /\ ~ Unclosed(p.sql)

\* The line is not of the text any more.
EndsText(p, line) ==
    /\ ~ Unclosed(p.sql)
    /\ \/ line.looks \in Headers \cup {"carets"}
       \/ /\ MayEnd(p.sql)
          /\ \/ p.sqlSeparated /\ line.looks \in {"param", "returns"}
             \/ line.looks = "count"
             \/ line.looks = "performance" /\ TerminalOperation(p.sql)

\* A line of the text.
Collected(p, line) ==
    IF p.size + 1 > MaxLines THEN Gap(p)
    ELSE [p EXCEPT !.sql = Append(@, line), !.size = @ + 1,
                   !.sqlSeparated = line.looks = "blank" /\ ~ Unclosed(p.sql)]

KindOf(line) == IF line.looks = "statement header" THEN "statement" ELSE "procedure"

\* A header: the record before it is over.
Opened(p, line) ==
    LET done == Released(p)
    IN  IF line.looks = "other header" THEN Gap(done)
        ELSE [done EXCEPT !.current = NewRecord(KindOf(line), done.incomplete),
                          !.size = 0, !.tableWidth = FALSE, !.metadataHeader = TRUE,
                          !.planSection = FALSE, !.performanceSection = FALSE]

\* Does the line name what the record is about?
Labels(p, line) ==
    \/ p.current.kind = "statement" /\ line.looks = "statement"
    \/ p.current.kind = "procedure" /\ line.looks = "procedure"

\* Any other line of a record.
Described(p, line) ==
    LET e == p.current
    IN  CASE line.looks = "attachment" /\ p.metadataHeader /\ e.attachment = 0 ->
               [p EXCEPT !.current.attachment = line.of]
          [] line.looks = "transaction" /\ p.metadataHeader /\ e.attachment # 0 /\ e.transaction = 0 ->
               [p EXCEPT !.current.transaction = line.of]
          [] Labels(p, line) /\ p.metadataHeader ->
               [p EXCEPT !.current.named = line.of, !.metadataHeader = FALSE]
          [] line.looks = "dashes" ->
               [p EXCEPT !.collectSQL = TRUE, !.sqlSeparated = FALSE, !.metadataHeader = FALSE]
          [] line.looks = "carets" -> [p EXCEPT !.planSection = TRUE]
          [] line.looks = "blank" -> [p EXCEPT !.planSection = FALSE]
          [] line.looks = "plan" /\ p.planSection -> [p EXCEPT !.current.plan = line.of]
          [] line.looks = "table" /\ p.performanceSection -> [p EXCEPT !.tableWidth = TRUE]
          [] line.looks = "counters" /\ p.tableWidth -> [p EXCEPT !.current.tables = line.of]
          [] line.looks \in {"param", "returns", "count"} -> [p EXCEPT !.planSection = FALSE]
          [] line.looks = "performance" ->
               [p EXCEPT !.performanceSection = TRUE, !.planSection = FALSE, !.current.duration = line.of]
          [] OTHER -> p

\* consume
Consumed(p, line) ==
    IF p.collectSQL /\ ~ EndsText(p, line) THEN Collected(p, line)
    ELSE LET q == [p EXCEPT !.collectSQL = FALSE, !.sqlSeparated = IF p.collectSQL THEN FALSE ELSE @]
         IN  IF line.looks \in Headers THEN Opened(q, line)
             ELSE IF q.current = NoRecord THEN q
             ELSE IF q.size + 1 > MaxLines THEN Gap(q)
             ELSE Described([q EXCEPT !.size = @ + 1], line)

\* The events of a session that ends with TRACE_FINI.
EventsOf(lines) == Released(FoldLeft(Consumed, NewReader, lines)).events

-----------------------------------------------------------------------------
(* The server. *)

HeaderOf(kind) == kind \o " header"

\* Lines the server writes only in some records.
Only(condition, lines) == IF condition THEN lines ELSE <<>>

\* The lines of the n-th record.
WrittenLines(n, r) ==
    LET L(looks) == Line(looks, n)
        finish == r.phase = "finish"
    IN  <<L(HeaderOf(r.kind)), L("attachment"), L("transaction"), L("blank"), L(r.kind)>>
        \o Only(r.kind = "statement", <<L("dashes")>> \o r.sql)
        \o Only(r.kind = "statement" /\ r.plan, <<L("carets"), L("plan")>>)
        \o Only(r.param, <<L("blank"), L("param")>>)
        \o Only(finish /\ r.kind = "statement" /\ ~ TerminalOperation(r.sql), <<L("count")>>)
        \o Only(finish, <<L("performance")>>)
        \o Only(finish /\ r.table, <<L("blank"), L("table"), L("counters")>>)
        \o <<L("blank")>>

Session(records) == FlattenSeq([n \in DOMAIN records |-> WrittenLines(n, records[n])])

Truth(n, r) ==
    LET If(condition) == IF condition THEN n ELSE 0
        finish == r.phase = "finish"
    IN  [kind |-> r.kind, attachment |-> n, transaction |-> n, named |-> n,
         sql |-> IF r.kind = "statement" THEN NonBlank(r.sql) ELSE <<>>,
         plan |-> If(r.kind = "statement" /\ r.plan), duration |-> If(finish),
         tables |-> If(finish /\ r.table), incomplete |-> FALSE]

-----------------------------------------------------------------------------
(* What no parser of these lines can know, and this one does not mark. *)

\* A text that goes on where it may end, with a line that looks like metadata,
\* such as "SELECT FIRST 5", an empty line, and "param0 = a, b FROM t".
LooksOver(sql) ==
    \E i \in 2..Len(sql) :
        /\ MayEnd(SubSeq(sql, 1, i - 1))
        /\ \/ sql[i].looks = "param" /\ sql[i - 1].looks = "blank"
           \/ sql[i].looks = "performance" /\ TerminalOperation(sql)

\* A text that ends with a token that wants more, such as "RETURNING *": its
\* metadata is taken for its rest.
LooksUnfinished(r) == r.kind = "statement" /\ Wanting(r.sql) /\ ~ r.plan /\ (r.param \/ r.phase = "finish")

\* A text cut in a literal, which an odd quote in what follows closes.
ClosedByOther(records) ==
    \E n \in DOMAIN records :
        /\ records[n].kind = "statement" /\ Unclosed(records[n].sql)
        /\ \E m \in (n + 1)..Len(records) : \E i \in DOMAIN records[m].sql : records[m].sql[i].odd

Undecidable(records) ==
    \/ \E n \in DOMAIN records : LooksOver(records[n].sql) \/ LooksUnfinished(records[n])
    \/ ClosedByOther(records)

\* An event that is not marked incomplete is a record as the server wrote it:
\* no line of a statement is taken for metadata or for another record, and no
\* metadata for a line of the statement.  The first of them are the first
\* records: nothing is lost unless an event before says that something is
\* missing (parser.go:160-365, 489-516).
ReadAsRecords(records) ==
    LET events == EventsOf(Session(records))
        whole(i) == ~ events[i].incomplete
        first == Max({k \in 0..Len(events) : \A i \in 1..k : whole(i)})
    IN  ~ Undecidable(records) =>
          /\ \A i \in DOMAIN events : whole(i) =>
                /\ events[i].named \in DOMAIN records
                /\ events[i] = Truth(events[i].named, records[events[i].named])
          /\ \A i, j \in DOMAIN events : i < j /\ whole(i) /\ whole(j) => events[i].named < events[j].named
          /\ \A i \in 1..first : events[i].named = i
          /\ first = Len(events) => first = Len(records)
=============================================================================
