------------------------------ MODULE SqlText ------------------------------
(***************************************************************************)
(* The scanners of SQL text (src/internal/sqltext): LexicallyComplete and  *)
(* StatementMayEnd decide for the trace parser where a statement ends      *)
(* (framing.go); lex decides what a description may show (sql.go).  They   *)
(* are separate loops in the code and must agree on what is a literal and  *)
(* what is a comment.                                                      *)
(*                                                                         *)
(* A text is a sequence of symbols, each standing for a class of           *)
(* characters: "a" for a letter, "1" for a digit other than 0, "sp" and    *)
(* "nl" for space and newline, "KW" for a word that wants more SQL after   *)
(* it, "bad" for a character SQL does not have; the others stand for       *)
(* themselves.  Hexadecimal numbers and exponents are left out, and so is  *)
(* the limit on the length of a text.                                      *)
(***************************************************************************)
EXTENDS Naturals, SequencesExt

CONSTANTS
    MaxTokens,      \* 4096 in lex
    MaxNesting      \* 128 in lex

At(s, i) == IF i \in 1..Len(s) THEN s[i] ELSE "end"

Letters == {"a", "q", "x", "KW"}
Digits == {"1"}
Letter(c) == c \in Letters

\* strings.HasPrefix(s[i:], <<c, d>>)
Pair(s, i, c, d) == At(s, i) = c /\ At(s, i + 1) = d

\* The first of some positions, or 0.
First(hits) == IF hits = {} THEN 0 ELSE Min(hits)

\* A "--" comment ends with its line, or with the text.
LineEnd(s, i) ==
    LET nl == First({j \in i..Len(s) : s[j] = "nl"}) IN IF nl = 0 THEN Len(s) + 1 ELSE nl + 1

\* Mutant: block comments do not nest.
FlatBlockEnd(s, i) ==
    LET end == First({j \in (i + 2)..Len(s) : Pair(s, j, "*", "/")}) IN IF end = 0 THEN 0 ELSE end + 2

\* A block comment nests.  0: it is not terminated.
BlockEnd(s, i) ==
    LET end[j \in Nat, depth \in Nat] ==
          IF depth = 0 THEN j
          ELSE IF j > Len(s) THEN 0
          ELSE IF Pair(s, j, "/", "*") THEN end[j + 2, depth + 1]
          ELSE IF Pair(s, j, "*", "/") THEN end[j + 2, depth - 1]
          ELSE end[j + 1, depth]
    IN  end[i + 2, 1]

\* A quoted text; a doubled quote stays inside.
QuoteEnd(s, i) ==
    LET end[j \in Nat] ==
          IF j > Len(s) THEN 0
          ELSE IF s[j] # s[i] THEN end[j + 1]
          ELSE IF At(s, j + 1) = s[i] THEN end[j + 2] ELSE j + 1
    IN  end[i + 1]

Closer(c) == IF c = "[" THEN "]" ELSE IF c = "(" THEN ")" ELSE c

\* q'[...]': i is at the q.
StartsQ(s, i) == At(s, i) = "q" /\ At(s, i + 1) = "'" /\ i + 2 <= Len(s)
QEnd(s, i) ==
    LET end == First({j \in (i + 3)..Len(s) : Pair(s, j, Closer(s[i + 2]), "'")})
    IN  IF end = 0 THEN 0 ELSE end + 2

\* The end of a run of characters.
RunEnd(s, i, chars) ==
    LET end == First({j \in i..Len(s) : s[j] \notin chars}) IN IF end = 0 THEN Len(s) + 1 ELSE end

\* A construct of the text: its kind, its first position and the one after it.
Part(kind, i, next) == [kind |-> kind, from |-> i, next |-> next]

\* The construct at i for LexicallyComplete and StatementMayEnd.
FramePart(s, i) ==
    CASE Pair(s, i, "-", "-")   -> Part("comment", i, LineEnd(s, i))
      [] Pair(s, i, "/", "*")   -> Part("comment", i, BlockEnd(s, i))
      [] StartsQ(s, i)          -> Part("literal", i, QEnd(s, i))
      [] s[i] = "'"             -> Part("literal", i, QuoteEnd(s, i))
      [] s[i] = "\""            -> Part("quoted", i, QuoteEnd(s, i))
      [] Letter(s[i]) /\ ~ StartsQ(s, i) -> Part("word", i, RunEnd(s, i, Letters \cup Digits))
      [] s[i] \in {"sp", "nl"}  -> Part("space", i, i + 1)
      [] OTHER                  -> Part("symbol", i, i + 1)

\* The number at i: digits, perhaps with a fraction, and nothing like a word after.
NumberEnd(s, i) ==
    LET whole == RunEnd(s, i, Digits)
        all   == IF At(s, whole) = "." THEN RunEnd(s, whole + 1, Digits) ELSE whole
    IN  IF Letter(At(s, all)) THEN 0 ELSE all

\* The construct at i for lex, which also knows x'..', numbers, and characters
\* and delimiters it does not take.
LexPart(s, i) ==
    CASE Pair(s, i, "-", "-")   -> Part("comment", i, LineEnd(s, i))
      [] Pair(s, i, "/", "*")   -> Part("comment", i, BlockEnd(s, i))
      [] StartsQ(s, i)          -> Part("literal", i, IF s[i + 2] \in {"sp", "nl", "'"} THEN 0 ELSE QEnd(s, i))
      [] s[i] = "'"             -> Part("literal", i, QuoteEnd(s, i))
      [] Pair(s, i, "x", "'")   -> Part("literal", i, QuoteEnd(s, i + 1))
      [] s[i] = "\""            -> Part("quoted", i, QuoteEnd(s, i))
      [] s[i] = "1" \/ Pair(s, i, ".", "1") -> Part("literal", i, NumberEnd(s, i))
      [] Letter(s[i]) /\ ~ StartsQ(s, i) /\ ~ Pair(s, i, "x", "'") -> Part("word", i, RunEnd(s, i, Letters \cup Digits))
      [] s[i] \in {"sp", "nl"}  -> Part("space", i, i + 1)
      [] s[i] = "bad"           -> Part("symbol", i, 0)
      [] OTHER                  -> Part("symbol", i, i + 1)

\* The constructs of s, given the one at each position, up to one that does not end.
PartsOf(s, at) ==
    LET from[i \in Nat] ==
          IF i > Len(s) THEN <<>>
          ELSE IF at[i].next = 0 THEN <<at[i]>> ELSE <<at[i]>> \o from[at[i].next]
    IN  from[1]

FrameParts(s) == PartsOf(s, [i \in DOMAIN s |-> FramePart(s, i)])
LexParts(s) == PartsOf(s, [i \in DOMAIN s |-> LexPart(s, i)])

\* Round and square brackets, taken as they come; "x" marks a mismatch.
Brackets(s, parts) ==
    FoldLeft(LAMBDA open, part :
                LET c == s[part.from]
                IN  IF part.kind # "symbol" \/ c \notin {"(", ")", "[", "]"} THEN open
                    ELSE IF c \in {"(", "["} THEN Append(open, Closer(c))
                    ELSE IF open # <<>> /\ Last(open) = c THEN Front(open)
                    ELSE Append(open, "x"),
             <<>>, parts)

Accepted(s, parts) == (\A n \in DOMAIN parts : parts[n].next # 0) /\ Brackets(s, parts) = <<>>

LexicallyComplete(s) == Accepted(s, FrameParts(s))

WantsMore == {"-", "*", "/", ".", "(", "["}

\* Has the text ended?  Not with a word or a symbol that wants more.
StatementMayEnd(s) ==
    LET said == SelectSeq(FrameParts(s), LAMBDA p : p.kind \notin {"comment", "space"})
        last == Last(said)
    IN  /\ LexicallyComplete(s)
        /\ said # <<>> =>
              /\ last.kind = "word" => SubSeq(s, last.from, last.next - 1) # <<"KW">>
              /\ last.kind = "symbol" => s[last.from] \notin WantsMore

\* Does the token of this construct show the text of the statement?  A literal
\* becomes "?".
Shows(part) == part.kind \in {"word", "quoted", "symbol"}

\* lex takes the text: its constructs end, and it stays within the limits.
LexOk(s) ==
    LET parts == LexParts(s)
        TokensBefore(n) == {m \in 1..(n - 1) : parts[m].kind \notin {"comment", "space"}}
    IN  /\ Accepted(s, parts)
        /\ \A n \in DOMAIN parts :
              /\ Cardinality(TokensBefore(n)) < MaxTokens
              /\ Len(Brackets(s, SubSeq(parts, 1, n))) <= MaxNesting

Tokens(s) == SelectSeq(LexParts(s), LAMBDA p : p.kind \notin {"comment", "space"})

\* strings.TrimSpace, at the end
Trimmed(s) ==
    SubSeq(s, 1, Max({0} \cup {i \in DOMAIN s : s[i] \notin {"sp", "nl"}}))

\* Does the text end in "...", outside what is complete in it?  Then the server
\* has cut it off.
HasTerminalEllipsis(s) ==
    LET t == Trimmed(s)
        tokens == Tokens(s)
    IN  /\ IsSuffix(<<".", ".", ".">>, t)
        /\ \/ ~ LexOk(s)
           \/ tokens # <<>> /\ Last(tokens).kind = "symbol" /\ s[Last(tokens).from] = "."

-----------------------------------------------------------------------------
(* The reference: the text read symbol by symbol, by Firebird's rules.     *)

\* Where the reading is: its mode, the depth of the comment, what ends the
\* literal, the open brackets.  The modes that end in "?" wait for the symbol
\* that decides.
Begun == [mode |-> "code", depth |-> 0, ends |-> "", open |-> <<>>]

Bracketed(st, c) ==
    [st EXCEPT !.open = IF c \in {"(", "["} THEN Append(@, c)
                        ELSE IF c = ")" /\ @ # <<>> /\ Last(@) = "(" THEN Front(@)
                        ELSE IF c = "]" /\ @ # <<>> /\ Last(@) = "[" THEN Front(@)
                        ELSE Append(@, "never")]

InCode(st, c) ==
    LET In(mode) == [st EXCEPT !.mode = mode]
    IN  CASE c = "-"  -> In("line?")
          [] c = "/"  -> In("block?")
          [] c = "'"  -> In("string")
          [] c = "\"" -> In("name")
          [] c = "q"  -> In("q?")
          [] c \in {"a", "x", "KW"} -> In("word")
          [] c \in {"(", ")", "[", "]"} -> [Bracketed(st, c) EXCEPT !.mode = "code"]
          [] OTHER -> In("code")

InBlock(st, c) ==
    CASE st.mode = "*?" /\ c = "/" ->
            [st EXCEPT !.depth = @ - 1, !.mode = IF st.depth = 1 THEN "code" ELSE "block"]
      [] st.mode = "/?" /\ c = "*" -> [st EXCEPT !.depth = @ + 1, !.mode = "block"]
      [] OTHER -> [st EXCEPT !.mode = IF c = "*" THEN "*?" ELSE IF c = "/" THEN "/?" ELSE "block"]

Reads(st, c) ==
    LET In(mode) == [st EXCEPT !.mode = mode]
    IN  CASE st.mode = "line"   -> IF c = "nl" THEN In("code") ELSE st
          [] st.mode \in {"block", "*?", "/?"} -> InBlock(st, c)
          [] st.mode = "string" -> IF c = "'" THEN In("string?") ELSE st
          [] st.mode = "name"   -> IF c = "\"" THEN In("name?") ELSE st
          [] st.mode = "string?" /\ c = "'"  -> In("string")
          [] st.mode = "name?" /\ c = "\""   -> In("name")
          [] st.mode = "line?" /\ c = "-"    -> In("line")
          [] st.mode = "block?" /\ c = "*"   -> [st EXCEPT !.mode = "block", !.depth = 1]
          [] st.mode = "q?" /\ c = "'"       -> In("delimiter")
          [] st.mode \in {"q?", "word"} /\ c \in {"a", "q", "x", "KW", "1"} -> In("word")
          [] st.mode = "delimiter" ->
                [st EXCEPT !.mode = "q", !.ends = IF c = "[" THEN "]" ELSE IF c = "(" THEN ")" ELSE c]
          [] st.mode \in {"q", "q'?"} ->
                IF st.mode = "q'?" /\ c = "'" THEN In("code")
                ELSE In(IF c = st.ends THEN "q'?" ELSE "q")
          [] OTHER -> InCode(st, c)

Reading(s) == FoldLeft(Reads, Begun, s)

Ended(st) ==
    /\ st.mode \in {"code", "line", "word", "q?", "string?", "name?", "line?", "block?"}
    /\ st.open = <<>>

Hidden(st) == st.mode \in {"line", "block", "*?", "/?", "string", "delimiter", "q", "q'?"}

\* The scanners read the text as the reference does: they agree on whether it
\* is complete; a text that lex takes is complete; what a description shows is
\* neither literal nor comment (a hidden symbol may only end a line comment); a
\* complete first part of a text, up to a line, does not change how the rest is
\* read, so the parser may grow a statement line by line; and a text that may
\* end as a statement is not called truncated (framing.go, sql.go:233-418).
ReadAsWritten(s) ==
    LET complete == LexicallyComplete(s)
        taken == LexOk(s)
    IN  /\ complete <=> Ended(Reading(s))
        /\ taken => complete
        /\ taken =>
              \A part \in Range(Tokens(s)) : Shows(part) =>
                  \A i \in part.from..(part.next - 1) : ~ Hidden(Reading(SubSeq(s, 1, i)))
        /\ \A i \in DOMAIN s : s[i] = "nl" /\ LexicallyComplete(SubSeq(s, 1, i)) =>
              (complete <=> LexicallyComplete(SubSeq(s, i + 1, Len(s))))
        /\ taken /\ StatementMayEnd(s) => ~ HasTerminalEllipsis(s)
=============================================================================
