-------------------------- MODULE MonitoringReader --------------------------
(***************************************************************************)
(* monitoring.Reader (src/monitoring/reader.go): one Read takes a          *)
(* connection of the diagnostic pool, begins a transaction, refuses its    *)
(* own attachment, fixes the MON$ snapshot with the query that asks        *)
(* whether the target is visible, scans four collections, each bounded,    *)
(* and commits; every error path rolls back and gives the connection back. *)
(*                                                                         *)
(* The server is a sequence of moments.  A moment tells whether the target *)
(* attachment is there, and how many rows each collection has.  The first  *)
(* MON$ query of a transaction fixes the moment for the others.            *)
(***************************************************************************)
EXTENDS Naturals, Sequences, FiniteSets

CONSTANTS
    Watchers,       \* goroutines that call Read
    Attachments,    \* attachments of the diagnostic pool, and the target
    Target,         \* Scope.AttachmentID
    MaxRows,        \* Reader.maxRows
    Moments         \* what the server would show, one moment after the other

ASSUME MaxRowsAssumption == MaxRows \in Nat \ {0}

Collections == <<"statements", "calls", "compiled", "tables">>

\* How many rows each collection has.
Counts == [{Collections[i] : i \in 1..4} -> Nat]

ASSUME MomentsAssumption ==
    Moments # <<>> /\ Moments \in Seq([visible : BOOLEAN, all : Counts, one : Counts])

VARIABLES
    moment,         \* the server's moment, an index of Moments
    snap            \* [Watchers -> the Read each is in]

monVars == <<moment, snap>>

NoSnap == [pc |-> "idle", conn |-> {}, statement |-> FALSE, captured |-> 0, at |-> 0,
           rows |-> <<>>, truncated |-> FALSE, result |-> ""]

MonInit ==
    /\ moment = 1
    /\ snap = [w \in Watchers |-> NoSnap]

SetSnap(w, v) == snap' = [snap EXCEPT ![w] = v]

\* The server goes on.
Passes ==
    /\ moment < Len(Moments)
    /\ moment' = moment + 1
    /\ UNCHANGED snap

\* Read asks for one statement of the target, or for all.
Asks(w, statement) ==
    /\ snap[w].pc = "idle"
    /\ SetSnap(w, [NoSnap EXCEPT !.pc = "acquiring", !.statement = statement])
    /\ UNCHANGED moment

\* r.db.Conn: the pool hands out a connection, that of attachment a ...
Acquires(w, a) ==
    /\ snap[w].pc = "acquiring"
    /\ SetSnap(w, [snap[w] EXCEPT !.pc = "checking", !.conn = {a}])
    /\ UNCHANGED moment

\* Mutant: a Read that ends keeps its connection.
EndsHolding(s, result) == [s EXCEPT !.pc = "answered", !.result = result]

\* A Read ends, with its transaction finished and its connection given back.
Ends(s, result) == [s EXCEPT !.pc = "answered", !.conn = {}, !.result = result]

\* Any command may fail, and the context may end.
Failed(w) ==
    /\ snap[w].pc \in {"acquiring", "checking", "capturing", "fixing", "scanning", "committing"}
    /\ SetSnap(w, Ends(snap[w], "error"))
    /\ UNCHANGED moment

\* CURRENT_CONNECTION must not be the target.
Checks(w) ==
    /\ snap[w].pc = "checking"
    /\ SetSnap(w, IF snap[w].conn = {Target} THEN Ends(snap[w], "same attachment")
                  ELSE [snap[w] EXCEPT !.pc = "capturing"])
    /\ UNCHANGED moment

\* CapturedAt.
Captures(w) ==
    /\ snap[w].pc = "capturing"
    /\ SetSnap(w, [snap[w] EXCEPT !.pc = "fixing", !.captured = moment])
    /\ UNCHANGED moment

\* The visibility query fixes the snapshot.
Fixes(w) ==
    /\ snap[w].pc = "fixing"
    /\ SetSnap(w, IF Moments[moment].visible
                  THEN [snap[w] EXCEPT !.pc = "scanning", !.at = moment]
                  ELSE Ends([snap[w] EXCEPT !.at = moment], "target not visible"))
    /\ UNCHANGED moment

\* The rows of a query that asks for MaxRows + 1.
Asked(n) == IF n > MaxRows THEN MaxRows + 1 ELSE n

\* Mutant: each scan is a transaction of its own.
MomentNow(s) == moment

\* The moment a MON$ query of the transaction shows.
MomentOf(s) == s.at

Show(s, c) ==
    LET m == Moments[MomentOf(s)] IN IF s.statement THEN m.one[c] ELSE m.all[c]

\* scan leaves the loop at the sentinel and marks the snapshot.
Marked(s, n) == s.truncated \/ Asked(n) > MaxRows

\* One scan.  The first one also tells whether the statement is there.
Scans(w) ==
    /\ snap[w].pc = "scanning"
    /\ LET s == snap[w]
           c == Collections[Len(s.rows) + 1]
           n == Show(s, c)
           t == [s EXCEPT !.truncated = Marked(s, n),
                          !.rows = Append(@, IF n > MaxRows THEN MaxRows ELSE n)]
       IN  SetSnap(w, IF c = "statements" /\ s.statement /\ n = 0
                      THEN Ends(t, "statement not visible")
                      ELSE IF Len(t.rows) = Len(Collections)
                      THEN [t EXCEPT !.pc = "committing"] ELSE t)
    /\ UNCHANGED moment

CommitsSnap(w) ==
    /\ snap[w].pc = "committing"
    /\ SetSnap(w, Ends(snap[w], "ok"))
    /\ UNCHANGED moment

Reports(w) ==
    /\ snap[w].pc = "answered"
    /\ SetSnap(w, [NoSnap EXCEPT !.conn = snap[w].conn])
    /\ UNCHANGED moment

\* What a Read does after it has its connection.
Proceeds(w) ==
    \/ Checks(w) \/ Captures(w) \/ Fixes(w) \/ Scans(w) \/ CommitsSnap(w) \/ Reports(w)

-----------------------------------------------------------------------------
(* Properties. *)

Least(n) == IF n > MaxRows THEN MaxRows ELSE n

\* A snapshot is what the server showed at one moment, not before CapturedAt, of
\* a target that was visible then: no collection is of another moment, none has
\* more than MaxRows rows, and the snapshot says whether it lacks any
\* (docs/diagnostics.md:52-59, reader.go:179-197).
SnapshotIsOneMoment ==
    \A w \in Watchers : snap[w].pc = "answered" /\ snap[w].result = "ok" =>
       LET s == snap[w]
           m == Moments[s.at]
           shown == IF s.statement THEN m.one ELSE m.all
       IN  /\ s.captured <= s.at /\ m.visible
           /\ s.statement => shown["statements"] > 0
           /\ s.rows = [i \in 1..4 |-> Least(shown[Collections[i]])]
           /\ s.truncated <=> \E i \in 1..4 : shown[Collections[i]] > MaxRows
=============================================================================
