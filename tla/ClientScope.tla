----------------------------- MODULE ClientScope -----------------------------
(***************************************************************************)
(* The instrumented connection and its statements (src/client.go,          *)
(* src/server_scope.go, src/profile_scope.go, and finish in                *)
(* src/telemetry.go): how an operation of a caller gets a scope token, who *)
(* holds the token while the operation runs, and when the token is bound   *)
(* to the client span or discarded.                                        *)
(*                                                                         *)
(* Goroutines share a connection the way database/sql lets them: one       *)
(* driver call at a time.  A direct call may answer ErrSkip; database/sql  *)
(* then prepares the statement and runs it, in calls of their own, and     *)
(* another goroutine of the same transaction may call in between.          *)
(*                                                                         *)
(* A driver call is two steps, so that the consumer may see the marker and *)
(* the work on the server before the client span exists: the step that     *)
(* talks to the server, and the return.                                    *)
(***************************************************************************)
EXTENDS TraceStream

CONSTANTS
    Callers,        \* goroutines that use database/sql
    Connections,    \* driver connections; the number is the attachment
    Transactions,   \* transaction numbers
    Queries,        \* SQL texts
    MaxOps,         \* bound of the model: operations ever begun
    MaxLag,         \* bound of the model: events unread when a call begins
    Skips,          \* does the driver ever answer ErrSkip?
    Unmarked,       \* are operations ever filtered or unsampled?
    Failures,       \* do markers and operations ever fail?
    Profiled,       \* is the profiler on?
    Routines,       \* does every operation call a procedure?
    Shared          \* may several callers use one connection?

ASSUME MaxOpsAssumption == MaxOps \in Nat
ASSUME OpsAreSpans == 1..MaxOps \subseteq Spans
ASSUME CallersAssumption == IsFiniteSet(Callers)

\* The bounds fit: a direct call and the statement that repeats it register at
\* most one token each.
ASSUME TokensSuffice == 2 * MaxOps <= MaxTokens

VARIABLES
    connection,     \* [Connections -> the scope fields of connState]
    caller,         \* [Callers -> what the goroutine is doing]
    ops,            \* operations begun so far
    clientSpans     \* operations whose client span was recorded without error

clientVars == <<connection, caller, ops, clientSpans>>

NoOp == 0

\* serverRows, serverToken, fallbackToken and fallbackQuery of connState; tokens
\* NoToken are empty strings.
NewConnection == [rows |-> 0, token |-> NoToken, fallback |-> NoToken, query |-> NoToken]

(* pc of a caller: "idle"; "calling": in a driver call on its connection,    *)
(* result tells what the driver answered; "skipped": got ErrSkip from a      *)
(* direct call; "prepared": has a statement; "rows": has open rows.          *)
Idle == [pc |-> "idle", op |-> NoOp, conn |-> 0, tra |-> 0, method |-> "exec",
         query |-> NoToken, mode |-> "traced", token |-> NoToken, held |-> NoToken,
         result |-> "ok", cursor |-> FALSE]

ClientInit ==
    /\ connection = [c \in Connections |-> NewConnection]
    /\ caller = [g \in Callers |-> Idle]
    /\ ops = 0
    /\ clientSpans = {}

\* database/sql holds the lock of a connection during a driver call.
Free(c) == \A g \in Callers : caller[g].pc = "calling" => caller[g].conn # c

\* Callers share a connection inside a transaction or a sql.Conn; otherwise the
\* pool keeps them apart, and caller c uses connection c.
MayUse(g, c) == Shared \/ g = c

\* Modes of an operation: "traced", "unsampled" (the incoming parent is not
\* sampled), "disabled" (the filter of the configuration rejects it).
Modes == IF Unmarked THEN {"traced", "unsampled", "disabled"} ELSE {"traced"}

-----------------------------------------------------------------------------
(* What a call writes on the server. *)

Statement(n) == [kind |-> "statement", name |-> NoStatement, statement |-> n]

Procedure == [kind |-> "procedure", name |-> "routine", statement |-> NoStatement]

Whole(key, activity, token, owner) ==
    <<Record("start", key, activity, token, owner), Record("finish", key, activity, token, owner)>>

MarkerRecords(job, t) == Whole(<<job.conn, job.tra>>, Statement(<<"marker", t>>), t, NoOwner)

\* START_SESSION, FINISH_SESSION and CANCEL_SESSION run on the same attachment,
\* outside any scope.
ProfilerRecords(job, command) ==
    IF Profiled /\ job.mode = "traced"
    THEN Whole(<<job.conn, job.tra>>, Statement(<<command, job.op>>), NoToken, NoOwner)
    ELSE <<>>

\* The operation's own statement, and the procedure it calls.
Work(job, phase) ==
    LET key      == <<job.conn, job.tra>>
        own      == Record(phase, key, Statement(<<"work", job.op>>), NoToken, job.op)
        routine  == Record(phase, key, Procedure, NoToken, job.op)
    IN  CASE ~ Routines                    -> <<own>>
          [] Routines /\ phase = "start"  -> <<own, routine>>
          [] Routines /\ phase = "finish" -> <<routine, own>>

\* A query leaves its cursor open, a failed statement is reported by an event
\* the parser does not know; ErrSkip and errors found by the client never reach
\* the server.
WorkRecords(job, result) ==
    CASE result = "ok" /\ job.method = "exec"  -> Work(job, "start") \o Work(job, "finish")
      [] result = "ok" /\ job.method = "query" -> Work(job, "start")
      [] result = "failed"                     -> Work(job, "start") \o <<DamagedRecord>>
      [] OTHER                                 -> <<>>

Results(direct) ==
    {"ok"} \cup (IF Failures THEN {"failed", "refused"} ELSE {})
           \cup (IF direct /\ Skips THEN {"skip"} ELSE {})

-----------------------------------------------------------------------------
(* connState.serverScope, as a function of the registry and the fields. *)

\* Mutant: open rows are not noticed.
NeverOverlaps(cn) == FALSE

\* Other rows of the connection are open: the operation overlaps a cursor.
Overlaps(cn) == cn.rows > 0

\* Does Register, called for this mode, return a token?
Admits(r, mode) == mode = "traced" /\ running /\ ~ Full(Purged(r))

Unregistered(r, mode) == IF mode = "traced" /\ running THEN Purged(r) ELSE r

\* markerOk: the marker query succeeded.  The token is registered first and
\* discarded if it did not.
ServerScope(cn, mode, markerOk) ==
    LET emptied == [cn EXCEPT !.fallback = NoToken]
        kept    == Without(registrations, {cn.fallback})
        t       == issued + 1
    IN  IF Overlaps(cn) THEN
            [registrations |-> Without(registrations, {cn.fallback, cn.token}),
             issued |-> issued, token |-> NoToken, connection |-> emptied]
        ELSE IF ~ Admits(kept, mode) THEN
            [registrations |-> Unregistered(kept, mode),
             issued |-> issued, token |-> NoToken, connection |-> emptied]
        ELSE IF ~ markerOk THEN
            [registrations |-> Purged(kept),
             issued |-> t, token |-> NoToken, connection |-> emptied]
        ELSE
            [registrations |-> With(Purged(kept), t, [NewScope EXCEPT !.marked = TRUE]),
             issued |-> t, token |-> t, connection |-> [emptied EXCEPT !.token = t]]

\* What the marker of a call left on the server.  A marker that failed may have
\* been refused, may have failed there, or may have run all the same.
MarkersWritten(job, scope, markerOk) ==
    LET marker == MarkerRecords(job, scope.issued)
    IN  IF scope.issued = issued THEN {<<>>}
        ELSE IF markerOk THEN {marker}
        ELSE {<<>>, marker, <<marker[1], DamagedRecord>>}

\* stmtState.serverScope: a token kept from the skipped direct call is used as
\* it is, without another look at the connection.
StatementScope(job, cn, markerOk) ==
    IF job.held = NoToken THEN ServerScope(cn, job.mode, markerOk)
    ELSE [registrations |-> IF job.mode = "disabled" THEN Without(registrations, {job.held})
                            ELSE registrations,
          issued |-> issued,
          token |-> IF job.mode = "disabled" THEN NoToken ELSE job.held,
          connection |-> cn]

\* preserveFallbackToken, for a direct call that got ErrSkip.
Preserved(scope, q) ==
    IF scope.token = NoToken THEN scope
    ELSE [scope EXCEPT !.connection.fallback = scope.token, !.connection.query = q,
                       !.token = NoToken]

NewJob(c, tra, method, q, mode) ==
    [Idle EXCEPT !.op = ops + 1, !.conn = c, !.tra = tra, !.method = method,
                 !.query = q, !.mode = mode]

-----------------------------------------------------------------------------
\* What a call submits: the marker immediately before the operation's statement.
Submitted(job, marker, result) ==
    ProfilerRecords(job, "start") \o marker \o WorkRecords(job, result)

\* What both kinds of call do on the connection: the profiler session, the
\* scope, the driver's own call.  scope is what serverScope computed.
Submit(g, job, scope, result, markerOk) ==
    \E marker \in MarkersWritten(job, scope, markerOk) :
        /\ Free(job.conn)
        /\ Len(stream) <= MaxLag
        /\ ~ markerOk => Failures /\ scope.issued > issued
        /\ Write(Submitted(job, marker, result))
        /\ registrations' = scope.registrations
        /\ issued' = scope.issued
        /\ connection' = [connection EXCEPT ![job.conn] = scope.connection]
        /\ caller' = [caller EXCEPT ![g] =
              [job EXCEPT !.pc = "calling", !.token = scope.token, !.held = NoToken,
                          !.result = result]]
        /\ UNCHANGED <<running, stopping, consumer, clientSpans>>

\* ExecContext and QueryContext of connState (Exec and Query alike), up to the
\* driver's answer.
DirectCall(g, c, tra, method, q, mode) ==
    \E result \in Results(TRUE), markerOk \in BOOLEAN :
        LET scope == ServerScope(connection[c], mode, markerOk)
        IN  /\ caller[g].pc = "idle"
            /\ MayUse(g, c)
            /\ ops < MaxOps
            /\ ops' = ops + 1
            /\ Submit(g, NewJob(c, tra, method, q, mode),
                      IF result = "skip" THEN Preserved(scope, q) ELSE scope, result, markerOk)

\* Exec and Query of stmtState, on a statement that was prepared before.  The
\* filter is asked again and may answer differently.
StatementCall(g) ==
    \E result \in Results(FALSE), markerOk \in BOOLEAN,
       mode \in {caller[g].mode} \cup (Modes \cap {"disabled"}) :
        LET job == [caller[g] EXCEPT !.mode = mode]
        IN  /\ job.pc = "prepared"
            /\ Submit(g, job, StatementScope(job, connection[job.conn], markerOk), result, markerOk)
            /\ UNCHANGED ops

\* Mutant: the scope of a failed operation is bound as well.
FinishedAlwaysBinds(job, recorded) ==
    IF job.token # NoToken THEN Bound(registrations, job.token, job.op) ELSE registrations

\* finish: the token is bound to the client span if the operation succeeded
\* and its span is recorded, and discarded otherwise.  recorded is the sampling
\* decision taken when the span starts.
Finished(job, recorded) ==
    IF job.token = NoToken THEN registrations
    ELSE IF job.result = "ok" /\ recorded THEN Bound(registrations, job.token, job.op)
    ELSE Without(registrations, {job.token})

Recorded(job) ==
    CASE job.mode = "traced"    -> IF Unmarked THEN BOOLEAN ELSE {TRUE}
      [] job.mode = "unsampled" -> {FALSE}
      [] job.mode = "disabled"  -> {FALSE}

\* The driver call returns.  Rows count as open from here on (queryResult);
\* the profiler session of an exec, and of every failed call, is closed after
\* the client span ended, that of a skipped call is cancelled.
Return(g) ==
    \E recorded \in Recorded(caller[g]) :
        LET job   == caller[g]
            c     == job.conn
            opens == job.method = "query" /\ job.result = "ok"
        IN  /\ job.pc = "calling"
            /\ registrations' = Finished(job, recorded)
            /\ connection' = IF opens THEN [connection EXCEPT ![c].rows = @ + 1] ELSE connection
            /\ Write(IF opens THEN <<>>
                     ELSE ProfilerRecords(job, IF job.result = "skip" THEN "cancel" ELSE "finish"))
            /\ caller' = [caller EXCEPT ![g] =
                  CASE opens               -> [job EXCEPT !.pc = "rows", !.token = NoToken, !.cursor = TRUE]
                    [] job.result = "skip" -> [job EXCEPT !.pc = "skipped", !.result = "ok"]
                    [] OTHER               -> Idle]
            /\ clientSpans' = IF job.result = "ok" /\ recorded
                              THEN clientSpans \cup {job.op} ELSE clientSpans
            /\ UNCHANGED <<issued, running, stopping, consumer, ops>>

\* takeFallbackToken: the token left by a skipped call goes to the statement
\* of the same text, and is discarded by any other.
Take(cn, q) == IF cn.fallback # NoToken /\ cn.query = q THEN cn.fallback ELSE NoToken

\* Mutant: the statement takes the token and the connection keeps it.
EmptiedQueryOnly(cn) == [cn EXCEPT !.query = NoToken]

Emptied(cn) == [cn EXCEPT !.fallback = NoToken, !.query = NoToken]

\* prepare succeeded, for the statement database/sql retries with.
Prepare(g) ==
    LET job == caller[g]
        cn  == connection[job.conn]
    IN  /\ job.pc = "skipped"
        /\ Free(job.conn)
        /\ registrations' = Without(registrations, {cn.fallback} \ {Take(cn, job.query)})
        /\ connection' = [connection EXCEPT ![job.conn] = Emptied(cn)]
        /\ caller' = [caller EXCEPT ![g].pc = "prepared", ![g].held = Take(cn, job.query)]
        /\ UNCHANGED <<issued, running, stopping, consumer, streamVars, ops, clientSpans>>

\* A caller prepares a statement of its own and will run it later.
PrepareFirst(g, c, tra, method, q, mode) ==
    LET cn == connection[c]
    IN  /\ caller[g].pc = "idle"
        /\ MayUse(g, c)
        /\ ops < MaxOps
        /\ Free(c)
        /\ registrations' = Without(registrations, {cn.fallback} \ {Take(cn, q)})
        /\ connection' = [connection EXCEPT ![c] = Emptied(cn)]
        /\ caller' = [caller EXCEPT ![g] = [NewJob(c, tra, method, q, mode) EXCEPT
                                               !.pc = "prepared", !.held = Take(cn, q)]]
        /\ ops' = ops + 1
        /\ UNCHANGED <<issued, running, stopping, consumer, streamVars, clientSpans>>

\* prepare failed: discardFallbackToken.
PrepareFails(g) ==
    LET job == caller[g]
        cn  == connection[job.conn]
    IN  /\ Failures
        /\ job.pc = "skipped"
        /\ Free(job.conn)
        /\ registrations' = Without(registrations, {cn.fallback})
        /\ connection' = [connection EXCEPT ![job.conn] = Emptied(cn)]
        /\ caller' = [caller EXCEPT ![g] = Idle]
        /\ UNCHANGED <<issued, running, stopping, consumer, streamVars, ops, clientSpans>>

\* The context ends after the skipped call: nobody prepares, and the token
\* stays with the connection until its next use.
GiveUpSkipped(g) ==
    /\ Failures
    /\ caller[g].pc = "skipped"
    /\ caller' = [caller EXCEPT ![g] = Idle]
    /\ UNCHANGED <<regVars, streamVars, connection, ops, clientSpans>>

\* stmtState.Close of a statement that was never run: discardServerToken.
CloseStatement(g) ==
    /\ Failures
    /\ caller[g].pc = "prepared"
    /\ Free(caller[g].conn)
    /\ registrations' = Without(registrations, {caller[g].held})
    /\ caller' = [caller EXCEPT ![g] = Idle]
    /\ UNCHANGED <<issued, running, stopping, consumer, streamVars, connection, ops, clientSpans>>

\* The server reaches the end of a cursor before the client closes the rows.
CursorEnds(g) ==
    LET job == caller[g]
    IN  /\ job.pc = "rows"
        /\ job.cursor
        /\ Free(job.conn)
        /\ Write(Work(job, "finish"))
        /\ caller' = [caller EXCEPT ![g].cursor = FALSE]
        /\ UNCHANGED <<regVars, connection, ops, clientSpans>>

\* Mutant: the release of queryResult runs twice.
ReleasedTwice(cn) == [cn EXCEPT !.rows = @ - 2]

\* The release of queryResult, once per cursor.
Released(cn) == [cn EXCEPT !.rows = @ - 1]

\* rowsState.Close, with the release of queryResult and the profiler's end.
CloseRows(g) ==
    LET job == caller[g]
    IN  /\ job.pc = "rows"
        /\ Free(job.conn)
        /\ Write((IF job.cursor THEN Work(job, "finish") ELSE <<>>)
                 \o ProfilerRecords(job, "finish"))
        /\ connection' = [connection EXCEPT ![job.conn] = Released(@)]
        /\ caller' = [caller EXCEPT ![g] = Idle]
        /\ UNCHANGED <<regVars, ops, clientSpans>>

\* connState.Close of a connection the pool gives up, and the fresh connection
\* that takes its place.
CloseConnection(c) ==
    /\ connection[c].fallback # NoToken
    /\ \A g \in Callers : caller[g].conn # c
    /\ registrations' = Without(registrations, {connection[c].fallback})
    /\ connection' = [connection EXCEPT ![c] = NewConnection]
    /\ UNCHANGED <<issued, running, stopping, consumer, streamVars, caller, ops, clientSpans>>

ClientStep(g) ==
    \/ \E c \in Connections, tra \in Transactions, method \in {"exec", "query"},
          q \in Queries, mode \in Modes :
          \/ DirectCall(g, c, tra, method, q, mode)
          \/ PrepareFirst(g, c, tra, method, q, mode)
    \/ StatementCall(g)
    \/ Return(g)
    \/ Prepare(g)
    \/ PrepareFails(g)
    \/ GiveUpSkipped(g)
    \/ CloseStatement(g)
    \/ CursorEnds(g)
    \/ CloseRows(g)
=============================================================================
