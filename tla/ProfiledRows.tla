---------------------------- MODULE ProfiledRows ----------------------------
(***************************************************************************)
(* Calls of the instrumented connection with a profiler, and the rows they *)
(* open (src/client.go, src/profile_scope.go, src/rows.go): what the calls *)
(* that share a connection make of its profiler sessions, and of the       *)
(* outcome of their rows.                                                  *)
(*                                                                         *)
(* database/sql leases a connection to one call, or to one transaction and *)
(* all its calls; it runs one driver call at a time on a connection, and   *)
(* the rows' Close, with all it waits for, is one driver call.  It asks    *)
(* IsValid when a lease ends and replaces a connection that is not valid.  *)
(***************************************************************************)
EXTENDS ProfilerSession, Rows

CONSTANTS
    Ops,            \* calls of the application
    Configs,        \* configurations: Config.Profiler.Enabled, Config.Client.Rows,
                    \* and whether the driver's connections have an IsValid
    MaxCancels      \* bound of the model: contexts cancelled at a time

ASSUME NamesAssumption == Ops \cap Connections = {}
ASSUME ConfigsAssumption == Configs \subseteq [profiler : BOOLEAN, rows : BOOLEAN, validator : BOOLEAN]

VARIABLES
    config,         \* the configuration of the driver
    op,             \* [Ops -> the state of the call]
    rows,           \* [Ops -> rowsState]
    tx,             \* [Connections -> "none", "open", "ended"]: its transaction
    cancelled       \* contexts that are done: of calls, and of transactions (by connection)

vars == <<config, op, rows, tx, cancelled, profilerVars>>

Stages == {"finishing", "cancelling", "reporting", "deleting"}

OpState ==
    [pc      : {"idle", "rows", "returning", "done"} \cup Stages,
     conn    : Connections,
     tx      : BOOLEAN,
     start   : {"none"} \cup Outcomes,             \* of START_SESSION
     finish  : {"none"} \cup Outcomes,             \* history: of FINISH_SESSION
     session : {NoSession} \cup Sessions,          \* operation.profile
     measured: BOOLEAN,                            \* has the server executed it?
     attempt : 1..MaxAttempts]                     \* of delete

NewOp ==
    [pc |-> "idle", conn |-> CHOOSE c \in Connections : TRUE, tx |-> FALSE,
     start |-> "none", finish |-> "none", session |-> NoSession, measured |-> FALSE, attempt |-> 1]

Init ==
    /\ config \in Configs
    /\ ProfilerInit
    /\ op = [o \in Ops |-> NewOp]
    /\ rows = [o \in Ops |-> NoRows]
    /\ tx = [c \in Connections |-> "none"]
    /\ cancelled = {}

-----------------------------------------------------------------------------
(* database/sql: leases and the lock of a connection. *)

On(c) == {o \in Ops : op[o].pc \notin {"idle", "done"} /\ op[o].conn = c}

\* Is no driver call running on c?
Unlocked(c) == \A o \in On(c) : op[o].pc \notin Stages /\ rows[o].pc # "checking"

Free(c) == tx[c] # "open" /\ On(c) = {}

\* Mutant: IsValid asks only the driver.
ValidForDriver(d) == TRUE

\* connState.IsValid, the driver's own answer being yes.  wrapConn shows it only
\* if the driver's connection has one; database/sql takes any other for valid.
IsValid(d) == config.validator => ~ d

\* The lease of c ends.
GivenBack(c) ==
    /\ attachment' = [attachment EXCEPT ![c] = IF IsValid(dirty[c]) THEN @ ELSE NewAttachment]
    /\ dirty' = [dirty EXCEPT ![c] = @ /\ IsValid(@)]
    /\ UNCHANGED <<stored, started, work, troubled, failures>>

Begin(c) ==
    /\ Free(c) /\ tx[c] = "none"
    /\ tx' = [tx EXCEPT ![c] = "open"]
    /\ UNCHANGED <<config, op, rows, cancelled, profilerVars>>

\* Commit and Rollback: database/sql closes the rows first.
EndTx(c) ==
    /\ tx[c] = "open" /\ On(c) = {}
    /\ tx' = [tx EXCEPT ![c] = "ended"]
    /\ GivenBack(c)
    /\ UNCHANGED <<config, op, rows, cancelled>>

\* The call is over; its rows, its session and its context are forgotten.
Return(o) ==
    /\ op[o].pc = "returning"
    /\ op' = [op EXCEPT ![o] = [NewOp EXCEPT !.pc = "done", !.conn = op[o].conn,
                                              !.tx = op[o].tx, !.start = op[o].start,
                                              !.finish = op[o].finish]]
    /\ rows' = [rows EXCEPT ![o] = NoRows]
    /\ cancelled' = cancelled \ {o}
    /\ IF op[o].tx THEN UNCHANGED profilerVars ELSE GivenBack(op[o].conn)
    /\ UNCHANGED <<config, tx>>

-----------------------------------------------------------------------------
(* One driver call that executes a statement. *)

Results == {"result", "rows", "skip", "error"}

\* Commands of one call: START_SESSION is answered so, the CANCEL_SESSION of its
\* cleanup co, and that of a statement answered with ErrSkip xo.
Troubles(profiled, result, so, co, xo) ==
    IF ~ profiled THEN 0
    ELSE Failed(so) + (IF so # "ok" THEN Failed(co) ELSE IF result = "skip" THEN Failed(xo) ELSE 0)

Relevant(profiled, result, so, co, xo) ==
    /\ ~ profiled => so = "ok"
    /\ ~ (profiled /\ so # "ok") => co = "ok"
    /\ ~ (profiled /\ so = "ok" /\ result = "skip") => xo = "ok"

AfterCall(o, c, inTx, profiled, result, so, co, xo) ==
    LET s       == started + 1
        executed == result \in {"result", "rows"}
        begun   == IF profiled THEN Started(attachment[c], s, so, co) ELSE attachment[c]
        holds   == profiled /\ so = "ok"
        skipped == holds /\ result = "skip"
        fails   == Troubles(profiled, result, so, co, xo)
    IN  /\ profiled => s \in Sessions
        /\ Fail(fails)
        /\ started' = IF profiled THEN s ELSE started
        /\ work' = IF executed THEN Measured(work, begun, o) ELSE work
        /\ attachment' = [attachment EXCEPT ![c] = IF skipped THEN Cancelled(begun, xo) ELSE begun]
        /\ dirty' = [dirty EXCEPT ![c] = IF profiled THEN DirtyByStart(@, so) \/ xo # "ok" ELSE @]
        /\ troubled' = IF fails > 0 THEN troubled \cup {s} ELSE troubled
        /\ UNCHANGED stored
        /\ op' = [op EXCEPT ![o] =
              [@ EXCEPT !.conn = c, !.tx = inTx, !.measured = executed,
                        !.start = IF profiled THEN so ELSE "none",
                        !.session = IF holds /\ ~ skipped THEN s ELSE NoSession,
                        !.pc = IF result = "rows" THEN "rows"
                               ELSE IF holds /\ ~ skipped THEN "finishing" ELSE "returning"]]

\* Exec and Query, of the connection or of a statement.  profileStart profiles a
\* call with a sampled parent and a context that is not cancelled yet.  The server executes the
\* statements that have a result or rows.
Call(o, c, inTx, profiled, result) ==
    /\ profiled => config.profiler
    /\ op[o].pc = "idle"
    /\ IF inTx THEN tx[c] = "open" /\ Unlocked(c) ELSE Free(c)
    /\ \E so, co, xo \in Outcomes :
          /\ Relevant(profiled, result, so, co, xo)
          /\ AfterCall(o, c, inTx, profiled, result, so, co, xo)
    /\ IF result = "rows"
       THEN rows' = [rows EXCEPT ![o] = Opened(config.rows, inTx)]
       ELSE UNCHANGED rows
    /\ UNCHANGED <<config, tx, cancelled>>

-----------------------------------------------------------------------------
(* The rows. *)

\* The causes for which the rows of o may have been cancelled.
Causing(o) ==
    (IF o \in cancelled THEN {"query"} ELSE {}) \cup
    (IF op[o].conn \in cancelled THEN {"transaction"} ELSE {})

\* A context is cancelled: the model cancels those that some rows may watch.
Cancel(x) ==
    /\ Cardinality(cancelled) < MaxCancels
    /\ x \notin cancelled
    /\ x \in Connections => tx[x] = "open" /\ \E o \in On(x) : rows[o].pc \in {"open", "checking"}
    /\ x \in Ops => rows[x].pc \in {"open", "checking"}
    /\ config.rows
    /\ cancelled' = cancelled \cup {x}
    /\ UNCHANGED <<config, op, rows, tx, profilerVars>>

\* The callback of one context runs.
Signal(o, k) ==
    /\ rows[o].signal[k] = "armed"
    /\ k \in Causing(o)
    /\ rows' = [rows EXCEPT ![o] = Callback(@, k)]
    /\ UNCHANGED <<config, op, tx, cancelled, profilerVars>>

MayFetch(o) ==
    /\ rows[o].pc = "open" /\ ~ rows[o].eof /\ rows[o].nextErr = "none"
    /\ Unlocked(op[o].conn)

\* A fetch is work the server measures like any other.
FetchRow(o, answer) ==
    /\ MayFetch(o)
    /\ rows' = [rows EXCEPT ![o] = Fetched(@, answer)]
    /\ work' = Measured(work, attachment[op[o].conn], o)
    /\ UNCHANGED <<config, op, tx, cancelled, attachment, stored, started, dirty, troubled, failures>>

NextResultSet(o, answer) ==
    /\ MayFetch(o)
    /\ rows' = [rows EXCEPT ![o] = Fetched(@, answer)]
    /\ UNCHANGED <<config, op, tx, cancelled, profilerVars>>

\* The application closes the rows, or database/sql does: at their end, or when
\* a context is cancelled or the transaction ends.
Close(o, closeErr) ==
    /\ rows[o].pc = "open"
    /\ Unlocked(op[o].conn)
    /\ rows' = [rows EXCEPT ![o] = CloseBegun(@, closeErr, Causing(o))]
    /\ UNCHANGED <<config, op, tx, cancelled, profilerVars>>

CloseChecks(o) ==
    /\ rows[o].pc = "checking" /\ rows[o].check <= 2
    /\ LET k == CauseAt[rows[o].check]
       IN  /\ MustWait(rows[o], k, Causing(o)) => rows[o].signal[k] = "sent"
           /\ rows' = [rows EXCEPT ![o] = Checked(@, k, Causing(o))]
    /\ UNCHANGED <<config, op, tx, cancelled, profilerVars>>

CloseEnds(o) ==
    /\ rows[o].pc = "checking" /\ rows[o].check = 3
    /\ rows' = [rows EXCEPT ![o] = Closed(@)]
    /\ op' = [op EXCEPT ![o].pc = IF op[o].session = NoSession THEN "returning" ELSE "finishing"]
    /\ UNCHANGED <<config, tx, cancelled, profilerVars>>

-----------------------------------------------------------------------------
(* The stages of Session.Finish, inside the driver call. *)

Stage(o, pc, step) ==
    /\ op[o].pc = pc
    /\ op' = [op EXCEPT ![o] = step]
    /\ UNCHANGED <<config, rows, tx, cancelled>>

To(o, pc) == [op[o] EXCEPT !.pc = pc]

FinishStage(o) ==
    \E r \in Outcomes :
       /\ Stage(o, "finishing", [To(o, IF r = "ok" THEN "reporting" ELSE "cancelling") EXCEPT !.finish = r])
       /\ Finish(op[o].conn, op[o].session, r)

CancelStage(o) ==
    \E r \in Outcomes :
       Stage(o, "cancelling", To(o, "deleting")) /\ CancelUnfinished(op[o].conn, r)

ReportStage(o) ==
    \E r \in {"ok", "refused"} :
       Stage(o, "reporting", To(o, "deleting")) /\ Report(op[o].session, r)

DeleteStage(o) ==
    \E r \in Attempts :
       \/ /\ Stage(o, "deleting", [op[o] EXCEPT !.attempt = @ + 1])
          /\ DeleteAgain(op[o].session, op[o].attempt, r)
       \/ /\ Stage(o, "deleting", [op[o] EXCEPT !.pc = "returning", !.attempt = 1])
          /\ DeleteLast(op[o].conn, op[o].session, op[o].attempt, r)

-----------------------------------------------------------------------------

\* The sessions whose operation has still to finish them.
Held == {op[o].session : o \in {x \in Ops : op[x].pc \notin {"returning", "done"}}}

\* CleanupStale, called often enough that no operation in progress has a profile
\* that is old.
Sweep == \E removed \in SUBSET (stored \ Held) : CleanupStale(removed) /\ UNCHANGED <<config, op, rows, tx, cancelled>>

\* What the goroutine inside Close or Finish does next; one step at a time is enabled.
Completing(o) ==
    \/ CloseChecks(o) \/ CloseEnds(o)
    \/ FinishStage(o) \/ CancelStage(o) \/ ReportStage(o) \/ DeleteStage(o)

Next ==
    \/ \E c \in Connections : Begin(c) \/ EndTx(c)
    \/ \E o \in Ops, c \in Connections, inTx, profiled \in BOOLEAN, result \in Results :
          Call(o, c, inTx, profiled, result)
    \/ \E x \in Ops \cup Connections : Cancel(x)
    \/ \E o \in Ops :
          \/ Return(o) \/ Completing(o)
          \/ \E k \in Causes : Signal(o, k)
          \/ \E answer \in {"row", "set", "end", "error"} : FetchRow(o, answer)
          \/ \E answer \in {"set", "end", "error"} : NextResultSet(o, answer)
          \/ \E e \in {"none", "error"} : Close(o, e)
    \/ Sweep

Spec == Init /\ [][Next]_vars

\* The runtime runs the callback of a cancelled context, and the goroutine that
\* is inside a driver call goes on: every command has its own deadline.
Fairness ==
    \A o \in Ops :
       /\ \A k \in Causes : WF_vars(Signal(o, k))
       /\ WF_vars(Completing(o))

FairSpec == Spec /\ Fairness
-----------------------------------------------------------------------------
(* Properties. *)

\* Types of the variables.
TypeOK ==
    /\ config \in Configs
    /\ op \in [Ops -> OpState]
    /\ rows \in [Ops -> RowsState]
    /\ tx \in [Connections -> {"none", "open", "ended"}]
    /\ cancelled \subseteq Ops \cup Connections
    /\ ProfilerTypeOK

\* A connection the pool may hand to the next caller has no profiler session,
\* neither a current one nor one that waits to be stored: the next caller's
\* work is never measured in a session of an earlier lease (client.go:132,
\* profile_scope.go:20-39).  Only a driver whose connections have an IsValid lets
\* the pool ask.
ReusableIsClean ==
    config.validator => \A c \in Connections : Free(c) => attachment[c] = NewAttachment

\* What stays in the profiler's tables after its operation is a session of
\* which some command failed, which is what CleanupStale is for
\* (runtime.go:196-283).
NothingLeftStored == stored \subseteq Held \cup troubled

\* The calls that share a lease of a connection with o.
Lease(o) == IF op[o].tx THEN <<"transaction", op[o].conn>> ELSE <<"call", o>>

\* No other call of o's lease had a START_SESSION or FINISH_SESSION refused.
Undisturbed(o) ==
    \A q \in Ops \ {o} : Lease(q) = Lease(o) => "refused" \notin {op[q].start, op[q].finish}

\* The profile of a call the server executed is there to be read: when report has
\* read it without an error, and delete is about to remove it, the session is
\* stored and the call is in it: "every eligible SQL call in a sampled trace is
\* profiled" (profile_scope.go:9).  The exception is a lease in which another
\* call's START_SESSION or FINISH_SESSION was not executed: its CANCEL_SESSION
\* forgets whatever session is current (runtime.go:183-186 and 215-226).
ProfileHasItsCall ==
    \A o \in Ops :
       /\ op[o].pc = "deleting" /\ op[o].attempt = 1 /\ op[o].measured
       /\ op[o].session \notin troubled
       /\ Undisturbed(o)
       => op[o].session \in stored /\ o \in work[op[o].session]

\* The outcome of a consumption span is what happened to the rows: an error if
\* any was seen, canceled if a context of the query was done when Close began
\* and the end was not seen, the end only if it was seen (rows.go:128-175).
OutcomeIsTrue ==
    \A o \in Ops :
       LET r == rows[o]
       IN  r.outcome # "" =>
           /\ r.outcome = "eof" <=> r.eof /\ r.nextErr = "none" /\ r.closeErr = "none"
           /\ r.nextErr # "none" => r.outcome = r.nextErr
           /\ r.nextErr = "none" /\ ~ r.eof /\ r.due # {} => r.outcome = "canceled"
           /\ r.outcome = "canceled" => Causing(o) # {}
           /\ r.outcome = "transaction_close_unknown" => op[o].tx

\* A call that is inside the driver comes out of it: Close does not wait for an
\* error nobody sends, and the stages of the profile end (rows.go:139-150).
CallsReturn ==
    \A o \in Ops :
       (rows[o].pc = "checking" \/ op[o].pc \in Stages) ~> op[o].pc \in {"returning", "done"}
=============================================================================
