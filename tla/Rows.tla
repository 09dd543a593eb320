-------------------------------- MODULE Rows --------------------------------
(***************************************************************************)
(* The instrumented rows of a query (src/rows.go): what Next, the result   *)
(* sets, Close and the cancellation callbacks of two contexts, that of the *)
(* query and that of its transaction, leave in one rowsState.              *)
(*                                                                         *)
(* A context that is cancelled first closes its Done channel; the callback *)
(* registered with context.AfterFunc runs later, in its own goroutine, and *)
(* sends the error.  Close looks at Done, waits for the error, and stops   *)
(* the callback, in that order, for each of the two contexts.              *)
(*                                                                         *)
(* The operators take and give the state of one rowsState; ProfiledRows    *)
(* composes them with the callers, the contexts and the connection.        *)
(***************************************************************************)
EXTENDS Naturals

Causes == {"query", "transaction"}       \* the two entries of cancellations
CauseAt == <<"query", "transaction">>

\* A cancellation entry: absent or stopped, registered, or its error sent.
Signals == {"absent", "armed", "sent"}

Errors == {"none", "error", "canceled"}

RowsState ==
    [pc       : {"none", "open", "checking", "closed"},
     span     : BOOLEAN,                 \* is there a consumption span?
     tx       : BOOLEAN,                 \* inTransaction
     eof      : BOOLEAN,
     nextErr  : Errors,
     closeErr : Errors,
     signal   : [Causes -> Signals],     \* cancellations
     observed : Errors,                  \* Close's local variable
     check    : 1..3,                    \* the entry Close looks at
     due      : SUBSET Causes,           \* history: the contexts done when Close began
     outcome  : {"", "eof", "early_close", "transaction_close_unknown", "error", "canceled"}]

NoRows ==
    [pc |-> "none", span |-> FALSE, tx |-> FALSE, eof |-> FALSE, nextErr |-> "none", closeErr |-> "none",
     signal |-> [k \in Causes |-> "absent"], observed |-> "none", check |-> 1,
     due |-> {}, outcome |-> ""]

\* queryResultWithClose: a recorded query subscribes to its own context, and to
\* that of the transaction it runs in.
Opened(span, tx) ==
    [NoRows EXCEPT !.pc = "open", !.span = span, !.tx = span /\ tx,
                   !.signal = [k \in Causes |->
                        IF span /\ (k = "query" \/ tx) THEN "armed" ELSE "absent"]]

\* The callback of context.AfterFunc.
Callback(r, k) == [r EXCEPT !.signal[k] = "sent"]

\* Mutant: io.EOF is kept as if it were an error.
FetchedKeepsEOF(r, answer) ==
    IF answer \in {"row", "set"} THEN r ELSE [r EXCEPT !.nextErr = answer]

\* Next finds a row or an error, or nothing: the end of the rows ("end"), which
\* HasNextResultSet reports if the driver has result sets, or that of a result
\* set which another follows ("set").
Fetched(r, answer) ==
    CASE answer \in {"row", "set"} -> r
      [] answer = "end"   -> [r EXCEPT !.eof = TRUE]
      [] answer = "error" -> [r EXCEPT !.nextErr = "error"]

\* Close, up to the loop over the contexts; done are the causes whose context
\* is cancelled.
CloseBegun(r, closeErr, done) ==
    [r EXCEPT !.pc = "checking", !.closeErr = closeErr, !.observed = r.nextErr,
              !.check = 1, !.due = {k \in done : r.signal[k] # "absent"}]

\* Mutant: Close takes the error only when it is already there.
MustNotWait(r, k, done) == FALSE

\* Mutant: Close waits without asking whether the context is done.
MustWaitAlways(r, k, done) == ~ r.eof /\ r.signal[k] # "absent"

\* Does Close wait for the error of cause k?
MustWait(r, k, done) == ~ r.eof /\ r.signal[k] # "absent" /\ k \in done

\* One round of the loop, taken once any error it waits for has been sent.  The
\* callback is stopped and the entry cleared.
Checked(r, k, done) ==
    [r EXCEPT !.observed = IF k \in done /\ ~ r.eof /\ @ = "none" /\ r.signal[k] = "sent"
                           THEN "canceled" ELSE @,
              !.signal[k] = "absent",
              !.check = @ + 1]

Outcome(r) ==
    LET seen == IF r.observed = "none" THEN r.closeErr ELSE r.observed
    IN  IF seen # "none" THEN seen
        ELSE IF r.eof THEN "eof"
        ELSE IF r.tx THEN "transaction_close_unknown" ELSE "early_close"

\* The end of Close: the consumption span, if any, ends with its outcome.
Closed(r) ==
    [r EXCEPT !.pc = "closed", !.outcome = IF r.span THEN Outcome(r) ELSE ""]
=============================================================================
