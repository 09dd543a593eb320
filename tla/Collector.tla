----------------------------- MODULE Collector -----------------------------
(***************************************************************************)
(* The Trace collector (src/trace/runtime.go) over a session of the        *)
(* Services API (src/trace/services_buffered.go): the goroutine of run     *)
(* with emit and finish, the goroutine that reads the stream, and the one  *)
(* that closes the session.  Who starts it, stops it and takes its events  *)
(* is left to SpanLifecycle.                                               *)
(*                                                                         *)
(* Events are counted, not told apart: TraceStream models what they say.   *)
(* Timers may fire at any moment and stand for every duration.             *)
(***************************************************************************)
EXTENDS Naturals

CONSTANTS
    Buffer,         \* Config.Buffer: capacity of the channel of events
    MaxBatches,     \* bound of the model: batches of events the parser returns
    BatchSize       \* bound of the model: events in a batch

ASSUME BufferAssumption == Buffer \in Nat \ {0}
ASSUME BatchAssumption  == MaxBatches \in Nat /\ BatchSize \in Nat

VARIABLES
    run,            \* the goroutine of run: what it does, the events it has left
                    \* to emit, and whether it returns after them
    queued,         \* events in the channel r.events
    batches,        \* batches so far
    reader,         \* WaitChunksContext: "none", "reading", "ended"
    session,        \* the session on the server: "none", "open", "stopped"
    closing,        \* requestClose: "none", "stop", "release", "done"
    released,       \* the service connection of the session is closed
    cancelled,      \* the context of run is cancelled
    shutdown,       \* Shutdown was called: r.stopping, and r.shutdown is closed
    discard,        \* r.discard is closed
    runErr          \* r.err is set

queueVars   == <<run, queued, batches>>
closeVars   == <<session, closing, released>>
signalVars  == <<cancelled, shutdown, discard, runErr>>
collectorVars == <<queueVars, reader, closeVars, signalVars>>

RunState ==
    [at : {"none", "select", "emit", "grace", "finish", "return", "closed", "done"},
     left : 0..BatchSize, last : BOOLEAN]

CollectorInit ==
    /\ run = [at |-> "none", left |-> 0, last |-> FALSE]
    /\ queued = 0
    /\ batches = 0
    /\ reader = "none"
    /\ session = "none"
    /\ closing = "none"
    /\ released = FALSE
    /\ cancelled = FALSE
    /\ shutdown = FALSE
    /\ discard = FALSE
    /\ runErr = FALSE

\* Start succeeded: the "ready" event is in the channel and run begins.
Opened ==
    /\ run' = [run EXCEPT !.at = "select"]
    /\ queued' = 1
    /\ reader' = "reading"
    /\ session' = "open"
    /\ UNCHANGED <<batches, closing, released, signalVars>>

\* closeOnce: the first request decides, later ones do nothing.
CloseRequested == IF closing = "none" THEN "stop" ELSE closing

Closed == run.at \in {"closed", "done"}

-----------------------------------------------------------------------------
(* The session and its two connections. *)

\* Mutant: a session that could not be stopped is no error.
StopSessionSilently ==
    /\ closing = "stop"
    /\ session' \in {session, "stopped"}
    /\ closing' = "release"
    /\ UNCHANGED <<queueVars, reader, released, signalVars>>

\* CloseContext connects a second time to stop the session; connecting,
\* stopping or the reply may fail, the last two after the session was stopped.
StopSession ==
    /\ closing = "stop"
    /\ \/ session' = "stopped" /\ runErr' \in {runErr, TRUE}
       \/ runErr' = TRUE /\ UNCHANGED session
    /\ closing' = "release"
    /\ UNCHANGED <<queueVars, reader, released, cancelled, shutdown, discard>>

\* The connection of the session is closed in any case; that may fail, too.
\* The goroutine has recorded an error before it closes closeDone.
ReleaseService ==
    /\ closing = "release"
    /\ \/ released' = TRUE /\ UNCHANGED runErr
       \/ runErr' = TRUE /\ UNCHANGED released
    /\ closing' = "done"
    /\ UNCHANGED <<queueVars, reader, session, cancelled, shutdown, discard>>

\* What obliges WaitChunksContext to return.
StreamOver == session = "stopped" \/ released \/ cancelled

\* It may also return by itself, when the server or the connection fails.
StreamEnds ==
    /\ reader = "reading"
    /\ reader' = "ended"
    /\ UNCHANGED <<queueVars, closeVars, signalVars>>

-----------------------------------------------------------------------------
(* run *)

\* Feed of a chunk, or FlushFinished when nothing came for a while, if they
\* return events; otherwise nothing changes.  Records
\* that the server wrote before the session stopped still arrive after it.
NextBatch ==
    /\ run.at = "select"
    /\ batches < MaxBatches
    /\ batches' = batches + 1
    /\ \E n \in 1..BatchSize : run' = [run EXCEPT !.at = "emit", !.left = n]
    /\ UNCHANGED <<queued, reader, closeVars, signalVars>>

\* The stream has ended: finish, then what Flush returns.
StreamEndSeen ==
    /\ run.at = "select"
    /\ reader = "ended"
    /\ run' = [run EXCEPT !.at = "finish"]
    /\ closing' = CloseRequested
    /\ UNCHANGED <<queued, batches, reader, session, released, signalVars>>

\* finish waits for the session to be closed, ten seconds at most.
Finished ==
    /\ run.at = "finish"
    /\ \E timedOut \in BOOLEAN :
          /\ closing = "done" \/ timedOut
          /\ runErr' = (runErr \/ timedOut \/ ~ shutdown)
    /\ IF run.last THEN run' = [run EXCEPT !.at = "return"]
       ELSE \E n \in 0..BatchSize : run' = [at |-> "emit", left |-> n, last |-> TRUE]
    /\ UNCHANGED <<queued, batches, reader, closeVars, cancelled, shutdown, discard>>

\* The events of a batch are all emitted; those of Flush are the last.
BatchEnds ==
    /\ run.at = "emit"
    /\ run.left = 0
    /\ run' = [run EXCEPT !.at = IF run.last THEN "return" ELSE "select"]
    /\ UNCHANGED <<queued, batches, reader, closeVars, signalVars>>

Emitting == run.at \in {"emit", "grace"} /\ run.left > 0

\* Mutant: the channel takes one event too many.
EmitOneMore ==
    /\ Emitting
    /\ queued <= Buffer
    /\ queued' = queued + 1
    /\ run' = [run EXCEPT !.at = "emit", !.left = @ - 1]
    /\ UNCHANGED <<batches, reader, closeVars, signalVars>>

Emit ==
    /\ Emitting
    /\ queued < Buffer
    /\ queued' = queued + 1
    /\ run' = [run EXCEPT !.at = "emit", !.left = @ - 1]
    /\ UNCHANGED <<batches, reader, closeVars, signalVars>>

\* With the channel full, shutdown gives the consumer 250 ms to make room ...
GraceBegins ==
    /\ run.at = "emit"
    /\ run.left > 0
    /\ queued = Buffer
    /\ shutdown
    /\ ~ discard
    /\ run' = [run EXCEPT !.at = "grace"]
    /\ UNCHANGED <<queued, batches, reader, closeVars, signalVars>>

\* ... and then discards events, this one and all that find the channel full.
GraceEnds ==
    /\ run.at = "grace"
    /\ discard' = TRUE
    /\ run' = [run EXCEPT !.at = "emit"]
    /\ UNCHANGED <<queued, batches, reader, closeVars, cancelled, shutdown, runErr>>

EventDiscarded ==
    /\ Emitting
    /\ queued = Buffer
    /\ discard
    /\ run' = [run EXCEPT !.at = "emit", !.left = @ - 1]
    /\ UNCHANGED <<queued, batches, reader, closeVars, signalVars>>

\* The context ended while emit waited: run finishes without a Flush.
EmitCancelled ==
    /\ Emitting
    /\ queued = Buffer
    /\ cancelled
    /\ run' = [at |-> IF run.last THEN "return" ELSE "finish", left |-> 0, last |-> TRUE]
    /\ closing' = CloseRequested
    /\ UNCHANGED <<queued, batches, reader, session, released, signalVars>>

\* The deferred calls: cancel, close(events), close(done).
RunReturns ==
    \/ /\ run.at = "return"
       /\ run' = [run EXCEPT !.at = "closed"]
       /\ cancelled' = TRUE
       /\ UNCHANGED <<queued, batches, reader, closeVars, shutdown, discard, runErr>>
    \/ /\ run.at = "closed"
       /\ run' = [run EXCEPT !.at = "done"]
       /\ UNCHANGED <<queued, batches, reader, closeVars, signalVars>>

\* What run does without waiting for the stream or a consumer.
RunStep ==
    \/ StreamEndSeen \/ Finished \/ BatchEnds \/ Emit
    \/ GraceBegins \/ GraceEnds \/ EventDiscarded \/ EmitCancelled \/ RunReturns

CollectorNext == StopSession \/ ReleaseService \/ StreamEnds \/ NextBatch \/ RunStep

-----------------------------------------------------------------------------
(* What others do to it. *)

\* Shutdown, up to its wait.
ShutdownRequested ==
    /\ shutdown' = TRUE
    /\ closing' = CloseRequested
    /\ UNCHANGED <<queueVars, reader, session, released, cancelled, discard, runErr>>

\* Shutdown's context ended first.
Cancel ==
    /\ cancelled' = TRUE
    /\ UNCHANGED <<queueVars, reader, closeVars, shutdown, discard, runErr>>

EventTaken ==
    /\ queued > 0
    /\ queued' = queued - 1
    /\ UNCHANGED <<run, batches, reader, closeVars, signalVars>>

-----------------------------------------------------------------------------
\* The variables have values of their kind, and the channel never holds more
\* than it can (emit).
CollectorTypeOK ==
    /\ run \in RunState
    /\ queued \in 0..Buffer
    /\ batches \in 0..MaxBatches
    /\ reader \in {"none", "reading", "ended"}
    /\ session \in {"none", "open", "stopped"}
    /\ closing \in {"none", "stop", "release", "done"}
    /\ released \in BOOLEAN /\ cancelled \in BOOLEAN /\ shutdown \in BOOLEAN
    /\ discard \in BOOLEAN /\ runErr \in BOOLEAN
=============================================================================
