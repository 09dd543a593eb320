---------------------------- MODULE TraceStream ----------------------------
(***************************************************************************)
(* The Trace stream between the server and the consumer of spans: the      *)
(* goroutine trace.Runtime.run (src/trace/runtime.go) reads what the       *)
(* server writes, hands it to the parser and sends the events, in order,   *)
(* over a channel.                                                         *)
(*                                                                         *)
(* Nobody but the parser sees the raw records, and it reads them in the    *)
(* order they were written; the model therefore parses a record when the   *)
(* server writes it, and all the delay of the stream is in the channel.    *)
(***************************************************************************)
EXTENDS ScopeRegistry, TraceParser

CONSTANTS
    NoToken,        \* an event or a call without a scope token
    NoOwner,        \* the owner of work no client operation asked for
    Damage          \* is any record ever unusable?

\* A token is the text of a marker, never empty; here the n-th token is n.
ASSUME NoTokenAssumption == NoToken \notin Nat

VARIABLES
    parser,         \* the parser's fields
    stream,         \* events sent and not yet received
    session,        \* the Trace session: "open" or "closed"
    dropped         \* has an event been dropped?  A ghost: no action reads it

streamVars == <<parser, stream, session, dropped>>

StreamInit ==
    /\ parser = NewParser
    /\ stream = <<>>
    /\ session = "open"
    /\ dropped = FALSE

\* What the server writes about one activity.  owner is the client operation
\* the activity works for: it is in no record, only in the properties.
Record(phase, key, activity, token, owner) ==
    [phase |-> phase, key |-> key, activity |-> activity, token |-> token, owner |-> owner]

\* A record the parser cannot use; it becomes a gap.
DamagedRecord == [phase |-> "damaged"]

\* A received event: the parser's verdict with the fields it copies.
Message(r, event) ==
    IF event.phase = "gap"
    THEN [event |-> event, kind |-> "gap", attachment |-> 0, token |-> NoToken, owner |-> NoOwner]
    ELSE [event |-> event, kind |-> r.activity.kind,
          attachment |-> IF r.key = NoKey THEN 0 ELSE r.key[1],
          token |-> r.token, owner |-> r.owner]

Parsed(p, r) ==
    IF r.phase = "damaged" THEN GapResult(p)
    ELSE RecordResult(p, r.phase, r.key, r.activity, FALSE)

\* One turn of run: parse the record, emit its events.
Written(state, r) ==
    LET result == Parsed(state.parser, r)
    IN  [parser |-> result.parser,
         stream |-> state.stream \o [i \in DOMAIN result.events |-> Message(r, result.events[i])]]

\* run has read the records, one after the other.
Read(records) ==
    LET after[n \in 0..Len(records)] ==
            IF n = 0 THEN [parser |-> parser, stream |-> stream]
            ELSE Written(after[n - 1], records[n])
    IN  after[Len(records)]

\* One of the records may be unusable; the model damages a stream once.
Damaged(records) ==
    {records} \cup
    (IF Damage /\ ~ parser.incomplete
     THEN {[records EXCEPT ![i] = DamagedRecord] : i \in DOMAIN records}
     ELSE {})

\* The server writes these records, in this order, without interruption; a
\* closed session sees none of them.
Write(records) ==
    /\ IF session = "open"
       THEN \E rs \in Damaged(records) :
               parser' = Read(rs).parser /\ stream' = Read(rs).stream
       ELSE UNCHANGED <<parser, stream>>
    /\ UNCHANGED <<session, dropped>>

\* The session ends, on request or not: the parser is flushed, and the channel
\* is closed behind its last event.
SessionEnds ==
    LET result == FlushResult(parser)
    IN  /\ session = "open"
        /\ session' = "closed"
        /\ parser' = result.parser
        /\ stream' = stream \o [i \in DOMAIN result.events |-> Message(DamagedRecord, result.events[i])]
        /\ UNCHANGED dropped

\* Once Shutdown has waited in vain for a slow consumer (discard is closed),
\* the event that finds the channel full is dropped; capacity is the channel's.
EventDropped(capacity) ==
    /\ stopping
    /\ Len(stream) > capacity
    /\ stream' = RemoveAt(stream, capacity + 1)
    /\ dropped' = TRUE
    /\ UNCHANGED <<parser, session>>
=============================================================================
