---------------------------- MODULE Correlation ----------------------------
(***************************************************************************)
(* The whole correlation path: the instrumented driver (ClientScope), the  *)
(* server's Trace stream and its parser (TraceStream), the registry they   *)
(* share (ScopeRegistry) and the consumer that builds the server span      *)
(* trees (SpanConsumer).                                                   *)
(***************************************************************************)
EXTENDS ClientScope, SpanConsumer

CONSTANTS
    Expiry,         \* does the retention of a scope ever elapse?
    Ends,           \* does the Trace session ever end?
    Capacity        \* events the channel holds; more wait in emit

ASSUME CapacityAssumption == Capacity \in Nat

vars == <<regVars, streamVars, clientVars, consumerVars>>

\* Start has succeeded: the registry admits scopes and the consumer runs.
Init ==
    /\ registrations = <<>>
    /\ issued = 0
    /\ running = TRUE
    /\ stopping = FALSE
    /\ consumer = "active"
    /\ StreamInit
    /\ ClientInit
    /\ ConsumerInit

\* Other traffic of the observed database: a record that says nothing about
\* its attachment, or one the parser cannot use at all.
StrayRecord ==
    /\ Damage
    /\ Len(stream) <= MaxLag
    /\ ~ parser.incomplete
    /\ session = "open"
    /\ Write(<<Record("finish", NoKey, Statement(NoStatement), NoToken, NoOwner)>>)
    /\ UNCHANGED <<regVars, clientVars, consumerVars>>

ScopeElapses(t) ==
    /\ Expiry
    /\ Elapse(t)
    /\ UNCHANGED <<streamVars, clientVars, consumerVars>>

ShutdownBegins ==
    /\ Ends
    /\ ~ stopping
    /\ BeginShutdown
    /\ UNCHANGED <<streamVars, clientVars, consumerVars>>

StreamEnds ==
    /\ Ends
    /\ SessionEnds
    /\ UNCHANGED <<regVars, clientVars, consumerVars>>

ChannelOverflows ==
    /\ EventDropped(Capacity)
    /\ UNCHANGED <<regVars, clientVars, consumerVars>>

ClientNext ==
    /\ \/ \E g \in Callers : ClientStep(g)
       \/ \E c \in Connections : CloseConnection(c)
    /\ UNCHANGED consumerVars

ConsumerNext ==
    /\ EventReceived \/ Flush \/ Tick \/ ConsumerEnds
    /\ UNCHANGED clientVars

Next ==
    \/ ClientNext
    \/ ConsumerNext
    \/ StrayRecord
    \/ \E t \in DOMAIN registrations : ScopeElapses(t)
    \/ ShutdownBegins
    \/ StreamEnds
    \/ ChannelOverflows

Spec == Init /\ [][Next]_vars

\* The consumer's goroutine keeps running and its ticker keeps firing; driver
\* calls return, and rows are closed in the end, as database/sql demands of its
\* users.
Fairness ==
    /\ WF_vars(EventReceived /\ UNCHANGED clientVars)
    /\ WF_vars(Tick /\ UNCHANGED clientVars)
    /\ \A g \in Callers :
          /\ []<>(caller[g].pc # "calling")
          /\ []<>(caller[g].pc # "rows")

FairSpec == Spec /\ Fairness

-----------------------------------------------------------------------------
\* Every variable has values of its kind; tokens and operations are never
\* from the future.
TypeOK ==
    /\ RegTypeOK
    /\ ops \in 0..MaxOps
    /\ clientSpans \subseteq 1..ops
    /\ \A c \in Connections :
          /\ connection[c].rows \in 0..Cardinality(Callers)
          /\ {connection[c].token, connection[c].fallback} \subseteq (1..issued) \cup {NoToken}
    /\ \A g \in Callers :
          /\ caller[g].pc \in {"idle", "calling", "skipped", "prepared", "rows"}
          /\ caller[g].op \in 0..ops
          /\ {caller[g].token, caller[g].held} \subseteq (1..issued) \cup {NoToken}
    /\ \A a \in DOMAIN pending : a \in Connections /\ pending[a] \in 1..issued
    /\ \A s \in DOMAIN active : active[s] \in Connections /\ s \in 1..parser.sequence
    /\ DOMAIN frames \cup DOMAIN trees \subseteq 1..parser.sequence

\* The root of every exported tree is a statement of the operation whose client
\* span is its parent, however the stream lags behind the calls, whoever runs
\* in between, and whatever fails: the marker selects the client parent.
RootAttribution ==
    \A x \in exported : x.nodes[1].owner = x.parent

\* No exported tree shows work of another operation or of nobody's (profiler
\* statements, unmarked operations): unregistered traffic is never exported,
\* and overlapping cursors on one connection are not attributed.  Events
\* dropped at shutdown are excepted: see the run dropped_events.
TreePurity ==
    ~ dropped => \A x \in exported : \A i \in DOMAIN x.nodes : x.nodes[i].owner = x.parent

\* A scope in the registry has exactly one place that will decide about it: the
\* running call, the connection after ErrSkip, or the statement prepared for
\* it, until it is bound; then nobody on the client side knows it any more.
\* Nothing is leaked until Retention, and nothing can be bound twice.
OneHolder ==
    \A t \in DOMAIN registrations :
        Cardinality({g \in Callers : caller[g].token = t})
        + Cardinality({g \in Callers : caller[g].held = t})
        + Cardinality({c \in Connections : connection[c].fallback = t})
        = IF registrations[t].parent = NoSpan THEN 1 ELSE 0

\* What the consumer follows always belongs to a tree it still has, and a tree
\* always has its root node: invalidateAttachment reads nodes[0] unchecked.  If
\* the finish of an activity beyond MaxNodes is dropped at shutdown, its frame
\* outlives the tree: nothing drops it when the tree is exported.
FramesBelongToTrees ==
    ~ dropped =>
        /\ \A s \in DOMAIN frames : frames[s] \in DOMAIN trees
        /\ \A r \in DOMAIN trees : trees[r].nodes # <<>> /\ trees[r].nodes[1].sequence = r

\* activeByAttachment counts the entries of active, through every gap and
\* invalidation: a count left behind would block the marker of every later
\* operation on the connection.
CountsAgree ==
    /\ \A a \in Connections :
          Running(a) = Cardinality({s \in DOMAIN active : active[s] = a})
    /\ \A a \in DOMAIN activeByAttachment : activeByAttachment[a] > 0

\* The consumer's memory is bounded by its limits, not by the traffic.
ConsumerBounded ==
    /\ Cardinality(DOMAIN pending) <= MaxPending
    /\ Cardinality(DOMAIN frames) <= MaxFrames
    /\ \A r \in DOMAIN trees : Len(trees[r].nodes) <= MaxNodes

\* A tree that is not labelled incomplete shows everything its operation did
\* on the server, including the procedure it called.
CompleteOrLabelled ==
    \A x \in exported :
        x.incomplete \/ Len(x.nodes) = IF Routines THEN 2 ELSE 1

\* serverScope, called while rows are open, discards the connection's last
\* token to suppress the cursor it disturbs: that token belongs to an open
\* cursor, or to a scope that is gone already.
OverlapSuppressesCursor ==
    \A c \in Connections :
        connection[c].rows > 0 /\ connection[c].token \in DOMAIN registrations =>
            \E g \in Callers :
                /\ caller[g].pc = "rows"
                /\ caller[g].conn = c
                /\ caller[g].op = registrations[connection[c].token].parent

\* The path implements the promise of ServerSpans.
Promise == INSTANCE ServerSpans WITH Ops <- 1..MaxOps, spans <- clientSpans, attached <- exported

ImplementsServerSpans == Promise!AbstractSpec

BoundTo(o) == \E t \in DOMAIN registrations : registrations[t].parent = o

\* The consumer has seen the marker and still waits for the work, or has a tree.
Followed(t) ==
    \/ \E a \in DOMAIN pending : pending[a] = t
    \/ \E r \in DOMAIN trees : trees[r].token = t

\* A bound scope the consumer follows never stays in the registry until some
\* later operation finds it expired: its tree is exported or dropped, whatever
\* record is lost and whenever the retention elapses.
FollowedScopeSettles ==
    \A o \in 1..MaxOps :
        (\E t \in DOMAIN registrations : registrations[t].parent = o /\ Followed(t))
            ~> ~ BoundTo(o)

\* An operation on a connection nobody else uses meanwhile, which got a scope
\* and succeeds, gets its server tree unless the stream had a gap: no
\* interleaving of the call, the stream and the consumer loses it, and the
\* consumer may see the whole work before the client span is bound.
UndisturbedIsExported ==
    \A o \in 1..MaxOps :
        (\E g \in Callers : caller[g].op = o /\ caller[g].token # NoToken /\ caller[g].result = "ok")
            ~> (parser.incomplete \/ \E x \in exported : x.parent = o)
=============================================================================
