---------------------------- MODULE SpanConsumer ----------------------------
(***************************************************************************)
(* The consumer goroutine of the span runtime: consume in                  *)
(* src/trace/spans.go.  It turns the events of the Trace stream into       *)
(* server span trees under the client spans that asked for the work.       *)
(*                                                                         *)
(* A marker that finished on an attachment is pending until the next       *)
(* statement starts there at the top level; that statement becomes the     *)
(* root of a tree, and whatever it calls joins the tree.  A tree is        *)
(* exported once its root has finished and the client has supplied its     *)
(* span, in whichever order these come.                                    *)
(*                                                                         *)
(* One action takes one event, or one wake-up.  A tree is known by the     *)
(* sequence of its root.  The code's ticker and its bound channel both     *)
(* only call flush, which may therefore happen between any two events.     *)
(***************************************************************************)
EXTENDS TraceStream

CONSTANTS
    MaxFrames,      \* open sequences followed (4096 in the code)
    MaxNodes        \* nodes kept per tree (128, or 512 when collapsing)

ASSUME MaxFramesAssumption == MaxFrames \in Nat
ASSUME MaxNodesAssumption  == MaxNodes \in Nat \ {0}

VARIABLES
    pending,            \* [attachments -> token of the last finished marker]
    frames,             \* [open sequences -> root of their tree]
    trees,              \* [roots -> trees]
    active,             \* [sequences of running activities -> attachment]
    activeByAttachment, \* [attachments -> number of running activities]
    exported            \* the trees exported so far

consumerVars == <<pending, frames, trees, active, activeByAttachment, exported>>

ConsumerInit ==
    /\ pending = <<>>
    /\ frames = <<>>
    /\ trees = <<>>
    /\ active = <<>>
    /\ activeByAttachment = <<>>
    /\ exported = {}

-----------------------------------------------------------------------------
Except(f, S) == [x \in DOMAIN f \ S |-> f[x]]

Put(f, x, y) == [z \in DOMAIN f \cup {x} |-> IF z = x THEN y ELSE f[z]]

\* Mutant: a dropped tree does not discard its scope.
TokensOfNone(roots) == {}

TokensOf(roots) == {trees[r].token : r \in roots}

\* Mutant: only the frame of the root goes with the tree.
FramesOfRoots(roots) == DOMAIN frames \cap roots

FramesOf(roots) == {s \in DOMAIN frames : frames[s] \in roots}

NewTree(token, m) ==
    [token |-> token, attachment |-> m.attachment, nodes |-> <<>>, finished |-> {},
     tainted |-> FALSE, omitted |-> FALSE, complete |-> FALSE]

Node(m) == [sequence |-> m.event.sequence, owner |-> m.owner]

NodeSequences(tree) == {tree.nodes[i].sequence : i \in DOMAIN tree.nodes}

\* Mutant: nodes left out for MaxNodes go unmentioned.
ExportWithoutOmitted(tree, parent) ==
    [parent |-> parent, nodes |-> tree.nodes,
     incomplete |-> tree.tainted \/ tree.finished # NodeSequences(tree)]

\* exportTree: the client span, the tree under it, and whether the tree is
\* labelled incomplete.
Export(tree, parent) ==
    [parent |-> parent, nodes |-> tree.nodes,
     incomplete |-> tree.tainted \/ tree.omitted \/ tree.finished # NodeSequences(tree)]

\* Mutant: a complete tree does not wait for the client span.
GoneUnlessBound(r, ts) ==
    {t \in DOMAIN ts :
        \/ ~ Live(r, ts[t].token)
        \/ (ts[t].complete /\ r[ts[t].token].parent = NoSpan)}

\* flush: drop the trees whose scope is gone or expired, export those that are
\* complete and bound.  looked are the tokens looked up afterwards.
Gone(r, ts) == {t \in DOMAIN ts : ~ Live(r, ts[t].token)}

Ready(r, ts) ==
    {t \in DOMAIN ts : /\ Live(r, ts[t].token)
                       /\ ts[t].complete
                       /\ r[ts[t].token].parent # NoSpan}

FlushOf(ts, fs, looked) ==
    LET gone  == Gone(registrations, ts)
        ready == Ready(registrations, ts)
    IN  /\ trees' = Except(ts, gone \cup ready)
        /\ exported' = exported \cup
              {Export(ts[t], registrations[ts[t].token].parent) : t \in ready}
        /\ registrations' =
              LookedUp(Without(registrations, {ts[t].token : t \in gone \cup ready}), looked)
        /\ frames' = Except(fs, {s \in DOMAIN fs :
                                   \/ fs[s] \in gone
                                   \/ fs[s] \in ready /\ s \in NodeSequences(ts[fs[s]])})

regFlags == <<issued, running, stopping, consumer>>

Wakeup == consumer = "active"

\* <-s.bound
Flush ==
    /\ Wakeup
    /\ FlushOf(trees, frames, {})
    /\ UNCHANGED <<regFlags, streamVars, pending, active, activeByAttachment>>

\* <-ticker.C: flush, then forget the pending markers whose scope is gone.
Tick ==
    /\ Wakeup
    /\ FlushOf(trees, frames, {pending[a] : a \in DOMAIN pending})
    /\ pending' = Except(pending, {a \in DOMAIN pending : ~ Live(registrations', pending[a])})
    /\ UNCHANGED <<regFlags, streamVars, active, activeByAttachment>>

-----------------------------------------------------------------------------
(* Events. *)

Receive ==
    /\ consumer = "active"
    /\ stream # <<>>
    /\ stream' = Tail(stream)
    /\ UNCHANGED <<regFlags, parser, session, dropped>>

\* drop, for a set of trees; more are tokens discarded along with them.
Drop(roots, more) ==
    /\ trees' = Except(trees, roots)
    /\ frames' = Except(frames, FramesOf(roots))
    /\ registrations' = Without(registrations, TokensOf(roots) \cup more)
    /\ UNCHANGED exported

Invalidate ==
    /\ Drop(DOMAIN trees, {pending[a] : a \in DOMAIN pending})
    /\ pending' = <<>>
    /\ active' = <<>>
    /\ activeByAttachment' = <<>>

\* Mutant: the count of the attachment goes, its running activities stay.
InvalidateAttachmentCount(a, more) ==
    /\ Drop({t \in DOMAIN trees : a \in {0, trees[t].attachment}},
            more \cup {pending[b] : b \in {b \in DOMAIN pending : a \in {0, b}}})
    /\ pending' = Except(pending, IF a = 0 THEN DOMAIN pending ELSE {a})
    /\ activeByAttachment' = Except(activeByAttachment, IF a = 0 THEN DOMAIN activeByAttachment ELSE {a})
    /\ UNCHANGED active

\* invalidateAttachment; more is the unmatched marker's own token.
InvalidateAttachment(a, more) ==
    IF a = 0 THEN
        /\ Drop(DOMAIN trees, more \cup {pending[b] : b \in DOMAIN pending})
        /\ pending' = <<>>
        /\ active' = <<>>
        /\ activeByAttachment' = <<>>
    ELSE
        /\ Drop({t \in DOMAIN trees : trees[t].attachment = a},
                more \cup {pending[b] : b \in DOMAIN pending \cap {a}})
        /\ pending' = Except(pending, {a})
        /\ active' = Except(active, {s \in DOMAIN active : active[s] = a})
        /\ activeByAttachment' = Except(activeByAttachment, {a})

GapReceived(m) ==
    /\ Receive
    /\ m.kind = "gap"
    /\ Invalidate

MarkerStarted(m) ==
    /\ Receive
    /\ m.token # NoToken
    /\ m.event.phase = "start"
    /\ UNCHANGED <<registrations, consumerVars>>

MarkerUnmatched(m) ==
    /\ Receive
    /\ m.token # NoToken
    /\ m.event.phase = "finish"
    /\ m.event.sequence = 0
    /\ InvalidateAttachment(m.attachment, {m.token})

\* The marker before it on this attachment, if still pending, is forgotten.
MarkerFinished(m) ==
    LET others == Except(pending, {m.attachment})
        usable == /\ Live(registrations, m.token)
                  /\ Cardinality(DOMAIN others) < MaxPending
    IN  /\ Receive
        /\ m.token # NoToken
        /\ m.event.phase = "finish"
        /\ m.event.sequence # 0
        /\ pending' = IF usable THEN Put(others, m.attachment, m.token) ELSE others
        /\ registrations' = LookedUp(registrations, {m.token})
        /\ UNCHANGED <<frames, trees, active, activeByAttachment, exported>>

Unidentified(m) ==
    /\ Receive
    /\ m.kind # "gap"
    /\ m.token = NoToken
    /\ m.event.sequence = 0
    /\ InvalidateAttachment(m.attachment, {})

Running(a) == IF a \in DOMAIN activeByAttachment THEN activeByAttachment[a] ELSE 0

\* A top-level statement with nothing else running on its attachment takes the
\* pending marker.
Claims(m) ==
    /\ m.attachment \in DOMAIN pending
    /\ m.kind = "statement"
    /\ m.event.parent = 0
    /\ Running(m.attachment) = 0

\* The tree a start joins: a new one for the marker it claims, that of its
\* parent, or none (0).
Joins(m) ==
    IF Claims(m) /\ Live(registrations, pending[m.attachment]) THEN m.event.sequence
    ELSE IF m.event.parent \in DOMAIN frames THEN frames[m.event.parent]
    ELSE 0

\* Mutant: an off-by-one at the limit of nodes.
RoomForOneMore(tree) == Len(tree.nodes) <= MaxNodes

Room(tree) == Len(tree.nodes) < MaxNodes

\* The tree before the node is added.
TreeFor(m) ==
    IF Joins(m) = m.event.sequence THEN NewTree(pending[m.attachment], m) ELSE trees[Joins(m)]

Started(m) ==
    /\ Receive
    /\ m.token = NoToken
    /\ m.event.phase = "start"
    /\ m.event.sequence # 0
    /\ pending' = IF Claims(m) THEN Except(pending, {m.attachment}) ELSE pending
    /\ active' = Put(active, m.event.sequence, m.attachment)
    /\ activeByAttachment' = Put(activeByAttachment, m.attachment, Running(m.attachment) + 1)

LookedUpByClaim(m) ==
    IF Claims(m) THEN LookedUp(registrations, {pending[m.attachment]}) ELSE registrations

StartOutsideTrees(m) ==
    /\ Started(m)
    /\ Joins(m) = 0
    /\ registrations' = LookedUpByClaim(m)
    /\ UNCHANGED <<frames, trees, exported>>

\* The scope expired or was discarded, or too many sequences are followed.
StartDropsTree(m) ==
    /\ Started(m)
    /\ Joins(m) # 0
    /\ ~ Live(registrations, TreeFor(m).token) \/ Cardinality(DOMAIN frames) >= MaxFrames
    /\ Drop({Joins(m)} \cap DOMAIN trees, {TreeFor(m).token})

StartJoinsTree(m) ==
    LET tree == TreeFor(m)
    IN  /\ Started(m)
        /\ Joins(m) # 0
        /\ Live(registrations, tree.token)
        /\ Cardinality(DOMAIN frames) < MaxFrames
        /\ frames' = Put(frames, m.event.sequence, Joins(m))
        /\ trees' = Put(trees, Joins(m),
              IF Room(tree) THEN [tree EXCEPT !.nodes = Append(@, Node(m)),
                                        !.tainted = @ \/ m.event.incomplete]
              ELSE [tree EXCEPT !.omitted = TRUE])
        /\ UNCHANGED <<registrations, exported>>

\* A running activity ends; the count of its attachment goes with the last one.
Ended(m) ==
    LET s == m.event.sequence
        a == active[s]
    IN  /\ Receive
        /\ m.token = NoToken
        /\ m.event.phase = "finish"
        /\ s # 0
        /\ IF s \in DOMAIN active
           THEN /\ active' = Except(active, {s})
                /\ activeByAttachment' =
                      IF activeByAttachment[a] = 1 THEN Except(activeByAttachment, {a})
                      ELSE [activeByAttachment EXCEPT ![a] = @ - 1]
           ELSE UNCHANGED <<active, activeByAttachment>>
        /\ UNCHANGED pending

FinishOutsideTrees(m) ==
    /\ Ended(m)
    /\ m.event.sequence \notin DOMAIN frames
    /\ UNCHANGED <<registrations, frames, trees, exported>>

\* A node beyond MaxNodes has a frame but is not in the tree.
FinishInTree(m) ==
    LET s    == m.event.sequence
        root == frames[s]
        tree == trees[root]
    IN  /\ Ended(m)
        /\ s \in DOMAIN frames
        /\ s # root
        /\ frames' = Except(frames, {s})
        /\ trees' = IF s \in NodeSequences(tree)
                    THEN [trees EXCEPT ![root].finished = @ \cup {s},
                                       ![root].tainted = @ \/ m.event.incomplete]
                    ELSE trees
        /\ UNCHANGED <<registrations, exported>>

\* The root of a tree ends: the tree is complete, and flush follows at once.
\* The frame of the root is gone before the flush.
FinishRoot(m) ==
    LET s    == m.event.sequence
        tree == [trees[s] EXCEPT !.finished = @ \cup {s}, !.complete = TRUE,
                                 !.tainted = @ \/ m.event.incomplete]
    IN  /\ Ended(m)
        /\ s \in DOMAIN frames
        /\ frames[s] = s
        /\ FlushOf([trees EXCEPT ![s] = tree], Except(frames, {s}), {})

\* The channel is closed and empty: trees that are ready are exported, all
\* the others are dropped, and the registry is closed for good.
ConsumerEnds ==
    /\ consumer = "active"
    /\ session = "closed"
    /\ stream = <<>>
    /\ exported' = exported \cup
          {Export(trees[t], registrations[trees[t].token].parent) : t \in Ready(registrations, trees)}
    /\ trees' = <<>>
    /\ frames' = <<>>
    /\ registrations' = <<>>
    /\ running' = FALSE
    /\ consumer' = "done"
    /\ UNCHANGED <<issued, stopping, streamVars, pending, active, activeByAttachment>>

EventReceived == stream # <<>> /\ LET m == Head(stream) IN
    \/ GapReceived(m)
    \/ MarkerStarted(m)
    \/ MarkerUnmatched(m)
    \/ MarkerFinished(m)
    \/ Unidentified(m)
    \/ StartOutsideTrees(m)
    \/ StartDropsTree(m)
    \/ StartJoinsTree(m)
    \/ FinishOutsideTrees(m)
    \/ FinishInTree(m)
    \/ FinishRoot(m)

=============================================================================
