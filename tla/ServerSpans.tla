---------------------------- MODULE ServerSpans ----------------------------
(***************************************************************************)
(* What server diagnostics promise to a reader of traces                   *)
(* (src/docs/diagnostics.md, "Server spans"), without markers, tokens,     *)
(* streams or registries: a client operation that succeeded has a client   *)
(* span, and some of these spans get, once and for all, a tree of server   *)
(* spans that shows work of that operation and of no other.                *)
(***************************************************************************)
EXTENDS Naturals, Sequences

CONSTANT Ops        \* client operations

VARIABLES
    spans,          \* operations with a client span
    attached        \* server trees: [parent, nodes, incomplete]

AbstractInit == spans = {} /\ attached = {}

SpanEnds(o) ==
    /\ o \notin spans
    /\ spans' = spans \cup {o}
    /\ UNCHANGED attached

Parents(trees) == {x.parent : x \in trees}

\* The tree starts with the operation's own statement; everything in it was
\* done for that operation.
Shows(x, o) == x.nodes # <<>> /\ \A i \in DOMAIN x.nodes : x.nodes[i].owner = o

\* One or several trees appear, for operations that have none yet.
TreesAttached ==
    /\ attached \subseteq attached'
    /\ attached' # attached
    /\ \A x \in attached' \ attached :
          /\ x.parent \in spans \ Parents(attached)
          /\ Shows(x, x.parent)
          /\ \A y \in attached' : y.parent = x.parent => y = x
    /\ UNCHANGED spans

AbstractNext == (\E o \in Ops : SpanEnds(o)) \/ TreesAttached

AbstractSpec == AbstractInit /\ [][AbstractNext]_<<spans, attached>>
=============================================================================
