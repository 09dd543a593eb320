--------------------------- MODULE DependencyWalk ---------------------------
(***************************************************************************)
(* The breadth-first walk of metadata.Reader.Read (src/metadata/reader.go) *)
(* over RDB$DEPENDENCIES: one query per object of the queue, bounded in    *)
(* nodes, edges, rows per query and depth, and widened from a packaged     *)
(* routine to the body of its package, whose dependencies are the only     *)
(* ones the catalog keeps.                                                 *)
(***************************************************************************)
EXTENDS Naturals, FiniteSets, SequencesExt

CONSTANTS
    Objects,        \* catalog objects
    BodyOf,         \* [packaged routines -> the bodies of their packages]
    MaxNodes,       \* Config.MaxNodes
    MaxDepth        \* Config.MaxDepth

ASSUME BodyAssumption ==
    /\ DOMAIN BodyOf \subseteq Objects
    /\ \A o \in DOMAIN BodyOf : BodyOf[o] \in Objects \ DOMAIN BodyOf

ASSUME ObjectsAssumption == IsFiniteSet(Objects)

ASSUME BoundsAssumption == MaxNodes \in Nat \ {0} /\ MaxDepth \in Nat \ {0}

MaxEdges == 4 * MaxNodes

Packaged(o) == o \in DOMAIN BodyOf

Edge(from, to) == [from |-> from, to |-> to]

\* Where the walk stands: the graph so far, the queue with the depth of each
\* object, and, inside one query, the rows scanned and whether the loop broke.
NewWalk(root) ==
    IF ~ Packaged(root)
    THEN [nodes |-> {root}, edges |-> {}, truncated |-> FALSE,
          queue |-> <<[object |-> root, depth |-> 0]>>]
    ELSE IF MaxNodes = 1
    THEN [nodes |-> {root}, edges |-> {}, truncated |-> TRUE, queue |-> <<>>]
    ELSE [nodes |-> {root, BodyOf[root]}, edges |-> {Edge(root, BodyOf[root])},
          truncated |-> FALSE, queue |-> <<[object |-> BodyOf[root], depth |-> 0]>>]

\* Mutant: the limits are tested after they are passed.
FullTooLate(w, o) ==
    \/ Cardinality(w.edges) > MaxEdges
    \/ o \notin w.nodes /\ Cardinality(w.nodes) > MaxNodes

\* Is there no place for an edge to o, or for o itself?
FullFor(w, o) ==
    \/ Cardinality(w.edges) >= MaxEdges
    \/ o \notin w.nodes /\ Cardinality(w.nodes) >= MaxNodes

WithEdge(w, from, to) ==
    [w EXCEPT !.edges = @ \cup {Edge(from, to)}, !.nodes = @ \cup {to}]

Enqueued(w, o, depth) ==
    [w EXCEPT !.queue = Append(@, [object |-> o, depth |-> depth])]

Truncate(w) == [w EXCEPT !.truncated = TRUE]

\* Mutant: the body of a package is added, but its dependencies are not read.
BroadenedOnce(w, o, depth) == WithEdge(w, o, BodyOf[o])

\* A packaged routine, just added, stands for the body of its package.
Broadened(w, o, depth) ==
    LET packageBody == BodyOf[o]
    IN  IF FullFor(w, packageBody) THEN Truncate(w)
        ELSE IF packageBody \in w.nodes THEN WithEdge(w, o, packageBody)
        ELSE Enqueued(WithEdge(w, o, packageBody), packageBody, depth)

\* One row of the query about item: acc is the walk, the rows scanned so far and
\* whether the loop was left.
Row(acc, item, to) ==
    LET w     == acc.walk
        added == WithEdge(w, item.object, to)
        next  == IF to \in w.nodes THEN added
                 ELSE IF Packaged(to) THEN Broadened(added, to, item.depth + 1)
                 ELSE Enqueued(added, to, item.depth + 1)
    IN  IF acc.left THEN acc
        ELSE IF acc.scanned = MaxNodes \/ FullFor(w, to)
        THEN [acc EXCEPT !.walk = Truncate(@), !.left = TRUE]
        ELSE [acc EXCEPT !.walk = next, !.scanned = @ + 1]

Rest(w) == [w EXCEPT !.queue = Tail(@)]

\* One object of the queue; deps is what the catalog says, in its order.
Visited(w, deps) ==
    LET item == Head(w.queue)
        rows == SetToSeq(deps[item.object])
        after[n \in 0..Cardinality(deps[item.object])] ==
            IF n = 0 THEN [walk |-> Rest(w), scanned |-> 0, left |-> FALSE]
            ELSE Row(after[n - 1], item, rows[n])
    IN  IF item.depth >= MaxDepth THEN Truncate(Rest(w))
        ELSE after[Cardinality(deps[item.object])].walk

-----------------------------------------------------------------------------
(* What the graph of a walk should be. *)

\* What an object depends on, as far as the catalog tells.
Succ(o, deps) == IF Packaged(o) THEN {BodyOf[o]} ELSE deps[o]

\* The objects within n steps of root, and all that can be reached from it.
Within(root, deps) ==
    LET reach[n \in 0..Cardinality(Objects)] ==
          IF n = 0 THEN {root}
          ELSE reach[n - 1] \cup UNION {Succ(o, deps) : o \in reach[n - 1]}
    IN  reach

Reachable(root, deps) == Within(root, deps)[Cardinality(Objects)]

EdgesOf(nodes, deps) == {Edge(o, p) : o \in nodes, p \in Objects} \cap
                        UNION {{Edge(o, p) : p \in Succ(o, deps)} : o \in nodes}

Bounded(w) == Cardinality(w.nodes) <= MaxNodes /\ Cardinality(w.edges) <= MaxEdges

\* A graph is what it claims: all of the reachable objects and their edges, or a
\* part of them that is marked as truncated.
Exact(w, root, deps) ==
    LET all == Reachable(root, deps)
    IN  /\ w.nodes \subseteq all
        /\ w.edges \subseteq EdgesOf(w.nodes, deps)
        /\ ~ w.truncated => w.nodes = all /\ w.edges = EdgesOf(all, deps)
=============================================================================
