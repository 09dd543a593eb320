----------------------------- MODULE TreeExport -----------------------------
(***************************************************************************)
(* What becomes of a finished tree (src/trace/spans.go, exportTree and     *)
(* repeatedLeaves): its nodes become spans, in the order they were         *)
(* collected, up to a limit; quick leaves that repeat become one event of  *)
(* their parent; and the root says why anything is missing.                *)
(*                                                                         *)
(* A tree is a sequence of nodes, each with its parent's place in it (0:   *)
(* the root's) and its sort: what the code asks of a node.                 *)
(***************************************************************************)
EXTENDS Naturals, SequencesExt

CONSTANTS
    MaxSpans,       \* 128
    MinNodes,       \* 4: a smaller tree is exported as it is
    MinRepeats,     \* 3
    MaxGroups       \* 8

\* A procedure that took no page and no time, under one of two names; one that
\* did, or a statement; a node whose finish never came; one the server's clock
\* was set back in.
Sorts == {"quick p", "quick q", "slow", "open", "backward"}

Complete(node) == node.sort # "open"
InOrder(node) == node.sort # "backward"

Tree(nodes, tainted, omitted) == [nodes |-> nodes, tainted |-> tainted, omitted |-> omitted]

Places(tree) == DOMAIN tree.nodes

HasChildren(tree, n) == \E m \in Places(tree) : tree.nodes[m].parent = n

\* Mutant: a call that calls others may be collapsed too.
IsQuickCall(tree, n) == n # 1 /\ tree.nodes[n].sort \in {"quick p", "quick q"}

\* A leaf that may be collapsed: "every slow call and every child-bearing
\* procedure" stays visible.
IsQuickLeaf(tree, n) ==
    n # 1 /\ tree.nodes[n].sort \in {"quick p", "quick q"} /\ ~ HasChildren(tree, n)

\* The leaves of one parent and one name.
Group(tree, parent, sort) ==
    {n \in Places(tree) : IsQuickLeaf(tree, n) /\ tree.nodes[n] = [parent |-> parent, sort |-> sort]}

\* Groups with more calls come first, then by name and by parent.
Before(g, h) ==
    \/ Cardinality(g.calls) > Cardinality(h.calls)
    \/ /\ Cardinality(g.calls) = Cardinality(h.calls)
       /\ \/ g.sort = "quick p" /\ h.sort = "quick q"
          \/ g.sort = h.sort /\ g.parent < h.parent

\* The groups that repeat, cut to the first MaxGroups.
Repeated(tree, collapse) ==
    LET all == {[parent |-> parent, sort |-> sort, calls |-> Group(tree, parent, sort)] :
                    parent \in Places(tree), sort \in {"quick p", "quick q"}}
        groups == {g \in all : Cardinality(g.calls) >= MinRepeats}
    IN  IF ~ collapse \/ tree.omitted \/ Len(tree.nodes) < MinNodes THEN {}
        ELSE {g \in groups : Cardinality({h \in groups : Before(h, g)}) < MaxGroups}

Collapsed(tree, collapse) == UNION {g.calls : g \in Repeated(tree, collapse)}

Visible(tree, collapse) ==
    {n \in Places(tree) : Complete(tree.nodes[n])} \ Collapsed(tree, collapse)

Reasons(tree, collapse) ==
    UNION {IF tree.tainted THEN {"source_event"} ELSE {},
           IF \E n \in Places(tree) : ~ Complete(tree.nodes[n]) THEN {"unpaired"} ELSE {},
           IF tree.omitted THEN {"collection_limit"} ELSE {},
           IF Cardinality(Visible(tree, collapse)) > MaxSpans THEN {"export_limit"} ELSE {}}

\* The nodes that become spans: the visible ones, in order, as long as there is
\* room, below a parent that became one.
Exported(tree, collapse) ==
    LET visible == Visible(tree, collapse)
        Next(spans, n) ==
            IF /\ n \in visible /\ Cardinality(spans) < MaxSpans
               /\ InOrder(tree.nodes[n])
               /\ n = 1 \/ tree.nodes[n].parent \in spans
            THEN spans \cup {n}
            ELSE spans
    IN  FoldLeft(Next, {}, [n \in Places(tree) |-> n])

\* The repeated groups that become an event of a span.
Told(tree, collapse) ==
    {g \in Repeated(tree, collapse) : g.parent \in Exported(tree, collapse)}

-----------------------------------------------------------------------------
\* When the root gives no reason, nothing is missing: every node is a span or
\* is counted by one event of its parent's span, except what lies at or below a
\* node whose times are out of order (spans.go:476-615).  And what an event
\* stands for has no children and is no span.
ExportIsWhole(tree, collapse) ==
    LET spans == Exported(tree, collapse)
        told  == UNION {g.calls : g \in Told(tree, collapse)}
        above[n \in Places(tree)] ==
            {n} \cup IF n = 1 THEN {} ELSE above[tree.nodes[n].parent]
        Sound(n) == \A m \in above[n] : InOrder(tree.nodes[m])
    IN  /\ spans \cap told = {}
        /\ \A n \in told : ~ HasChildren(tree, n)
        /\ \A g, h \in Told(tree, collapse) : g = h \/ g.calls \cap h.calls = {}
        /\ Reasons(tree, collapse) = {} =>
              \A n \in Places(tree) : Sound(n) => n \in spans \cup told
=============================================================================
