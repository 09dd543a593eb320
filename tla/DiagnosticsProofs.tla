------------------------- MODULE DiagnosticsProofs -------------------------
(***************************************************************************)
(* Theorems about the diagnostic readers: the metadata cache, alone and in *)
(* the shared pool, the graphs that its walk of the catalog finds, the     *)
(* snapshots of MON$, and the pool itself, for every catalog, any server   *)
(* and any number of readers, migrations and invalidations.                *)
(***************************************************************************)
EXTENDS Diagnostics, FiniteSetTheorems, SequenceTheorems, TLAPS

\* A read that began under the current generation was asked after the last
\* Invalidate and has seen no older catalog.
Fresh(rd) == rd.generation = generation => rd.asked = announced

\* What is known of a Read at each place of its code.
ReadOK(rd) ==
    \/ rd = NoRead
    \/ /\ DOMAIN rd = {"pc", "key", "generation", "asked"}
       /\ rd.pc = "opening"
       /\ rd.asked \in Nat /\ rd.asked <= announced
       /\ rd.generation \in Nat /\ rd.generation <= generation
       /\ Fresh(rd)
    \/ /\ DOMAIN rd = {"pc", "key", "generation", "asked", "walk", "from", "until"}
       /\ rd.pc = "walking"
       /\ rd.asked \in Nat /\ rd.from \in Nat /\ rd.asked <= rd.from
       /\ rd.generation \in Nat /\ rd.generation <= generation
       /\ Fresh(rd)
    \/ /\ DOMAIN rd = {"pc", "key", "generation", "asked", "graph"}
       /\ rd.pc = "storing"
       /\ rd.asked \in Nat /\ rd.graph.from \in Nat /\ rd.asked <= rd.graph.from
       /\ rd.generation \in Nat /\ rd.generation <= generation
       /\ Fresh(rd)
    \/ /\ rd.pc = "answered"
       /\ rd.asked \in Nat /\ rd.graph.from \in Nat /\ rd.asked <= rd.graph.from

\* The schema and the generation only go forward, one known to the other.
ClockOK ==
    /\ catalog \in Nat /\ announced \in Nat /\ announced <= catalog
    /\ generation \in Nat
    /\ stamp \in Nat /\ horizon \in Nat

CacheOK ==
    /\ IsFiniteSet(DOMAIN cache)
    /\ Cardinality(DOMAIN cache) <= MaxEntries
    /\ \A k \in DOMAIN cache :
          /\ cache[k].graph.from \in Nat /\ announced <= cache[k].graph.from
          /\ cache[k].stamp \in Nat

\* The inductive invariant: NoStaleAnswer says nothing of the reads in flight,
\* one of which will store the next entry.
CacheInv ==
    /\ ClockOK
    /\ CacheOK
    /\ DOMAIN read = Readers
    /\ \A r \in Readers : ReadOK(read[r])

-----------------------------------------------------------------------------
LEMMA CacheInvImplies == CacheInv => NoStaleAnswer /\ CacheBounded
<1> SUFFICES ASSUME CacheInv PROVE NoStaleAnswer /\ CacheBounded
  OBVIOUS
<1>1. CacheBounded
  BY DEF CacheInv, CacheOK, CacheBounded
<1>2. \A k \in DOMAIN cache : cache[k].graph.from >= announced
  BY DEF CacheInv, CacheOK, ClockOK
<1>3. ASSUME NEW r \in Readers, read[r].pc = "answered"
      PROVE  read[r].graph.from >= read[r].asked
  <2>1. ReadOK(read[r])
    BY DEF CacheInv
  <2> QED
    BY <1>3, <2>1 DEF ReadOK, NoRead
<1> QED
  BY <1>1, <1>2, <1>3 DEF NoStaleAnswer

LEMMA CacheInvInit == MetaInit => CacheInv
<1> SUFFICES ASSUME MetaInit PROVE CacheInv
  OBVIOUS
<1>1. ClockOK
  BY DEF MetaInit, ClockOK
<1>2. DOMAIN cache = {}
  BY DEF MetaInit
<1>3. IsFiniteSet(DOMAIN cache) /\ Cardinality(DOMAIN cache) = 0
  BY <1>2, FS_EmptySet
<1>4. CacheOK
  BY <1>2, <1>3, MaxEntriesAssumption DEF CacheOK
<1>5. DOMAIN read = Readers /\ \A r \in Readers : ReadOK(read[r])
  BY DEF MetaInit, ReadOK
<1> QED
  BY <1>1, <1>4, <1>5 DEF CacheInv

\* A step of one Read that touches neither the schema nor the cache keeps the
\* invariant if it leaves that Read in order.
LEMMA ReadStepKeepsInv ==
    ASSUME CacheInv, NEW r \in Readers, NEW v, ReadOK(v), Set(r, v),
           UNCHANGED <<catalog, announced, generation, cache, stamp, horizon>>
    PROVE  CacheInv'
<1>1. DOMAIN read' = Readers /\ \A q \in Readers : read'[q] = IF q = r THEN v ELSE read[q]
  BY DEF Set, CacheInv
<1>2. \A q \in Readers : ReadOK(read'[q])
  BY <1>1 DEF CacheInv
<1>3. (\A q \in Readers : ReadOK(read[q]))'
  BY <1>2 DEF ReadOK, Fresh
<1>4. ClockOK' /\ CacheOK'
  BY DEF CacheInv, ClockOK, CacheOK
<1> QED
  BY <1>1, <1>3, <1>4 DEF CacheInv

-----------------------------------------------------------------------------
\* Storing a graph: the entries that expired go, and the oldest one if there is
\* still no room.
LEMMA StoredKeepsCache ==
    ASSUME CacheInv, NEW k, NEW graph, graph.from \in Nat, announced <= graph.from,
           NEW gone \in SUBSET DOMAIN cache, Stored(k, graph, gone),
           UNCHANGED <<announced>>
    PROVE  CacheOK'
<1> DEFINE kept == {l \in DOMAIN cache : ~ Expired(cache[l])}
           dom  == (kept \ gone) \cup {k}
<1>1. /\ IsFiniteSet(kept) /\ IsFiniteSet(kept \ gone) /\ IsFiniteSet(dom)
      /\ Cardinality(kept) \in Nat /\ Cardinality(kept \ gone) \in Nat /\ Cardinality(dom) \in Nat
      /\ Cardinality(kept) <= Cardinality(DOMAIN cache)
      /\ Cardinality(dom) <= Cardinality(kept \ gone) + 1
  <2>1. IsFiniteSet(DOMAIN cache) /\ kept \subseteq DOMAIN cache /\ kept \ gone \subseteq DOMAIN cache
    BY DEF CacheInv, CacheOK
  <2>2. IsFiniteSet(kept) /\ IsFiniteSet(kept \ gone) /\ Cardinality(kept) <= Cardinality(DOMAIN cache)
    BY <2>1, FS_Subset
  <2>3. IsFiniteSet(dom) /\ \/ Cardinality(dom) = Cardinality(kept \ gone)
                            \/ Cardinality(dom) = Cardinality(kept \ gone) + 1
    BY <2>2, FS_AddElement
  <2>4. Cardinality(kept) \in Nat /\ Cardinality(kept \ gone) \in Nat /\ Cardinality(dom) \in Nat
    BY <2>2, <2>3, FS_CardinalityType
  <2> QED
    BY <2>2, <2>3, <2>4
<1>2. Cardinality(kept \ gone) < MaxEntries
  <2>1. CASE Room(kept) /\ gone = {}
    <3>1. kept \ gone = kept
      BY <2>1
    <3> QED
      BY <2>1, <3>1 DEF Room
  <2>2. CASE ~ Room(kept) /\ \E l \in kept : Oldest(l, kept) /\ gone = {l}
    <3>1. PICK l \in kept : gone = {l}
      BY <2>2
    <3>2. Cardinality(kept \ {l}) = Cardinality(kept) - 1
      BY <1>1, FS_RemoveElement
    <3>3. Cardinality(DOMAIN cache) \in Nat /\ Cardinality(DOMAIN cache) <= MaxEntries
      BY FS_CardinalityType DEF CacheInv, CacheOK
    <3> QED
      BY <1>1, <3>1, <3>2, <3>3, MaxEntriesAssumption
  <2> QED
    BY <2>1, <2>2 DEF Stored
<1>3. cache' = [l \in dom |-> IF l = k THEN [graph |-> graph, stamp |-> stamp + 1] ELSE cache[l]]
  BY DEF Stored
<1>4. DOMAIN cache' = dom
  BY <1>3
<1>5. IsFiniteSet(DOMAIN cache') /\ Cardinality(DOMAIN cache') <= MaxEntries
  BY <1>1, <1>2, <1>4, MaxEntriesAssumption
<1>6. ASSUME NEW l \in DOMAIN cache'
      PROVE  /\ cache'[l].graph.from \in Nat /\ announced <= cache'[l].graph.from
             /\ cache'[l].stamp \in Nat
  <2>1. CASE l = k
    BY <1>3, <1>4, <1>6, <2>1 DEF CacheInv, ClockOK
  <2>2. CASE l # k
    <3>1. l \in DOMAIN cache /\ cache'[l] = cache[l]
      BY <1>3, <1>4, <1>6, <2>2
    <3> QED
      BY <3>1 DEF CacheInv, CacheOK
  <2> QED
    BY <2>1, <2>2
<1> QED
  BY <1>5, <1>6 DEF CacheOK

\* Every step of the metadata readers keeps the invariant.
LEMMA CacheInvStep == CacheInv /\ [MetaNext]_metaVars => CacheInv'
<1> SUFFICES ASSUME CacheInv, [MetaNext]_metaVars PROVE CacheInv'
  OBVIOUS
<1>1. CASE Migrate
  <2>1. ClockOK' /\ CacheOK'
    BY <1>1 DEF Migrate, CacheInv, ClockOK, CacheOK
  <2>2. UNCHANGED <<read, generation, announced>>
    BY <1>1 DEF Migrate
  <2> QED
    BY <2>1, <2>2 DEF CacheInv, ReadOK, Fresh
<1>2. ASSUME NEW v \in Versions, Invalidate(v) PROVE CacheInv'
  <2>1. /\ generation' = generation + 1 /\ announced' = catalog /\ DOMAIN cache' = {}
        /\ UNCHANGED <<catalog, stamp, horizon, read>>
    BY <1>2 DEF Invalidate
  <2>2. ClockOK'
    BY <2>1 DEF CacheInv, ClockOK
  <2>3. IsFiniteSet(DOMAIN cache') /\ Cardinality(DOMAIN cache') = 0
    BY <2>1, FS_EmptySet
  <2>4. CacheOK'
    BY <2>1, <2>3, MaxEntriesAssumption DEF CacheOK
  <2>5. ASSUME NEW r \in Readers PROVE ReadOK(read[r])'
    <3>1. ReadOK(read[r]) /\ announced \in Nat /\ catalog \in Nat /\ announced <= catalog
          /\ generation \in Nat
      BY DEF CacheInv, ClockOK
    <3> QED
      BY <2>1, <3>1 DEF ReadOK, Fresh, NoRead
  <2> QED
    BY <2>1, <2>2, <2>4, <2>5 DEF CacheInv
<1>3. CASE Elapse
  <2>1. ClockOK' /\ CacheOK'
    BY <1>3 DEF Elapse, CacheInv, ClockOK, CacheOK
  <2>2. UNCHANGED <<read, generation, announced>>
    BY <1>3 DEF Elapse
  <2> QED
    BY <2>1, <2>2 DEF CacheInv, ReadOK, Fresh
<1>4. ASSUME NEW r \in Readers, NEW root \in Roots, ReadHit(r, root) PROVE CacheInv'
  <2> DEFINE v == [pc |-> "answered", root |-> root, asked |-> announced,
                   graph |-> cache[KeyOf(root)].graph]
  <2>1. Set(r, v) /\ UNCHANGED <<catalog, announced, generation, cache, stamp, horizon>>
    BY <1>4 DEF ReadHit
  <2>2. KeyOf(root) \in DOMAIN cache
    BY <1>4 DEF ReadHit, Hit
  <2>3. ReadOK(v)
    BY <2>2 DEF CacheInv, CacheOK, ClockOK, ReadOK
  <2> QED
    BY <2>1, <2>3, ReadStepKeepsInv
<1>5. ASSUME NEW r \in Readers, NEW root \in Roots, ReadMiss(r, root) PROVE CacheInv'
  <2> DEFINE v == [pc |-> "opening", key |-> KeyOf(root), generation |-> generation,
                   asked |-> announced]
  <2>1. Set(r, v) /\ UNCHANGED <<catalog, announced, generation, cache, stamp, horizon>>
    BY <1>5 DEF ReadMiss
  <2>2. ReadOK(v)
    BY DEF CacheInv, ClockOK, ReadOK, Fresh
  <2> QED
    BY <2>1, <2>2, ReadStepKeepsInv
<1>6. ASSUME NEW r \in Readers, Fails(r) \/ Returns(r) PROVE CacheInv'
  <2>1. Set(r, NoRead) /\ UNCHANGED <<catalog, announced, generation, cache, stamp, horizon>>
    BY <1>6 DEF Fails, Returns
  <2>2. ReadOK(NoRead)
    BY DEF ReadOK
  <2> QED
    BY <2>1, <2>2, ReadStepKeepsInv
<1>7. ASSUME NEW r \in Readers, Opens(r) PROVE CacheInv'
  <2> DEFINE w == NewWalk(read[r].key.root)
             g == Graph(w, catalog, catalog)
             a == [pc |-> "answered", root |-> read[r].key.root, asked |-> read[r].asked, graph |-> g]
             b == [pc |-> "walking", key |-> read[r].key, generation |-> read[r].generation,
                   asked |-> read[r].asked, walk |-> w, from |-> catalog, until |-> catalog]
  <2>1. /\ Set(r, a) \/ Set(r, b)
        /\ read[r].pc = "opening"
        /\ UNCHANGED <<catalog, announced, generation, cache, stamp, horizon>>
    BY <1>7 DEF Opens, Answer
  <2>2. ReadOK(read[r]) /\ ClockOK
    BY DEF CacheInv
  <2>3. /\ read[r].asked \in Nat /\ read[r].asked <= announced
        /\ read[r].generation \in Nat /\ read[r].generation <= generation /\ Fresh(read[r])
    BY <2>1, <2>2 DEF ReadOK, NoRead
  <2>4. g.from = catalog
    BY DEF Graph
  <2>5. ReadOK(a)
    BY <2>2, <2>3, <2>4 DEF ReadOK, ClockOK
  <2>6. ReadOK(b)
    <3> HIDE DEF w
    <3> QED
      BY <2>2, <2>3 DEF ReadOK, ClockOK, Fresh
  <2> QED
    BY <2>1, <2>5, <2>6, ReadStepKeepsInv
<1>8. ASSUME NEW r \in Readers, Visits(r) PROVE CacheInv'
  <2> DEFINE v == [read[r] EXCEPT !.walk = Visited(@, Schemas[catalog]), !.until = catalog]
  <2>1. Set(r, v) /\ read[r].pc = "walking"
        /\ UNCHANGED <<catalog, announced, generation, cache, stamp, horizon>>
    BY <1>8 DEF Visits
  <2>2. ReadOK(read[r])
    BY DEF CacheInv
  <2>3. ReadOK(v)
    BY <2>1, <2>2 DEF ReadOK, NoRead, Fresh
  <2> QED
    BY <2>1, <2>3, ReadStepKeepsInv
<1>9. ASSUME NEW r \in Readers, Commits(r) PROVE CacheInv'
  <2> DEFINE g == Graph(read[r].walk, read[r].from, read[r].until)
             v == [pc |-> "storing", key |-> read[r].key, generation |-> read[r].generation,
                   asked |-> read[r].asked, graph |-> g]
  <2>1. Set(r, v) /\ read[r].pc = "walking"
        /\ UNCHANGED <<catalog, announced, generation, cache, stamp, horizon>>
    BY <1>9 DEF Commits
  <2>2. ReadOK(read[r])
    BY DEF CacheInv
  <2>3. g.from = read[r].from
    BY DEF Graph
  <2>4. ReadOK(v)
    <3> HIDE DEF g
    <3> QED
      BY <2>1, <2>2, <2>3 DEF ReadOK, NoRead, Fresh
  <2> QED
    BY <2>1, <2>4, ReadStepKeepsInv
<1>10. ASSUME NEW r \in Readers, Stores(r) \/ StoresNothing(r) PROVE CacheInv'
  <2> DEFINE v == [pc |-> "answered", root |-> read[r].key.root, asked |-> read[r].asked,
                   graph |-> read[r].graph]
  <2>1. Set(r, v) /\ read[r].pc = "storing" /\ UNCHANGED <<catalog, announced, generation, horizon>>
    BY <1>10 DEF Stores, StoresNothing, Answer
  <2>2. ReadOK(read[r]) /\ ClockOK
    BY DEF CacheInv
  <2>3. /\ read[r].asked \in Nat /\ read[r].graph.from \in Nat
        /\ read[r].asked <= read[r].graph.from /\ Fresh(read[r])
    BY <2>1, <2>2 DEF ReadOK, NoRead
  <2>4. ReadOK(v)
    BY <2>3 DEF ReadOK
  <2>5. CASE StoresNothing(r)
    <3>1. UNCHANGED <<cache, stamp>>
      BY <2>5 DEF StoresNothing
    <3> QED
      BY <2>1, <2>4, <3>1, ReadStepKeepsInv
  <2>6. CASE Stores(r)
    <3>1. PICK gone \in SUBSET DOMAIN cache : Stored(read[r].key, read[r].graph, gone)
      BY <2>6 DEF Stores
    <3>2. announced <= read[r].graph.from
      BY <2>3, <2>6 DEF Stores, OfThisGeneration, Fresh
    <3>3. CacheOK'
      BY <2>1, <2>3, <3>1, <3>2, StoredKeepsCache
    <3>4. ClockOK'
      BY <2>1, <2>2, <2>6 DEF Stores, ClockOK
    <3>5. DOMAIN read' = Readers /\ \A q \in Readers : read'[q] = IF q = r THEN v ELSE read[q]
      BY <2>1 DEF Set, CacheInv
    <3>6. \A q \in Readers : ReadOK(read'[q])
      BY <2>4, <3>5 DEF CacheInv
    <3>7. (\A q \in Readers : ReadOK(read[q]))'
      BY <2>1, <3>6 DEF ReadOK, Fresh
    <3> QED
      BY <3>3, <3>4, <3>5, <3>7 DEF CacheInv
  <2> QED
    BY <1>10, <2>5, <2>6
<1>11. CASE UNCHANGED metaVars
  BY <1>11 DEF metaVars, CacheInv, ClockOK, CacheOK, ReadOK, Fresh
<1> QED
  BY <1>1, <1>2, <1>3, <1>4, <1>5, <1>6, <1>7, <1>8, <1>9, <1>10, <1>11 DEF MetaNext

-----------------------------------------------------------------------------
\* The cache alone, whoever uses it: no graph that is older than the last
\* Invalidate is cached, or answered to a Read that was called after it
\* (reader.go:76-86, 207), and the cache stays within MaxEntries (reader.go:209).
THEOREM CacheIsFresh == MetaSpec => [](NoStaleAnswer /\ CacheBounded)
<1>1. MetaInit => CacheInv
  BY CacheInvInit
<1>2. CacheInv /\ [MetaNext]_metaVars => CacheInv'
  BY CacheInvStep
<1>3. CacheInv => NoStaleAnswer /\ CacheBounded
  BY CacheInvImplies
<1> QED
  BY <1>1, <1>2, <1>3, PTL DEF MetaSpec

\* The readers that share a pool take no other steps on the cache.
THEOREM PoolKeepsReader == Spec => MetaSpec
<1>1. Init => MetaInit
  BY DEF Init
<1>2. [Next]_vars => [MetaNext]_metaVars
  <2> SUFFICES ASSUME [Next]_vars PROVE [MetaNext]_metaVars
    OBVIOUS
  <2>1. CASE MetaStep
    BY <2>1 DEF MetaStep, MetaNext, Reading, MetaOpens
  <2>2. CASE UNCHANGED metaVars
    BY <2>2
  <2>3. CASE UNCHANGED vars
    BY <2>3 DEF vars
  <2> QED
    BY <2>1, <2>2, <2>3 DEF Next
<1> QED
  BY <1>1, <1>2, PTL DEF Spec, MetaSpec

\* NoStaleAnswer, as the run checks it, for every pool, catalog and set of readers.
THEOREM NoStaleAnswerInPool == Spec => []NoStaleAnswer
<1>1. NoStaleAnswer /\ CacheBounded => NoStaleAnswer
  OBVIOUS
<1> QED
  BY <1>1, CacheIsFresh, PoolKeepsReader, PTL

-----------------------------------------------------------------------------
(* The walk of a metadata read stays within its bounds. *)

\* Induction over the numbers up to N; S is the set of those that are in order.
LEMMA UpTo ==
    ASSUME NEW N \in Nat, NEW S, 0 \in S, \A n \in 1..N : n - 1 \in S => n \in S
    PROVE  0..N \subseteq S
<1> DEFINE T == {X \in SUBSET (1..N) : \E n \in 0..N : n \notin S /\ X = 1..n}
           R == StrictSubsetOrdering(1..N)
<1>1. SUFFICES ASSUME NEW n \in 0..N, n \notin S PROVE FALSE
  OBVIOUS
<1>2. T # {} /\ T \subseteq FiniteSubsetsOf(1..N)
  <2>1. T \subseteq SUBSET (1..N) /\ IsFiniteSet(1..N)
    BY FS_Interval
  <2>2. 1..n \in T
    BY <1>1
  <2> QED
    BY <2>1, <2>2, FS_Subset DEF FiniteSubsetsOf
<1>3. PICK X \in T : \A Y \in T : ~ (<<Y, X>> \in R)
  <2> HIDE DEF T, R
  <2> QED
    BY <1>2, FS_StrictSubsetOrderingWellFounded, WFMin DEF R
<1>4. PICK m \in 0..N : m \notin S /\ X = 1..m
  OBVIOUS
<1>5. m \in 1..N /\ m - 1 \notin S /\ m - 1 \in 0..N
  BY <1>4
<1>6. 1..(m - 1) \in T
  BY <1>5
<1>7. m \in 1..m /\ m \notin 1..(m - 1) /\ 1..(m - 1) \subseteq 1..m
  BY <1>5
<1>8. <<1..(m - 1), X>> \in R
  BY <1>4, <1>5, <1>7 DEF StrictSubsetOrdering
<1> QED
  BY <1>3, <1>6, <1>8

IsWalk(w) ==
    /\ w = [nodes |-> w.nodes, edges |-> w.edges, truncated |-> w.truncated, queue |-> w.queue]
    /\ IsFiniteSet(w.nodes) /\ IsFiniteSet(w.edges)
    /\ Bounded(w)

LEMMA BoundsAreNat == MaxNodes \in Nat \ {0} /\ MaxEdges \in Nat /\ MaxEdges >= 4
  BY BoundsAssumption DEF MaxEdges

\* What Row adds, it adds only where there is room.
LEMMA WithEdgeIsWalk ==
    ASSUME NEW w, IsWalk(w), NEW from, NEW to, ~ FullFor(w, to)
    PROVE  IsWalk(WithEdge(w, from, to))
<1>1. /\ IsFiniteSet(w.nodes) /\ IsFiniteSet(w.edges)
      /\ Cardinality(w.nodes) \in Nat /\ Cardinality(w.edges) \in Nat
      /\ Cardinality(w.nodes) <= MaxNodes /\ Cardinality(w.edges) < MaxEdges
      /\ to \in w.nodes \/ Cardinality(w.nodes) < MaxNodes
  BY FS_CardinalityType, BoundsAreNat DEF IsWalk, Bounded, FullFor
<1>2. WithEdge(w, from, to) = [nodes |-> w.nodes \cup {to}, edges |-> w.edges \cup {Edge(from, to)},
                               truncated |-> w.truncated, queue |-> w.queue]
  <2> DEFINE e == w.edges \cup {Edge(from, to)}
             n == w.nodes \cup {to}
  <2>1. w = [nodes |-> w.nodes, edges |-> w.edges, truncated |-> w.truncated, queue |-> w.queue]
    BY DEF IsWalk
  <2>2. WithEdge(w, from, to) = [w EXCEPT !.edges = e, !.nodes = n]
    BY DEF WithEdge
  <2> HIDE DEF e, n
  <2>3. [w EXCEPT !.edges = e, !.nodes = n]
        = [nodes |-> n, edges |-> e, truncated |-> w.truncated, queue |-> w.queue]
    <3> DEFINE t == w.truncated
               q == w.queue
               n0 == w.nodes
               e0 == w.edges
    <3>1. w = [nodes |-> n0, edges |-> e0, truncated |-> t, queue |-> q]
      BY <2>1
    <3> HIDE DEF t, q, n0, e0
    <3>2. [w EXCEPT !.edges = e, !.nodes = n] = [nodes |-> n, edges |-> e, truncated |-> t, queue |-> q]
      <4> DEFINE w1 == [w EXCEPT !.edges = e]
      <4>1. [w EXCEPT !.edges = e, !.nodes = n] = [w1 EXCEPT !.nodes = n]
        OBVIOUS
      <4>2. w1 = [nodes |-> n0, edges |-> e, truncated |-> t, queue |-> q]
        BY <3>1
      <4> HIDE DEF w1
      <4>3. [w1 EXCEPT !.nodes = n] = [nodes |-> n, edges |-> e, truncated |-> t, queue |-> q]
        BY <4>2
      <4> QED
        BY <4>1, <4>3
    <3> QED
      BY <3>2 DEF t, q
  <2> QED
    BY <2>2, <2>3 DEF e, n
<1>3. /\ IsFiniteSet(w.nodes \cup {to})
      /\ Cardinality(w.nodes \cup {to})
            = IF to \in w.nodes THEN Cardinality(w.nodes) ELSE Cardinality(w.nodes) + 1
  BY <1>1, FS_AddElement
<1>4. /\ IsFiniteSet(w.edges \cup {Edge(from, to)})
      /\ Cardinality(w.edges \cup {Edge(from, to)})
            = IF Edge(from, to) \in w.edges THEN Cardinality(w.edges) ELSE Cardinality(w.edges) + 1
  BY <1>1, FS_AddElement
<1>5. Cardinality(w.nodes \cup {to}) <= MaxNodes
  BY <1>1, <1>3, BoundsAreNat
<1>6. Cardinality(w.edges \cup {Edge(from, to)}) <= MaxEdges
  BY <1>1, <1>4, BoundsAreNat
<1> QED
  BY <1>2, <1>3, <1>4, <1>5, <1>6 DEF IsWalk, Bounded

\* Everything else leaves the graph alone.
LEMMA SameGraphIsWalk ==
    ASSUME NEW w, IsWalk(w)
    PROVE  /\ IsWalk(Truncate(w)) /\ IsWalk(Rest(w))
           /\ \A o, d : IsWalk(Enqueued(w, o, d))
<1>1. w = [nodes |-> w.nodes, edges |-> w.edges, truncated |-> w.truncated, queue |-> w.queue]
  BY DEF IsWalk
<1>2. Truncate(w) = [nodes |-> w.nodes, edges |-> w.edges, truncated |-> TRUE, queue |-> w.queue]
  <2>1. Truncate(w) = [w EXCEPT !.truncated = TRUE]
    BY DEF Truncate
  <2> QED
    BY <1>1, <2>1
<1>3. \A q : [w EXCEPT !.queue = q]
             = [nodes |-> w.nodes, edges |-> w.edges, truncated |-> w.truncated, queue |-> q]
  BY <1>1
<1>4. \A t, q : IsWalk([nodes |-> w.nodes, edges |-> w.edges, truncated |-> t, queue |-> q])
  BY DEF IsWalk, Bounded
<1>5. IsWalk(Truncate(w))
  BY <1>2, <1>4
<1>6. ASSUME NEW q PROVE IsWalk([w EXCEPT !.queue = q])
  <2> DEFINE r == [nodes |-> w.nodes, edges |-> w.edges, truncated |-> w.truncated, queue |-> q]
  <2>1. IsWalk(r)
    BY <1>4
  <2>2. [w EXCEPT !.queue = q] = r
    BY <1>3
  <2> HIDE DEF r
  <2> QED
    BY <2>1, <2>2
<1>7. IsWalk(Rest(w))
  BY <1>6 DEF Rest
<1>8. ASSUME NEW o, NEW d PROVE IsWalk(Enqueued(w, o, d))
  BY <1>6 DEF Enqueued
<1> QED
  BY <1>5, <1>7, <1>8

LEMMA BroadenedIsWalk ==
    ASSUME NEW w, IsWalk(w), NEW o, NEW depth
    PROVE  IsWalk(Broadened(w, o, depth))
<1>1. CASE FullFor(w, BodyOf[o])
  BY <1>1, SameGraphIsWalk DEF Broadened
<1>2. CASE ~ FullFor(w, BodyOf[o])
  <2>1. IsWalk(WithEdge(w, o, BodyOf[o]))
    BY <1>2, WithEdgeIsWalk
  <2> QED
    BY <1>2, <2>1, SameGraphIsWalk DEF Broadened
<1> QED
  BY <1>1, <1>2

\* The loop over the rows of a query: acc of Row.
IsScan(acc) ==
    /\ acc = [walk |-> acc.walk, scanned |-> acc.scanned, left |-> acc.left]
    /\ IsWalk(acc.walk)

LEMMA RowKeepsBounds ==
    ASSUME NEW acc, IsScan(acc), NEW item, NEW to
    PROVE  IsScan(Row(acc, item, to))
<1> DEFINE w == acc.walk
           added == WithEdge(w, item.object, to)
           next == IF to \in w.nodes THEN added
                   ELSE IF Packaged(to) THEN Broadened(added, to, item.depth + 1)
                   ELSE Enqueued(added, to, item.depth + 1)
<1>1. IsWalk(w) /\ acc = [walk |-> w, scanned |-> acc.scanned, left |-> acc.left]
  BY DEF IsScan
<1>2. CASE acc.left
  BY <1>2 DEF Row
<1>3. CASE ~ acc.left /\ (acc.scanned = MaxNodes \/ FullFor(w, to))
  <2>1. Row(acc, item, to) = [acc EXCEPT !.walk = Truncate(@), !.left = TRUE]
    BY <1>3 DEF Row
  <2>2. Row(acc, item, to) = [walk |-> Truncate(w), scanned |-> acc.scanned, left |-> TRUE]
    BY <1>1, <2>1
  <2> QED
    BY <1>1, <2>2, SameGraphIsWalk DEF IsScan
<1>4. CASE ~ acc.left /\ ~ (acc.scanned = MaxNodes \/ FullFor(w, to))
  <2>1. Row(acc, item, to) = [acc EXCEPT !.walk = next, !.scanned = @ + 1]
    BY <1>4 DEF Row
  <2>2. IsWalk(added)
    BY <1>1, <1>4, WithEdgeIsWalk
  <2>3. IsWalk(next)
    BY <2>2, SameGraphIsWalk, BroadenedIsWalk
  <2> HIDE DEF next, w
  <2>4. Row(acc, item, to) = [walk |-> next, scanned |-> acc.scanned + 1, left |-> acc.left]
    BY <1>1, <2>1
  <2> QED
    BY <2>3, <2>4 DEF IsScan
<1> QED
  BY <1>2, <1>3, <1>4

\* One query: the loop over its rows, step by step, however many there are.
LoopStart(w) == [walk |-> Rest(w), scanned |-> 0, left |-> FALSE]

RowsOf(w, deps) == SetToSeq(deps[Head(w.queue).object])

IsLoop(after, w, deps) ==
    /\ after[0] = LoopStart(w)
    /\ \A n \in 1..Cardinality(deps[Head(w.queue).object]) :
          after[n] = Row(after[n - 1], Head(w.queue), RowsOf(w, deps)[n])

LEMMA VisitIsLoop ==
    ASSUME NEW w, NEW deps, IsFiniteSet(deps[Head(w.queue).object])
    PROVE  \E after :
              /\ IsLoop(after, w, deps)
              /\ Visited(w, deps) = IF Head(w.queue).depth >= MaxDepth THEN Truncate(Rest(w))
                                    ELSE after[Cardinality(deps[Head(w.queue).object])].walk
<1> DEFINE item == Head(w.queue)
           rows == SetToSeq(deps[item.object])
           N == Cardinality(deps[item.object])
           first == [walk |-> Rest(w), scanned |-> 0, left |-> FALSE]
           Scan(f, n) == IF n = 0 THEN first ELSE Row(f[n - 1], item, rows[n])
           after == CHOOSE f : f = [n \in 0..N |-> Scan(f, n)]
<1>1. N \in Nat
  BY FS_CardinalityType
<1>3. Visited(w, deps) = IF item.depth >= MaxDepth THEN Truncate(Rest(w)) ELSE after[N].walk
  BY DEF Visited
<1> HIDE DEF item, rows, N, first
<1>4. after = [n \in 0..N |-> Scan(after, n)]
  <2> DEFINE S == {k \in 0..N : \E f : f = [n \in 0..k |-> Scan(f, n)]}
  <2>1. 0 \in S
    <3> DEFINE f == [n \in 0..0 |-> first]
    <3>1. f = [n \in 0..0 |-> Scan(f, n)]
      OBVIOUS
    <3> HIDE DEF f
    <3>2. \E g : g = [n \in 0..0 |-> Scan(g, n)]
      BY <3>1, Zenon
    <3> HIDE DEF Scan
    <3> QED
      BY <1>1, <3>2
  <2>2. ASSUME NEW k \in 1..N, k - 1 \in S
        PROVE  k \in S
    <3>1. PICK g : g = [n \in 0..(k - 1) |-> Scan(g, n)]
      BY <2>2
    <3> DEFINE f == [n \in 0..k |-> IF n = k THEN Row(g[k - 1], item, rows[k]) ELSE g[n]]
    <3>2. \A n \in 0..k : f[n] = IF n = k THEN Row(g[k - 1], item, rows[k]) ELSE g[n]
      OBVIOUS
    <3>3. \A n \in 0..k : f[n] = Scan(f, n)
      <4> HIDE DEF f
      <4>1. ASSUME NEW n \in 0..k PROVE f[n] = Scan(f, n)
        <5>1. CASE n = k
          BY <3>2, <5>1
        <5>2. CASE n # k
          <6>1. n \in 0..(k - 1) /\ f[n] = g[n] /\ g[n] = Scan(g, n)
            <7>1. n \in 0..(k - 1) /\ f[n] = g[n]
              BY <3>2, <5>2
            <7>2. g[n] = Scan(g, n)
              <8> HIDE DEF Scan
              <8> QED
                BY <3>1, <7>1
            <7> QED
              BY <7>1, <7>2
          <6>2. n # 0 => f[n - 1] = g[n - 1]
            BY <3>2, <5>2
          <6> QED
            BY <6>1, <6>2
        <5> QED
          BY <5>1, <5>2
      <4> QED
        BY <4>1
    <3>4. f = [n \in 0..k |-> Scan(f, n)]
      <4>1. f = [n \in 0..k |-> f[n]]
        OBVIOUS
      <4> HIDE DEF f, Scan
      <4> QED
        BY <3>3, <4>1
    <3> HIDE DEF f
    <3>5. \E h : h = [n \in 0..k |-> Scan(h, n)]
      BY <3>4, Zenon
    <3> HIDE DEF Scan
    <3> QED
      BY <3>5
  <2>3. N \in S
    <3> HIDE DEF S
    <3> QED
      BY <1>1, <2>1, <2>2, UpTo
  <2>4. \E f : f = [n \in 0..N |-> Scan(f, n)]
    BY <2>3
  <2> QED
    BY <2>4
<1> HIDE DEF after
<1>5. after[0] = first
  <2>1. 0 \in 0..N
    BY <1>1
  <2>2. after[0] = Scan(after, 0)
    <3> HIDE DEF Scan
    <3> QED
      BY <1>4, <2>1
  <2> QED
    BY <2>2
<1>6. ASSUME NEW n \in 1..N PROVE after[n] = Row(after[n - 1], item, rows[n])
  <2>1. n \in 0..N /\ n # 0
    BY <1>1
  <2>2. after[n] = Scan(after, n)
    <3> HIDE DEF Scan
    <3> QED
      BY <1>4, <2>1
  <2> QED
    BY <2>1, <2>2
<1>7. IsLoop(after, w, deps)
  BY <1>5, <1>6 DEF IsLoop, LoopStart, RowsOf, item, rows, N, first
<1> QED
  BY <1>3, <1>7, Zenon DEF item, N

LEMMA VisitKeepsBounds ==
    ASSUME NEW w, IsWalk(w), NEW deps, IsFiniteSet(deps[Head(w.queue).object])
    PROVE  IsWalk(Visited(w, deps))
<1> DEFINE N == Cardinality(deps[Head(w.queue).object])
<1>1. N \in Nat
  BY FS_CardinalityType
<1>2. PICK after :
         /\ IsLoop(after, w, deps)
         /\ Visited(w, deps) = IF Head(w.queue).depth >= MaxDepth THEN Truncate(Rest(w))
                               ELSE after[N].walk
  BY VisitIsLoop
<1>3. IsWalk(Rest(w))
  BY SameGraphIsWalk
<1>4. after[0] = LoopStart(w)
      /\ \A n \in 1..N : after[n] = Row(after[n - 1], Head(w.queue), RowsOf(w, deps)[n])
  BY <1>2 DEF IsLoop
<1> HIDE DEF N
<1>5. \A n \in 0..N : IsScan(after[n])
  <2> DEFINE S == {n \in 0..N : IsScan(after[n])}
  <2>1. 0 \in S
    BY <1>1, <1>3, <1>4 DEF IsScan, LoopStart
  <2>2. ASSUME NEW n \in 1..N, n - 1 \in S
        PROVE  n \in S
    <3>1. IsScan(after[n - 1])
      BY <2>2
    <3>2. IsScan(after[n])
      BY <1>4, <3>1, RowKeepsBounds
    <3> QED
      BY <1>1, <3>2
  <2>3. 0..N \subseteq S
    <3> HIDE DEF S
    <3> QED
      BY <1>1, <2>1, <2>2, UpTo
  <2> QED
    BY <2>3
<1>6. IsWalk(after[N].walk)
  <2>1. N \in 0..N
    BY <1>1
  <2> QED
    BY <1>5, <2>1 DEF IsScan
<1>7. IsWalk(Truncate(Rest(w)))
  BY <1>3, SameGraphIsWalk
<1> QED
  BY <1>2, <1>6, <1>7

LEMMA NewWalkIsWalk ==
    ASSUME NEW root
    PROVE  IsWalk(NewWalk(root))
<1>1. IsFiniteSet({}) /\ Cardinality({}) = 0
  BY FS_EmptySet
<1>2. IsFiniteSet({root}) /\ Cardinality({root}) = 1
  BY FS_Singleton
<1>3. /\ IsFiniteSet({root} \cup {BodyOf[root]})
      /\ Cardinality({root} \cup {BodyOf[root]}) <= 2
  BY <1>2, FS_AddElement
<1>4. IsFiniteSet({Edge(root, BodyOf[root])}) /\ Cardinality({Edge(root, BodyOf[root])}) = 1
  BY FS_Singleton
<1>5. {root} \cup {BodyOf[root]} = {root, BodyOf[root]}
  OBVIOUS
<1>6. Cardinality({root, BodyOf[root]}) \in Nat
  BY <1>3, <1>5, FS_CardinalityType
<1>7. CASE ~ Packaged(root)
  BY <1>1, <1>2, <1>7, BoundsAreNat DEF NewWalk, IsWalk, Bounded
<1>8. CASE Packaged(root) /\ MaxNodes = 1
  BY <1>1, <1>2, <1>8, BoundsAreNat DEF NewWalk, IsWalk, Bounded
<1>9. CASE Packaged(root) /\ MaxNodes # 1
  BY <1>3, <1>4, <1>5, <1>6, <1>9, BoundsAreNat DEF NewWalk, IsWalk, Bounded
<1> QED
  BY <1>7, <1>8, <1>9
-----------------------------------------------------------------------------
(* One moment of the server in each snapshot. *)

Places == {"idle", "acquiring", "checking", "capturing", "fixing", "scanning", "committing", "answered"}

Results == {"", "ok", "error", "same attachment", "target not visible", "statement not visible"}

Snaps ==
    [pc : Places, conn : SUBSET Attachments, statement : BOOLEAN, captured : Nat, at : Nat,
     rows : Seq(Nat), truncated : BOOLEAN, result : Results]

\* What the moment of a Read shows of what was asked for.
Seen(s) == IF s.statement THEN Moments[s.at].one ELSE Moments[s.at].all

\* The moment is fixed, not before CapturedAt, and not later than now.
Fixed(s, now) == s.captured \in 1..s.at /\ s.at \in 1..now /\ Moments[s.at].visible

\* Every collection scanned so far is of that moment.
ReadSoFar(s) ==
    /\ \A i \in 1..Len(s.rows) : s.rows[i] = Least(Seen(s)[Collections[i]])
    /\ s.truncated <=> \E i \in 1..Len(s.rows) : Seen(s)[Collections[i]] > MaxRows
    /\ s.statement /\ Len(s.rows) > 0 => Seen(s)["statements"] > 0

\* What is known of a Read of MON$ at each place of its code.
SnapOK(s, now) ==
    /\ s \in Snaps
    /\ s.conn = {} \/ \E a \in Attachments : s.conn = {a}
    /\ s.pc \in {"idle", "acquiring", "answered"} => s.conn = {}
    /\ s.pc \in {"acquiring", "checking", "capturing", "fixing"} =>
          s.rows = <<>> /\ ~ s.truncated
    /\ s.pc = "fixing" => s.captured \in 1..now
    /\ s.pc = "scanning" => Fixed(s, now) /\ ReadSoFar(s) /\ Len(s.rows) < 4
    /\ s.pc = "committing" \/ (s.pc = "answered" /\ s.result = "ok") =>
          Fixed(s, now) /\ ReadSoFar(s) /\ Len(s.rows) = 4

\* The inductive invariant of the monitoring readers.
SnapInv ==
    /\ moment \in 1..Len(Moments)
    /\ DOMAIN snap = Watchers
    /\ \A w \in Watchers : SnapOK(snap[w], moment)

LEMMA SnapIsRecord ==
    ASSUME NEW s \in Snaps
    PROVE  s = [pc |-> s.pc, conn |-> s.conn, statement |-> s.statement, captured |-> s.captured,
                at |-> s.at, rows |-> s.rows, truncated |-> s.truncated, result |-> s.result]
  BY DEF Snaps

LEMMA IsSnap ==
    ASSUME NEW pc \in Places, NEW conn \in SUBSET Attachments, NEW statement \in BOOLEAN,
           NEW captured \in Nat, NEW at \in Nat, NEW truncated \in BOOLEAN, NEW result \in Results
    PROVE  [pc |-> pc, conn |-> conn, statement |-> statement, captured |-> captured, at |-> at,
            rows |-> <<>>, truncated |-> truncated, result |-> result] \in Snaps
  BY DEF Snaps

LEMMA MomentIsRecord ==
    ASSUME NEW m \in 1..Len(Moments)
    PROVE  /\ Moments[m].visible \in BOOLEAN
           /\ \A i \in 1..4 : Moments[m].all[Collections[i]] \in Nat
                              /\ Moments[m].one[Collections[i]] \in Nat
<1>1. Moments[m] \in [visible : BOOLEAN, all : Counts, one : Counts]
  <2> DEFINE S == [visible : BOOLEAN, all : Counts, one : Counts]
  <2>1. Moments \in Seq(S)
    BY MomentsAssumption
  <2> HIDE DEF S
  <2>2. Moments[m] \in S
    BY <2>1
  <2> QED
    BY <2>2 DEF S
<1>2. Moments[m].visible \in BOOLEAN /\ Moments[m].all \in Counts /\ Moments[m].one \in Counts
  BY <1>1
<1> QED
  BY <1>2 DEF Counts

LEMMA SeenIsNat ==
    ASSUME NEW s, s.at \in 1..Len(Moments), s.statement \in BOOLEAN, NEW i \in 1..4
    PROVE  Seen(s)[Collections[i]] \in Nat
  BY MomentIsRecord DEF Seen

LEMMA SnapInvImplies == SnapInv => SnapshotIsOneMoment
<1> SUFFICES ASSUME SnapInv, NEW w \in Watchers, snap[w].pc = "answered", snap[w].result = "ok"
             PROVE  LET s == snap[w]
                        m == Moments[s.at]
                        shown == IF s.statement THEN m.one ELSE m.all
                    IN  /\ s.captured <= s.at /\ m.visible
                        /\ s.statement => shown["statements"] > 0
                        /\ s.rows = [i \in 1..4 |-> Least(shown[Collections[i]])]
                        /\ s.truncated <=> \E i \in 1..4 : shown[Collections[i]] > MaxRows
  BY DEF SnapshotIsOneMoment
<1> DEFINE s == snap[w]
<1>1. s \in Snaps /\ Fixed(s, moment) /\ ReadSoFar(s) /\ Len(s.rows) = 4
  BY DEF SnapInv, SnapOK
<1>2. s.rows \in Seq(Nat)
  BY <1>1 DEF Snaps
<1>3. s.captured <= s.at /\ Moments[s.at].visible
  BY <1>1 DEF Fixed
<1>4. s.rows = [i \in 1..4 |-> Least(Seen(s)[Collections[i]])]
  <2>1. s.rows = [i \in 1..4 |-> s.rows[i]]
    <3> DEFINE q == s.rows
    <3>1. q \in Seq(Nat) /\ Len(q) = 4
      BY <1>1, <1>2
    <3> HIDE DEF q
    <3>2. q \in [1..Len(q) -> Nat]
      BY <3>1, LenProperties
    <3>3. q = [i \in 1..4 |-> q[i]]
      BY <3>1, <3>2
    <3> QED
      BY <3>3 DEF q
  <2>2. \A i \in 1..4 : s.rows[i] = Least(Seen(s)[Collections[i]])
    BY <1>1 DEF ReadSoFar
  <2> HIDE DEF s
  <2> QED
    BY <2>1, <2>2
<1>5. /\ s.statement => Seen(s)["statements"] > 0
      /\ s.truncated <=> \E i \in 1..4 : Seen(s)[Collections[i]] > MaxRows
  BY <1>1 DEF ReadSoFar
<1> QED
  BY <1>3, <1>4, <1>5 DEF Seen

LEMMA SnapInvInit == MonInit => SnapInv
<1> SUFFICES ASSUME MonInit PROVE SnapInv
  OBVIOUS
<1>1. moment \in 1..Len(Moments)
  BY MomentsAssumption DEF MonInit
<1>2. SnapOK(NoSnap, moment)
  BY DEF SnapOK, NoSnap, Snaps, Places, Results
<1> QED
  BY <1>1, <1>2 DEF MonInit, SnapInv

\* A step of one Read keeps the invariant if it leaves that Read in order.
LEMMA WatchKeepsInv ==
    ASSUME SnapInv, NEW w \in Watchers, NEW v, SnapOK(v, moment), SetSnap(w, v), UNCHANGED moment
    PROVE  SnapInv'
<1>1. DOMAIN snap' = Watchers /\ \A q \in Watchers : snap'[q] = IF q = w THEN v ELSE snap[q]
  BY DEF SnapInv, SetSnap
<1>2. \A q \in Watchers : SnapOK(snap'[q], moment)
  BY <1>1 DEF SnapInv
<1> QED
  BY <1>1, <1>2 DEF SnapInv

\* A Read that ends without an answer.
LEMMA EndsIsOK ==
    ASSUME NEW s \in Snaps, NEW now, NEW result \in Results \ {"ok"}
    PROVE  SnapOK(Ends(s, result), now)
  BY DEF SnapOK, Ends, Snaps, Places, Results

\* One scan: the collection is of the moment that was fixed.
LEMMA ScanIsOK ==
    ASSUME SnapInv, NEW w \in Watchers, Scans(w)
    PROVE  SnapInv'
<1> DEFINE s == snap[w]
           n == Show(s, Collections[Len(s.rows) + 1])
           rows == Append(s.rows, IF n > MaxRows THEN MaxRows ELSE n)
           t == [s EXCEPT !.truncated = Marked(s, n),
                          !.rows = Append(@, IF n > MaxRows THEN MaxRows ELSE n)]
           k == Len(s.rows) + 1
<1>1. /\ s.pc = "scanning" /\ s \in Snaps /\ Fixed(s, moment) /\ ReadSoFar(s) /\ Len(s.rows) < 4
      /\ s.conn = {} \/ \E a \in Attachments : s.conn = {a}
      /\ moment \in 1..Len(Moments)
  BY DEF SnapInv, SnapOK, Scans
<1>2. /\ s.rows \in Seq(Nat) /\ s.at \in 1..Len(Moments) /\ s.statement \in BOOLEAN
      /\ s.truncated \in BOOLEAN /\ MaxRows \in Nat
  BY <1>1, MaxRowsAssumption DEF Snaps, Fixed
<1>3. k \in 1..4 /\ Len(s.rows) \in Nat
  BY SMTT(30), <1>1, <1>2
<1>4. n = Seen(s)[Collections[k]]
  BY DEF Show, Seen, MomentOf
<1>5. n \in Nat
  BY <1>2, <1>3, <1>4, SeenIsNat
<1>6. /\ rows \in Seq(Nat) /\ Len(rows) = k
      /\ \A i \in 1..k : rows[i] = IF i = k THEN Least(n) ELSE s.rows[i]
  BY <1>2, <1>3, <1>5 DEF Least
<1>7. Marked(s, n) <=> s.truncated \/ n > MaxRows
  BY <1>2, <1>5 DEF Marked, Asked
<1>8. /\ t = [pc |-> s.pc, conn |-> s.conn, statement |-> s.statement, captured |-> s.captured,
              at |-> s.at, rows |-> rows, truncated |-> Marked(s, n), result |-> s.result]
      /\ t \in Snaps
  <2> DEFINE tr == Marked(s, n)
  <2>1. tr \in BOOLEAN /\ rows \in Seq(Nat)
    BY <1>6 DEF Marked
  <2>2. t = [s EXCEPT !.truncated = tr, !.rows = rows]
    OBVIOUS
  <2> HIDE DEF tr, rows, s
  <2>3. /\ [s EXCEPT !.truncated = tr, !.rows = rows] \in Snaps
        /\ [s EXCEPT !.truncated = tr, !.rows = rows]
           = [pc |-> s.pc, conn |-> s.conn, statement |-> s.statement, captured |-> s.captured,
              at |-> s.at, rows |-> rows, truncated |-> tr, result |-> s.result]
    <3> DEFINE s1 == [s EXCEPT !.truncated = tr]
    <3>1. [s EXCEPT !.truncated = tr, !.rows = rows] = [s1 EXCEPT !.rows = rows]
      OBVIOUS
    <3>2. /\ s1 \in Snaps
          /\ s1 = [pc |-> s.pc, conn |-> s.conn, statement |-> s.statement, captured |-> s.captured,
                   at |-> s.at, rows |-> s.rows, truncated |-> tr, result |-> s.result]
      <4>1. s \in Snaps /\ tr \in BOOLEAN
        BY <1>1, <2>1
      <4>2. s1 \in Snaps
        BY <4>1 DEF Snaps
      <4>3. s = [pc |-> s.pc, conn |-> s.conn, statement |-> s.statement, captured |-> s.captured,
                 at |-> s.at, rows |-> s.rows, truncated |-> s.truncated, result |-> s.result]
        BY <4>1 DEF Snaps
      <4> QED
        BY <4>2, <4>3
    <3> HIDE DEF s1
    <3>3. /\ s1.pc = s.pc /\ s1.conn = s.conn /\ s1.statement = s.statement
          /\ s1.captured = s.captured /\ s1.at = s.at /\ s1.truncated = tr /\ s1.result = s.result
      BY <3>2
    <3>4. /\ [s1 EXCEPT !.rows = rows] \in Snaps
          /\ [s1 EXCEPT !.rows = rows]
             = [pc |-> s1.pc, conn |-> s1.conn, statement |-> s1.statement, captured |-> s1.captured,
                at |-> s1.at, rows |-> rows, truncated |-> s1.truncated, result |-> s1.result]
      BY SMTT(30), <2>1, <3>2 DEF Snaps
    <3> QED
      BY <3>1, <3>3, <3>4
  <2> QED
    BY <2>2, <2>3 DEF tr, rows, s
<1>9. /\ t.at = s.at /\ t.statement = s.statement /\ t.rows = rows /\ t.captured = s.captured
      /\ t.conn = s.conn /\ t.pc = s.pc /\ (t.truncated <=> s.truncated \/ n > MaxRows)
  BY <1>7, <1>8
<1>10. Seen(t) = Seen(s) /\ Fixed(t, moment)
  BY <1>1, <1>9 DEF Seen, Fixed
<1> DEFINE out == IF Collections[k] = "statements" /\ s.statement /\ n = 0
                  THEN Ends(t, "statement not visible")
                  ELSE IF Len(t.rows) = Len(Collections)
                  THEN [t EXCEPT !.pc = "committing"] ELSE t
<1>11. SetSnap(w, out) /\ UNCHANGED moment
  BY DEF Scans
<1> HIDE DEF t, n, s, rows
<1>12. CASE Collections[k] = "statements" /\ s.statement /\ n = 0
  <2>1. SnapOK(Ends(t, "statement not visible"), moment)
    BY <1>8, EndsIsOK DEF Results
  <2> QED
    BY <1>11, <1>12, <2>1, WatchKeepsInv
<1>13. CASE ~ (Collections[k] = "statements" /\ s.statement /\ n = 0)
  <2>1. \A i \in 1..Len(t.rows) : t.rows[i] = Least(Seen(t)[Collections[i]])
    <3>1. SUFFICES ASSUME NEW i \in 1..k PROVE rows[i] = Least(Seen(s)[Collections[i]])
      BY <1>6, <1>9, <1>10
    <3>2. CASE i = k
      BY <1>4, <1>6, <3>2
    <3>3. CASE i # k
      <4>1. i \in 1..Len(s.rows) /\ rows[i] = s.rows[i]
        BY <1>3, <1>6, <3>3
      <4> QED
        BY <1>1, <4>1 DEF ReadSoFar
    <3> QED
      BY <3>2, <3>3
  <2>2. t.truncated <=> \E i \in 1..Len(t.rows) : Seen(t)[Collections[i]] > MaxRows
    <3>1. \A i \in 1..k : i = k \/ i \in 1..Len(s.rows)
      BY <1>3
    <3>2. \A i \in 1..Len(s.rows) : i \in 1..k
      BY <1>3
    <3>3. s.truncated <=> \E i \in 1..Len(s.rows) : Seen(s)[Collections[i]] > MaxRows
      BY <1>1 DEF ReadSoFar
    <3>4. k \in 1..k
      BY <1>3
    <3> QED
      BY <1>4, <1>6, <1>9, <1>10, <3>1, <3>2, <3>3, <3>4
  <2>3. t.statement => Seen(t)["statements"] > 0
    <3>1. CASE Len(s.rows) > 0
      BY <1>1, <1>9, <1>10, <3>1 DEF ReadSoFar
    <3>2. CASE Len(s.rows) = 0
      <4>1. k = 1 /\ Collections[k] = "statements"
        BY <3>2 DEF Collections
      <4> QED
        BY <1>4, <1>5, <1>9, <1>10, <1>13, <4>1
    <3> QED
      BY <1>3, <3>1, <3>2
  <2>4. ReadSoFar(t)
    BY <2>1, <2>2, <2>3 DEF ReadSoFar
  <2>5. Len(t.rows) = k /\ Len(Collections) = 4
    BY <1>6, <1>9 DEF Collections
  <2>6. CASE k # 4
    <3>1. SnapOK(t, moment)
      BY <1>1, <1>3, <1>8, <1>9, <1>10, <2>4, <2>5, <2>6 DEF SnapOK
    <3>2. out = t
      BY <1>13, <2>5, <2>6
    <3> HIDE DEF out
    <3> QED
      BY <1>11, <3>1, <3>2, WatchKeepsInv
  <2>7. CASE k = 4
    <3> DEFINE u == [t EXCEPT !.pc = "committing"]
    <3>1. /\ u \in Snaps /\ u.pc = "committing" /\ u.conn = t.conn /\ u.rows = t.rows
          /\ u.at = t.at /\ u.statement = t.statement /\ u.captured = t.captured
          /\ u.truncated = t.truncated
      BY <1>8 DEF Snaps, Places
    <3>2. Seen(u) = Seen(t) /\ Fixed(u, moment) /\ ReadSoFar(u)
      BY <1>10, <2>4, <3>1 DEF Seen, Fixed, ReadSoFar
    <3>3. out = u
      BY <1>13, <2>5, <2>7
    <3> HIDE DEF u, out
    <3>4. SnapOK(u, moment)
      BY <1>1, <1>9, <2>5, <2>7, <3>1, <3>2 DEF SnapOK
    <3> QED
      BY <1>11, <3>3, <3>4, WatchKeepsInv
  <2> QED
    BY <2>6, <2>7
<1> QED
  BY <1>12, <1>13

\* Every step of the monitoring readers, and of the server, keeps the invariant.
LEMMA SnapInvStep == SnapInv /\ (MonStep \/ UNCHANGED monVars) => SnapInv'
<1> SUFFICES ASSUME SnapInv, MonStep \/ UNCHANGED monVars PROVE SnapInv'
  OBVIOUS
<1>1. CASE Passes
  <2>1. moment' = moment + 1 /\ moment' \in 1..Len(Moments) /\ UNCHANGED snap
    BY <1>1, MomentsAssumption DEF Passes, SnapInv
  <2>2. \A s : SnapOK(s, moment) => SnapOK(s, moment')
    BY <2>1 DEF SnapOK, Fixed, SnapInv
  <2> QED
    BY <2>1, <2>2 DEF SnapInv
<1>2. ASSUME NEW w \in Watchers, NEW statement \in BOOLEAN, Asks(w, statement) PROVE SnapInv'
  <2> DEFINE v == [NoSnap EXCEPT !.pc = "acquiring", !.statement = statement]
  <2>1. v = [pc |-> "acquiring", conn |-> {}, statement |-> statement, captured |-> 0, at |-> 0,
             rows |-> <<>>, truncated |-> FALSE, result |-> ""]
    <3> DEFINE s1 == [NoSnap EXCEPT !.pc = "acquiring"]
    <3>1. v = [s1 EXCEPT !.statement = statement]
      OBVIOUS
    <3>2. s1 = [pc |-> "acquiring", conn |-> {}, statement |-> FALSE, captured |-> 0, at |-> 0,
                rows |-> <<>>, truncated |-> FALSE, result |-> ""]
      <4>1. NoSnap = [pc |-> "idle", conn |-> {}, statement |-> FALSE, captured |-> 0, at |-> 0,
                      rows |-> <<>>, truncated |-> FALSE, result |-> ""]
        BY DEF NoSnap
      <4> DEFINE s0 == NoSnap
      <4>2. /\ s0 = [pc |-> s0.pc, conn |-> s0.conn, statement |-> s0.statement,
                     captured |-> s0.captured, at |-> s0.at, rows |-> s0.rows,
                     truncated |-> s0.truncated, result |-> s0.result]
        BY <4>1
      <4>4. /\ s0.conn = {} /\ s0.statement = FALSE /\ s0.captured = 0 /\ s0.at = 0
            /\ s0.rows = <<>> /\ s0.truncated = FALSE /\ s0.result = ""
        BY <4>1
      <4> HIDE DEF s0
      <4>3. s1 = [pc |-> "acquiring", conn |-> s0.conn, statement |-> s0.statement,
                  captured |-> s0.captured, at |-> s0.at, rows |-> s0.rows,
                  truncated |-> s0.truncated, result |-> s0.result]
        <5>1. s1 = [s0 EXCEPT !.pc = "acquiring"]
          BY DEF s0
        <5> HIDE DEF s1
        <5> QED
          BY <4>2, <5>1
      <4> QED
        BY <4>3, <4>4
    <3> HIDE DEF s1, v
    <3> QED
      BY <3>1, <3>2
  <2>2. SnapOK(v, moment)
    <3> HIDE DEF v
    <3>1. v \in Snaps
      BY <2>1, IsSnap DEF Places, Results
    <3> QED
      BY <2>1, <3>1 DEF SnapOK
  <2>3. SetSnap(w, v) /\ UNCHANGED moment
    BY <1>2 DEF Asks
  <2> QED
    BY <2>2, <2>3, WatchKeepsInv
<1>3. ASSUME NEW w \in Watchers, Failed(w) PROVE SnapInv'
  <2>1. SnapOK(Ends(snap[w], "error"), moment)
    BY EndsIsOK DEF SnapInv, SnapOK, Results
  <2>2. SetSnap(w, Ends(snap[w], "error")) /\ UNCHANGED moment
    BY <1>3 DEF Failed
  <2> QED
    BY <2>1, <2>2, WatchKeepsInv
<1>4. ASSUME NEW w \in Watchers, NEW a \in Attachments, Acquires(w, a) PROVE SnapInv'
  <2> DEFINE v == [snap[w] EXCEPT !.pc = "checking", !.conn = {a}]
  <2>1. SnapOK(snap[w], moment) /\ snap[w].pc = "acquiring"
    BY <1>4 DEF Acquires, SnapInv
  <2>2. SnapOK(v, moment)
    BY <2>1 DEF SnapOK, Snaps, Places
  <2>3. SetSnap(w, v) /\ UNCHANGED moment
    BY <1>4 DEF Acquires
  <2> QED
    BY <2>2, <2>3, WatchKeepsInv
<1>5. ASSUME NEW w \in Watchers, Checks(w) PROVE SnapInv'
  <2> DEFINE v == [snap[w] EXCEPT !.pc = "capturing"]
             u == Ends(snap[w], "same attachment")
  <2>1. SnapOK(snap[w], moment) /\ snap[w].pc = "checking"
    BY <1>5 DEF Checks, SnapInv
  <2>2. SnapOK(v, moment)
    BY <2>1 DEF SnapOK, Snaps, Places
  <2>3. SnapOK(u, moment)
    BY <2>1, EndsIsOK DEF SnapOK, Results
  <2>4. (SetSnap(w, u) \/ SetSnap(w, v)) /\ UNCHANGED moment
    BY <1>5 DEF Checks
  <2> HIDE DEF u, v
  <2> QED
    BY <2>2, <2>3, <2>4, WatchKeepsInv
<1>6. ASSUME NEW w \in Watchers, Captures(w) PROVE SnapInv'
  <2> DEFINE v == [snap[w] EXCEPT !.pc = "fixing", !.captured = moment]
  <2>1. SnapOK(snap[w], moment) /\ snap[w].pc = "capturing" /\ moment \in 1..Len(Moments)
    BY <1>6 DEF Captures, SnapInv
  <2>2. SnapOK(v, moment)
    <3> DEFINE s == snap[w]
    <3>1. s \in Snaps
      BY <2>1 DEF SnapOK
    <3>2. v = [pc |-> "fixing", conn |-> s.conn, statement |-> s.statement, captured |-> moment,
               at |-> s.at, rows |-> s.rows, truncated |-> s.truncated, result |-> s.result]
      <4> DEFINE s1 == [s EXCEPT !.pc = "fixing"]
      <4>1. v = [s1 EXCEPT !.captured = moment]
        OBVIOUS
      <4>2. s1 = [pc |-> "fixing", conn |-> s.conn, statement |-> s.statement,
                  captured |-> s.captured, at |-> s.at, rows |-> s.rows,
                  truncated |-> s.truncated, result |-> s.result]
        BY <3>1, SnapIsRecord
      <4> HIDE DEF s1, v, s
      <4> QED
        BY <4>1, <4>2
    <3> HIDE DEF v
    <3>3. v \in Snaps
      BY <2>1, <3>1, <3>2 DEF Snaps, Places
    <3> QED
      BY <2>1, <3>2, <3>3 DEF SnapOK
  <2>3. SetSnap(w, v) /\ UNCHANGED moment
    BY <1>6 DEF Captures
  <2> QED
    BY <2>2, <2>3, WatchKeepsInv
<1>7. ASSUME NEW w \in Watchers, Fixes(w) PROVE SnapInv'
  <2> DEFINE v == [snap[w] EXCEPT !.pc = "scanning", !.at = moment]
             t == [snap[w] EXCEPT !.at = moment]
             u == Ends(t, "target not visible")
  <2>1. SnapOK(snap[w], moment) /\ snap[w].pc = "fixing" /\ moment \in 1..Len(Moments)
    BY <1>7 DEF Fixes, SnapInv
  <2>2. ASSUME Moments[moment].visible PROVE SnapOK(v, moment)
    <3>1. /\ v \in Snaps /\ v.pc = "scanning" /\ v.conn = snap[w].conn /\ v.rows = <<>>
          /\ ~ v.truncated /\ v.at = moment /\ v.captured = snap[w].captured
      <4> DEFINE s == snap[w]
      <4>1. s \in Snaps
        BY <2>1 DEF SnapOK
      <4>2. v = [pc |-> "scanning", conn |-> s.conn, statement |-> s.statement, captured |-> s.captured,
                 at |-> moment, rows |-> s.rows, truncated |-> s.truncated, result |-> s.result]
        <5> DEFINE s1 == [s EXCEPT !.pc = "scanning"]
        <5>1. v = [s1 EXCEPT !.at = moment]
          OBVIOUS
        <5>2. s1 = [pc |-> "scanning", conn |-> s.conn, statement |-> s.statement,
                    captured |-> s.captured, at |-> s.at, rows |-> s.rows,
                    truncated |-> s.truncated, result |-> s.result]
          BY <4>1, SnapIsRecord
        <5> HIDE DEF s1, v, s
        <5> QED
          BY <5>1, <5>2
      <4> HIDE DEF v
      <4>3. v \in Snaps
        BY <2>1, <4>1, <4>2 DEF Snaps, Places
      <4> QED
        BY <2>1, <4>2, <4>3 DEF SnapOK
    <3> HIDE DEF v
    <3>2. Fixed(v, moment) /\ ReadSoFar(v)
      BY <2>1, <2>2, <3>1 DEF SnapOK, Fixed, ReadSoFar
    <3> QED
      BY <2>1, <3>1, <3>2 DEF SnapOK
  <2>3. t \in Snaps
    BY <2>1 DEF SnapOK, Snaps
  <2>4. SnapOK(u, moment)
    BY <2>3, EndsIsOK DEF Results
  <2>5. SetSnap(w, IF Moments[moment].visible THEN v ELSE u) /\ UNCHANGED moment
    BY <1>7 DEF Fixes
  <2> HIDE DEF u, v
  <2> QED
    BY <2>2, <2>4, <2>5, WatchKeepsInv
<1>8. ASSUME NEW w \in Watchers, CommitsSnap(w) PROVE SnapInv'
  <2> DEFINE v == Ends(snap[w], "ok")
  <2>1. SnapOK(snap[w], moment) /\ snap[w].pc = "committing"
    BY <1>8 DEF CommitsSnap, SnapInv
  <2>2. /\ v \in Snaps /\ v.pc = "answered" /\ v.conn = {} /\ v.rows = snap[w].rows
        /\ v.at = snap[w].at /\ v.statement = snap[w].statement
        /\ v.captured = snap[w].captured /\ v.truncated = snap[w].truncated
    BY <2>1 DEF SnapOK, Snaps, Places, Ends, Results
  <2>3. SetSnap(w, v) /\ UNCHANGED moment
    BY <1>8 DEF CommitsSnap
  <2> HIDE DEF v
  <2>4. SnapOK(v, moment)
    <3>1. Seen(v) = Seen(snap[w])
      BY <2>2 DEF Seen
    <3>2. Fixed(v, moment) /\ ReadSoFar(v) /\ Len(v.rows) = 4
      BY <2>1, <2>2, <3>1 DEF SnapOK, Fixed, ReadSoFar
    <3> QED
      BY <2>2, <3>2 DEF SnapOK
  <2> QED
    BY <2>3, <2>4, WatchKeepsInv
<1>9. ASSUME NEW w \in Watchers, Reports(w) PROVE SnapInv'
  <2> DEFINE v == [NoSnap EXCEPT !.conn = snap[w].conn]
  <2>1. snap[w].conn = {}
    BY <1>9 DEF Reports, SnapInv, SnapOK
  <2>2. v = [pc |-> "idle", conn |-> {}, statement |-> FALSE, captured |-> 0, at |-> 0,
             rows |-> <<>>, truncated |-> FALSE, result |-> ""]
    <3> DEFINE c == snap[w].conn
    <3>1. v = [NoSnap EXCEPT !.conn = c] /\ c = {}
      BY <2>1
    <3> HIDE DEF v, c
    <3> QED
      BY <3>1 DEF NoSnap
  <2>3. SnapOK(v, moment)
    <3> HIDE DEF v
    <3>1. v \in Snaps
      BY <2>2, IsSnap DEF Places, Results
    <3> QED
      BY <2>2, <3>1 DEF SnapOK
  <2>4. SetSnap(w, v) /\ UNCHANGED moment
    BY <1>9 DEF Reports
  <2> QED
    BY <2>3, <2>4, WatchKeepsInv
<1>10. CASE UNCHANGED monVars
  BY <1>10 DEF monVars, SnapInv
<1>11. ASSUME NEW w \in Watchers, MonAcquires(w) PROVE SnapInv'
  BY <1>4, <1>11 DEF MonAcquires
<1> QED
  BY <1>1, <1>2, <1>3, <1>5, <1>6, <1>7, <1>8, <1>9, <1>10, <1>11, ScanIsOK
     DEF MonStep, Watching, Proceeds

\* SnapshotIsOneMoment, as the run checks it: whatever the server does between the
\* queries of a Read, and whatever other readers do, an answer is one moment of a
\* target that was visible, each collection bounded and the loss reported
\* (reader.go:122-197).
THEOREM SnapshotsAreOneMoment == Spec => []SnapshotIsOneMoment
<1>1. Init => SnapInv
  BY SnapInvInit DEF Init
<1>2. SnapInv /\ [Next]_vars => SnapInv'
  <2>1. [Next]_vars => MonStep \/ UNCHANGED monVars
    BY DEF Next, vars
  <2> QED
    BY <2>1, SnapInvStep
<1>3. SnapInv => SnapshotIsOneMoment
  BY SnapInvImplies
<1> QED
  BY <1>1, <1>2, <1>3, PTL DEF Spec

-----------------------------------------------------------------------------
(* The graph of a walk is exact. *)

Catalogs == [Objects -> SUBSET Objects]

Closed(X, deps) == \A o \in X : Succ(o, deps) \subseteq X

LEMMA SuccIsObjects ==
    ASSUME NEW deps \in Catalogs, NEW o \in Objects
    PROVE  Succ(o, deps) \subseteq Objects
  BY BodyAssumption DEF Succ, Packaged, Catalogs

\* reach, one step after the other.
LEMMA ReachSteps ==
    ASSUME NEW root, NEW deps
    PROVE  /\ Within(root, deps)[0] = {root}
           /\ \A n \in 1..Cardinality(Objects) :
                 Within(root, deps)[n] = Within(root, deps)[n - 1]
                     \cup UNION {Succ(o, deps) : o \in Within(root, deps)[n - 1]}
<1> DEFINE N == Cardinality(Objects)
           More(X) == X \cup UNION {Succ(o, deps) : o \in X}
           Step(f, n) == IF n = 0 THEN {root} ELSE More(f[n - 1])
           reach == CHOOSE f : f = [n \in 0..N |-> Step(f, n)]
<1>1. N \in Nat
  BY ObjectsAssumption, FS_CardinalityType
<1>2. Within(root, deps) = reach
  BY DEF Within
<1> HIDE DEF N, More
<1>3. reach = [n \in 0..N |-> Step(reach, n)]
  <2> DEFINE S == {k \in 0..N : \E f : f = [n \in 0..k |-> Step(f, n)]}
  <2>1. 0 \in S
    <3> DEFINE f == [n \in 0..0 |-> {root}]
    <3>1. f = [n \in 0..0 |-> Step(f, n)]
      OBVIOUS
    <3> HIDE DEF f
    <3>2. \E g : g = [n \in 0..0 |-> Step(g, n)]
      BY <3>1, Zenon
    <3> HIDE DEF Step
    <3> QED
      BY <1>1, <3>2
  <2>2. ASSUME NEW k \in 1..N, k - 1 \in S
        PROVE  k \in S
    <3>1. PICK g : g = [n \in 0..(k - 1) |-> Step(g, n)]
      BY <2>2
    <3> DEFINE f == [n \in 0..k |-> IF n = k THEN More(g[k - 1]) ELSE g[n]]
    <3>2. \A n \in 0..k : f[n] = IF n = k THEN More(g[k - 1]) ELSE g[n]
      OBVIOUS
    <3>3. \A n \in 0..k : f[n] = Step(f, n)
      <4> HIDE DEF f
      <4>1. ASSUME NEW n \in 0..k PROVE f[n] = Step(f, n)
        <5>1. CASE n = k
          BY <3>2, <5>1
        <5>2. CASE n # k
          <6>1. n \in 0..(k - 1) /\ f[n] = g[n]
            BY <3>2, <5>2
          <6>2. g[n] = Step(g, n)
            <7> HIDE DEF Step
            <7> QED
              BY <3>1, <6>1
          <6>3. n # 0 => f[n - 1] = g[n - 1]
            BY <3>2, <5>2
          <6> QED
            BY <6>1, <6>2, <6>3
        <5> QED
          BY <5>1, <5>2
      <4> QED
        BY <4>1
    <3>4. f = [n \in 0..k |-> Step(f, n)]
      <4>1. f = [n \in 0..k |-> f[n]]
        OBVIOUS
      <4> HIDE DEF f, Step
      <4> QED
        BY <3>3, <4>1
    <3> HIDE DEF f
    <3>5. \E h : h = [n \in 0..k |-> Step(h, n)]
      BY <3>4, Zenon
    <3> HIDE DEF Step
    <3> QED
      BY <3>5
  <2>3. N \in S
    <3> HIDE DEF S
    <3> QED
      BY <1>1, <2>1, <2>2, UpTo
  <2>4. \E f : f = [n \in 0..N |-> Step(f, n)]
    BY <2>3
  <2> QED
    BY <2>4
<1> HIDE DEF reach
<1>4. \A n \in 0..N : reach[n] = Step(reach, n)
  <2> HIDE DEF Step
  <2> QED
    BY <1>3
<1>5. 0 \in 0..N /\ \A n \in 1..N : n \in 0..N /\ n # 0
  BY <1>1
<1>6. reach[0] = {root} /\ \A n \in 1..N : reach[n] = More(reach[n - 1])
  BY <1>4, <1>5
<1> QED
  BY <1>2, <1>6 DEF More, N

\* Reachable is what it says: it holds the root, whatever its members depend on, and
\* nothing that a closed set with the root can do without.
LEMMA ReachableIsClosure ==
    ASSUME NEW deps \in Catalogs, NEW root \in Objects
    PROVE  /\ root \in Reachable(root, deps)
           /\ Reachable(root, deps) \subseteq Objects
           /\ Closed(Reachable(root, deps), deps)
           /\ \A X : root \in X /\ Closed(X, deps) => Reachable(root, deps) \subseteq X
<1> DEFINE N == Cardinality(Objects)
           r == Within(root, deps)
           Next1(X) == UNION {Succ(o, deps) : o \in X}
<1>1. N \in Nat /\ 0 \in 0..N /\ N \in 0..N
  BY ObjectsAssumption, FS_CardinalityType
<1>2. r[0] = {root} /\ \A n \in 1..N : r[n] = r[n - 1] \cup Next1(r[n - 1])
  BY ReachSteps
<1>3. Reachable(root, deps) = r[N]
  BY DEF Reachable
<1> HIDE DEF N, r
<1>4. \A n \in 0..N : root \in r[n] /\ r[n] \subseteq Objects
  <2> DEFINE S == {n \in 0..N : root \in r[n] /\ r[n] \subseteq Objects}
  <2>1. 0 \in S
    BY <1>1, <1>2
  <2>2. ASSUME NEW n \in 1..N, n - 1 \in S PROVE n \in S
    <3>1. root \in r[n - 1] /\ r[n - 1] \subseteq Objects
      BY <2>2
    <3>2. Next1(r[n - 1]) \subseteq Objects
      BY <3>1, SuccIsObjects
    <3> HIDE DEF Next1
    <3>3. root \in r[n] /\ r[n] \subseteq Objects
      BY <1>2, <3>1, <3>2
    <3> QED
      BY <1>1, <3>3
  <2>3. 0..N \subseteq S
    <3> HIDE DEF S
    <3> QED
      BY <1>1, <2>1, <2>2, UpTo
  <2> QED
    BY <2>3
<1>5. \A n \in 0..N : Closed(r[n], deps) \/ Cardinality(r[n]) > n
  <2> DEFINE S == {n \in 0..N : Closed(r[n], deps) \/ Cardinality(r[n]) > n}
  <2>1. 0 \in S
    <3>1. Cardinality(r[0]) = 1
      BY <1>2, FS_Singleton
    <3> QED
      BY <1>1, <3>1
  <2>2. ASSUME NEW n \in 1..N, n - 1 \in S PROVE n \in S
    <3> DEFINE R == r[n - 1]
               Q == r[n]
    <3>1. n - 1 \in 0..N /\ n \in 0..N
      BY <1>1
    <3>2. /\ Closed(R, deps) \/ Cardinality(R) > n - 1
          /\ Q = R \cup Next1(R) /\ R \subseteq Objects /\ Q \subseteq Objects
      BY <1>2, <1>4, <2>2, <3>1
    <3> HIDE DEF R, Q
    <3>3. CASE Closed(R, deps)
      <4>1. Q = R
        BY <3>2, <3>3 DEF Closed
      <4>2. Closed(Q, deps)
        BY <3>3, <4>1
      <4> QED
        BY <3>1, <4>2 DEF Q
    <3>4. CASE ~ Closed(R, deps)
      <4>1. Q # R /\ R \subseteq Q
        BY <3>2, <3>4 DEF Closed
      <4>2. IsFiniteSet(Q) /\ IsFiniteSet(R)
        BY <3>2, ObjectsAssumption, FS_Subset
      <4>3. Cardinality(Q) \in Nat /\ Cardinality(R) \in Nat
        BY <4>2, FS_CardinalityType
      <4>4. Cardinality(R) <= Cardinality(Q) /\ Cardinality(Q) # Cardinality(R)
        BY <4>1, <4>2, FS_Subset
      <4>5. Cardinality(Q) > n
        BY <3>2, <3>4, <4>3, <4>4
      <4> QED
        BY <3>1, <4>5 DEF Q
    <3> QED
      BY <3>3, <3>4
  <2>3. 0..N \subseteq S
    <3> HIDE DEF S
    <3> QED
      BY <1>1, <2>1, <2>2, UpTo
  <2> QED
    BY <2>3
<1>6. Closed(r[N], deps)
  <2>1. r[N] \subseteq Objects
    BY <1>1, <1>4
  <2>2. Cardinality(r[N]) <= Cardinality(Objects) /\ Cardinality(r[N]) \in Nat
    BY <2>1, ObjectsAssumption, FS_Subset, FS_CardinalityType
  <2>3. ~ (Cardinality(r[N]) > N)
    BY <1>1, <2>2 DEF N
  <2> QED
    BY <1>1, <1>5, <2>3
<1>7. ASSUME NEW X, root \in X, Closed(X, deps) PROVE r[N] \subseteq X
  <2> DEFINE S == {n \in 0..N : r[n] \subseteq X}
  <2>1. 0 \in S
    BY <1>1, <1>2, <1>7
  <2>2. ASSUME NEW n \in 1..N, n - 1 \in S PROVE n \in S
    <3>1. r[n - 1] \subseteq X
      BY <2>2
    <3>2. Next1(r[n - 1]) \subseteq X
      BY <1>7, <3>1 DEF Closed
    <3> HIDE DEF Next1
    <3>3. r[n] \subseteq X
      BY <1>2, <3>1, <3>2
    <3> QED
      BY <1>1, <3>3
  <2>3. 0..N \subseteq S
    <3> HIDE DEF S
    <3> QED
      BY <1>1, <2>1, <2>2, UpTo
  <2> QED
    BY <1>1, <2>3
<1> QED
  BY <1>1, <1>3, <1>4, <1>6, <1>7

LEMMA EdgesOfNodes ==
    ASSUME NEW deps \in Catalogs, NEW nodes \in SUBSET Objects, NEW e
    PROVE  e \in EdgesOf(nodes, deps) <=> \E o \in nodes : \E p \in Succ(o, deps) : e = Edge(o, p)
<1>1. ASSUME NEW o \in nodes, NEW p \in Succ(o, deps) PROVE Edge(o, p) \in EdgesOf(nodes, deps)
  <2>1. p \in Objects
    BY SuccIsObjects
  <2>2. Edge(o, p) \in {Edge(x, y) : x \in nodes, y \in Objects}
    BY <2>1
  <2>3. Edge(o, p) \in UNION {{Edge(x, y) : y \in Succ(x, deps)} : x \in nodes}
    OBVIOUS
  <2> QED
    BY <2>2, <2>3 DEF EdgesOf
<1>2. ASSUME e \in EdgesOf(nodes, deps)
      PROVE  \E o \in nodes : \E p \in Succ(o, deps) : e = Edge(o, p)
  BY <1>2 DEF EdgesOf
<1> QED
  BY <1>1, <1>2

QueueItems == [object : Objects, depth : Nat]

Queued(w) == {w.queue[i].object : i \in 1..Len(w.queue)}

\* A graph has nothing that it should not have; what waits in the queue is part of it.
Sound(w, root, deps) ==
    /\ IsWalk(w)
    /\ w.queue \in Seq(QueueItems)
    /\ root \in w.nodes
    /\ w.nodes \subseteq Reachable(root, deps)
    /\ w.edges \subseteq EdgesOf(w.nodes, deps)
    /\ \A o \in Queued(w) : o \in w.nodes /\ ~ Packaged(o)

\* All that o depends on is in the graph.
Done(w, o, deps) == \A p \in Succ(o, deps) : p \in w.nodes /\ Edge(o, p) \in w.edges

\* A graph that is not truncated lacks only what comes from the queue, or from the
\* objects of but.
Complete(w, deps, but) ==
    ~ w.truncated => \A o \in w.nodes : o \in Queued(w) \/ o \in but \/ Done(w, o, deps)

\* What a step of a walk may do: it adds objects, each to the queue or with all that
\* it depends on.
LEMMA GrownIsSound ==
    ASSUME NEW deps \in Catalogs, NEW root \in Objects, NEW w, Sound(w, root, deps),
           NEW v, IsWalk(v), v.queue \in Seq(QueueItems),
           w.nodes \subseteq v.nodes, w.edges \subseteq v.edges, Queued(w) \subseteq Queued(v),
           v.nodes \subseteq Reachable(root, deps),
           v.edges \subseteq EdgesOf(v.nodes, deps),
           \A o \in Queued(v) \ Queued(w) : o \in v.nodes /\ ~ Packaged(o)
    PROVE  Sound(v, root, deps)
  BY DEF Sound

LEMMA GrownIsComplete ==
    ASSUME NEW deps \in Catalogs, NEW w, NEW v, NEW but, Complete(w, deps, but),
           ~ v.truncated => ~ w.truncated,
           w.nodes \subseteq v.nodes, w.edges \subseteq v.edges, Queued(w) \subseteq Queued(v),
           \A o \in v.nodes \ w.nodes : o \in Queued(v) \/ Done(v, o, deps)
    PROVE  Complete(v, deps, but)
<1>1. \A o : Done(w, o, deps) => Done(v, o, deps)
  BY DEF Done
<1> QED
  BY <1>1 DEF Complete

LEMMA MoreEdges ==
    ASSUME NEW deps \in Catalogs, NEW nodes \in SUBSET Objects, NEW more \in SUBSET Objects,
           nodes \subseteq more
    PROVE  EdgesOf(nodes, deps) \subseteq EdgesOf(more, deps)
  BY EdgesOfNodes

\* The fields of what the steps make of a walk.
LEMMA WalkFields ==
    ASSUME NEW w, IsWalk(w)
    PROVE  /\ \A from, to :
                 /\ WithEdge(w, from, to).nodes = w.nodes \cup {to}
                 /\ WithEdge(w, from, to).edges = w.edges \cup {Edge(from, to)}
                 /\ WithEdge(w, from, to).queue = w.queue
                 /\ WithEdge(w, from, to).truncated = w.truncated
           /\ \A o, d :
                 /\ Enqueued(w, o, d).nodes = w.nodes
                 /\ Enqueued(w, o, d).edges = w.edges
                 /\ Enqueued(w, o, d).queue = Append(w.queue, [object |-> o, depth |-> d])
                 /\ Enqueued(w, o, d).truncated = w.truncated
           /\ Truncate(w).nodes = w.nodes /\ Truncate(w).edges = w.edges
           /\ Truncate(w).queue = w.queue /\ Truncate(w).truncated
           /\ Rest(w).nodes = w.nodes /\ Rest(w).edges = w.edges
           /\ Rest(w).queue = Tail(w.queue) /\ Rest(w).truncated = w.truncated
<1>1. w = [nodes |-> w.nodes, edges |-> w.edges, truncated |-> w.truncated, queue |-> w.queue]
  BY DEF IsWalk
<1> QED
  BY <1>1 DEF WithEdge, Enqueued, Truncate, Rest

LEMMA EnqueuedFields ==
    ASSUME NEW w, IsWalk(w), NEW o, NEW d
    PROVE  /\ IsWalk(Enqueued(w, o, d))
           /\ Enqueued(w, o, d).nodes = w.nodes
           /\ Enqueued(w, o, d).edges = w.edges
           /\ Enqueued(w, o, d).truncated = w.truncated
<1>1. IsWalk(Enqueued(w, o, d))
  BY SameGraphIsWalk
<1>2. w = [nodes |-> w.nodes, edges |-> w.edges, truncated |-> w.truncated, queue |-> w.queue]
  BY DEF IsWalk
<1> QED
  BY <1>1, <1>2 DEF Enqueued

LEMMA QueuedOneMore ==
    ASSUME NEW w, IsWalk(w), w.queue \in Seq(QueueItems), NEW o \in Objects, NEW d \in Nat
    PROVE  /\ Enqueued(w, o, d).queue \in Seq(QueueItems)
           /\ Queued(Enqueued(w, o, d)) = Queued(w) \cup {o}
<1> DEFINE item == [object |-> o, depth |-> d]
           q == w.queue
           v == Enqueued(w, o, d)
<1>1. v.queue = Append(q, item)
  BY WalkFields
<1>2. item \in QueueItems /\ item.object = o
  BY DEF QueueItems
<1>3. q \in Seq(QueueItems) /\ Len(q) \in Nat
  OBVIOUS
<1> HIDE DEF item, q, v
<1>4. /\ Append(q, item) \in Seq(QueueItems) /\ Len(Append(q, item)) = Len(q) + 1
      /\ Append(q, item)[Len(q) + 1] = item
      /\ \A i \in 1..Len(q) : Append(q, item)[i] = q[i]
  BY <1>2, <1>3
<1>5. Queued(v) = {v.queue[i].object : i \in 1..Len(v.queue)}
  BY DEF Queued
<1>6. Queued(w) = {q[i].object : i \in 1..Len(q)}
  BY DEF Queued, q
<1>7. Queued(v) \subseteq Queued(w) \cup {o}
  <2>1. SUFFICES ASSUME NEW i \in 1..(Len(q) + 1)
                 PROVE  v.queue[i].object \in Queued(w) \cup {o}
    BY <1>1, <1>4, <1>5
  <2>2. CASE i = Len(q) + 1
    BY <1>1, <1>2, <1>4, <2>2
  <2>3. CASE i # Len(q) + 1
    <3>1. i \in 1..Len(q)
      BY <1>3, <2>3
    <3> QED
      BY <1>1, <1>4, <1>6, <3>1
  <2> QED
    BY <2>2, <2>3
<1>8. Queued(w) \subseteq Queued(v)
  <2>1. SUFFICES ASSUME NEW i \in 1..Len(q) PROVE q[i].object \in Queued(v)
    BY <1>6
  <2>2. i \in 1..(Len(q) + 1)
    BY <1>3
  <2> QED
    BY <1>1, <1>4, <1>5, <2>2
<1>9. o \in Queued(v)
  <2>1. Len(q) + 1 \in 1..(Len(q) + 1)
    BY <1>3
  <2> QED
    BY <1>1, <1>2, <1>4, <1>5, <2>1
<1> QED
  BY <1>1, <1>4, <1>7, <1>8, <1>9 DEF v

LEMMA RestIsSound ==
    ASSUME NEW deps \in Catalogs, NEW root \in Objects, NEW w, Sound(w, root, deps),
           w.queue # <<>>, Complete(w, deps, {})
    PROVE  /\ Head(w.queue) \in QueueItems
           /\ Head(w.queue).object \in w.nodes /\ ~ Packaged(Head(w.queue).object)
           /\ Sound(Rest(w), root, deps)
           /\ Complete(Rest(w), deps, {Head(w.queue).object})
<1> DEFINE q == w.queue
           v == Rest(w)
<1>1. /\ IsWalk(w) /\ q \in Seq(QueueItems) /\ q # <<>> /\ IsWalk(v)
      /\ v.nodes = w.nodes /\ v.edges = w.edges /\ v.queue = Tail(q)
      /\ v.truncated = w.truncated
  BY WalkFields, SameGraphIsWalk DEF Sound
<1>2. /\ Head(q) \in QueueItems /\ Tail(q) \in Seq(QueueItems) /\ Len(Tail(q)) = Len(q) - 1
      /\ Head(q) = q[1] /\ Len(q) \in Nat \ {0}
      /\ \A i \in 1..Len(Tail(q)) : Tail(q)[i] = q[i + 1]
  BY <1>1, HeadTailProperties, EmptySeq
<1>3. Queued(w) = {q[i].object : i \in 1..Len(q)}
  BY DEF Queued
<1>4. Queued(v) = {Tail(q)[i].object : i \in 1..Len(Tail(q))}
  BY <1>1 DEF Queued
<1> HIDE DEF q, v
<1>5. Queued(v) \subseteq Queued(w)
  <2>1. SUFFICES ASSUME NEW i \in 1..Len(Tail(q)) PROVE Tail(q)[i].object \in Queued(w)
    BY <1>4
  <2>2. i + 1 \in 1..Len(q) /\ Tail(q)[i] = q[i + 1]
    BY <1>2
  <2> QED
    BY <1>3, <2>2
<1>6. Queued(w) \subseteq Queued(v) \cup {Head(q).object}
  <2>1. SUFFICES ASSUME NEW i \in 1..Len(q)
                 PROVE  q[i].object \in Queued(v) \cup {Head(q).object}
    BY <1>3
  <2>2. CASE i = 1
    BY <1>2, <2>2
  <2>3. CASE i # 1
    <3>1. i - 1 \in 1..Len(Tail(q)) /\ Tail(q)[i - 1] = q[i]
      BY <1>2, <2>3
    <3> QED
      BY <1>4, <3>1
  <2> QED
    BY <2>2, <2>3
<1>7. Head(q).object \in Queued(w)
  <2>1. 1 \in 1..Len(q)
    BY <1>2
  <2> QED
    BY <1>2, <1>3, <2>1
<1>8. Sound(v, root, deps)
  BY <1>1, <1>2, <1>5 DEF Sound
<1>9. \A o : Done(w, o, deps) => Done(v, o, deps)
  BY <1>1 DEF Done
<1>10. Complete(v, deps, {Head(q).object})
  BY <1>1, <1>6, <1>9 DEF Complete
<1> QED
  BY <1>2, <1>7, <1>8, <1>10 DEF Sound, q, v

\* An edge to what an object of the graph depends on.
LEMMA EdgeIsSound ==
    ASSUME NEW deps \in Catalogs, NEW root \in Objects, NEW w, Sound(w, root, deps),
           NEW from \in w.nodes, NEW to \in Succ(from, deps), ~ FullFor(w, to)
    PROVE  Sound(WithEdge(w, from, to), root, deps)
<1> DEFINE v == WithEdge(w, from, to)
           R == Reachable(root, deps)
<1>1. /\ IsWalk(w) /\ IsWalk(v)
      /\ v.nodes = w.nodes \cup {to} /\ v.edges = w.edges \cup {Edge(from, to)}
      /\ v.queue = w.queue
  BY WithEdgeIsWalk, WalkFields DEF Sound
<1>2. Queued(v) = Queued(w)
  BY <1>1 DEF Queued
<1>3. R \subseteq Objects /\ Closed(R, deps) /\ w.nodes \subseteq R
  BY ReachableIsClosure DEF Sound
<1>4. to \in R
  BY <1>3 DEF Closed
<1>5. v.nodes \subseteq R /\ v.nodes \subseteq Objects /\ w.nodes \subseteq v.nodes
  BY <1>1, <1>3, <1>4
<1>6. v.edges \subseteq EdgesOf(v.nodes, deps)
  <2>1. w.edges \subseteq EdgesOf(w.nodes, deps)
    BY DEF Sound
  <2>2. EdgesOf(w.nodes, deps) \subseteq EdgesOf(v.nodes, deps)
    BY <1>3, <1>5, MoreEdges
  <2>3. Edge(from, to) \in EdgesOf(v.nodes, deps)
    BY <1>5, EdgesOfNodes
  <2> QED
    BY <1>1, <2>1, <2>2, <2>3
<1> HIDE DEF v, R
<1>7. v.queue \in Seq(QueueItems)
  BY <1>1 DEF Sound
<1>8. Sound(v, root, deps)
  BY <1>1, <1>2, <1>5, <1>6, <1>7, GrownIsSound DEF R
<1> QED
  BY <1>8 DEF v

LEMMA TruncatedIsSound ==
    ASSUME NEW deps \in Catalogs, NEW root \in Objects, NEW w, Sound(w, root, deps)
    PROVE  Sound(Truncate(w), root, deps) /\ \A but : Complete(Truncate(w), deps, but)
<1>1. /\ IsWalk(Truncate(w)) /\ Truncate(w).nodes = w.nodes /\ Truncate(w).edges = w.edges
      /\ Truncate(w).queue = w.queue /\ Truncate(w).truncated
  BY SameGraphIsWalk, WalkFields DEF Sound
<1>2. Queued(Truncate(w)) = Queued(w)
  BY <1>1 DEF Queued
<1> QED
  BY <1>1, <1>2 DEF Sound, Complete

LEMMA EnqueuedIsSound ==
    ASSUME NEW deps \in Catalogs, NEW root \in Objects, NEW w, Sound(w, root, deps),
           NEW o \in w.nodes, ~ Packaged(o), NEW d \in Nat
    PROVE  Sound(Enqueued(w, o, d), root, deps)
<1> DEFINE v == Enqueued(w, o, d)
<1>1. w.nodes \subseteq Objects
  BY ReachableIsClosure DEF Sound
<1>2. /\ IsWalk(v) /\ v.nodes = w.nodes /\ v.edges = w.edges
  BY EnqueuedFields DEF Sound
<1>3. v.queue \in Seq(QueueItems) /\ Queued(v) = Queued(w) \cup {o}
  BY <1>1, QueuedOneMore DEF Sound
<1> HIDE DEF v
<1>4. Sound(v, root, deps)
  BY <1>2, <1>3 DEF Sound
<1> QED
  BY <1>4 DEF v

\* The loop over the rows of the query about item, when those of D were scanned.
RowsOK(acc, item, root, deps, D) ==
    /\ IsScan(acc)
    /\ Sound(acc.walk, root, deps)
    /\ Complete(acc.walk, deps, {item.object})
    /\ item.object \in acc.walk.nodes
    /\ acc.left => acc.walk.truncated
    /\ ~ acc.walk.truncated =>
          \A p \in D : p \in acc.walk.nodes /\ Edge(item.object, p) \in acc.walk.edges

LEMMA AddedIsComplete ==
    ASSUME NEW deps \in Catalogs, NEW root \in Objects, NEW w, Sound(w, root, deps),
           NEW item \in QueueItems, item.object \in w.nodes, ~ Packaged(item.object),
           Complete(w, deps, {item.object}),
           NEW to \in deps[item.object], ~ FullFor(w, to)
    PROVE  LET added == WithEdge(w, item.object, to)
               next  == IF to \in w.nodes THEN added
                        ELSE IF Packaged(to) THEN Broadened(added, to, item.depth + 1)
                        ELSE Enqueued(added, to, item.depth + 1)
           IN  /\ Sound(next, root, deps)
               /\ Complete(next, deps, {item.object})
               /\ w.nodes \cup {to} \subseteq next.nodes
               /\ w.edges \cup {Edge(item.object, to)} \subseteq next.edges
               /\ ~ next.truncated => ~ w.truncated
<1> DEFINE added == WithEdge(w, item.object, to)
           next == IF to \in w.nodes THEN added
                   ELSE IF Packaged(to) THEN Broadened(added, to, item.depth + 1)
                   ELSE Enqueued(added, to, item.depth + 1)
           d == item.depth + 1
           but == {item.object}
<1>1. to \in Succ(item.object, deps) /\ d \in Nat /\ IsWalk(w)
  BY DEF Succ, QueueItems, Sound
<1>2. Sound(added, root, deps)
  BY <1>1, EdgeIsSound
<1>3. /\ added.nodes = w.nodes \cup {to} /\ added.edges = w.edges \cup {Edge(item.object, to)}
      /\ added.queue = w.queue /\ added.truncated = w.truncated
  BY <1>1, WalkFields
<1>4. Queued(added) = Queued(w)
  BY <1>3 DEF Queued
<1> DEFINE Goal(v) == /\ Sound(v, root, deps) /\ Complete(v, deps, but)
                      /\ w.nodes \cup {to} \subseteq v.nodes
                      /\ w.edges \cup {Edge(item.object, to)} \subseteq v.edges
                      /\ ~ v.truncated => ~ w.truncated
<1> HIDE DEF added, d, but
<1>5. CASE to \in w.nodes
  <2>1. Complete(added, deps, but)
    BY <1>3, <1>4, <1>5, GrownIsComplete DEF but
  <2> QED
    BY <1>2, <1>3, <1>5, <2>1 DEF added, but
<1>6. CASE to \notin w.nodes /\ ~ Packaged(to)
  <2> DEFINE v == Enqueued(added, to, d)
  <2>1. Sound(v, root, deps)
    BY <1>1, <1>2, <1>3, <1>6, EnqueuedIsSound
  <2>2. /\ v.nodes = added.nodes /\ v.edges = added.edges /\ v.truncated = added.truncated
        /\ Queued(v) = Queued(added) \cup {to}
    <3>1. IsWalk(added) /\ added.queue \in Seq(QueueItems) /\ to \in Objects
      BY <1>2, <1>3, ReachableIsClosure DEF Sound
    <3>2. /\ v.nodes = added.nodes /\ v.edges = added.edges /\ v.truncated = added.truncated
      BY <3>1, EnqueuedFields
    <3>3. Queued(v) = Queued(added) \cup {to}
      BY <1>1, <3>1, QueuedOneMore
    <3> QED
      BY <3>2, <3>3
  <2> HIDE DEF v
  <2>3. Complete(v, deps, but)
    BY <1>3, <1>4, <2>2, GrownIsComplete DEF but
  <2>4. next = v
    BY <1>6 DEF v, added, d
  <2> QED
    BY <1>3, <2>1, <2>2, <2>3, <2>4 DEF added, but
<1>7. CASE to \notin w.nodes /\ Packaged(to)
  <2> DEFINE b == BodyOf[to]
             e == WithEdge(added, to, b)
  <2>1. /\ Succ(to, deps) = {b} /\ b \in Objects /\ ~ Packaged(b) /\ b \in Succ(to, deps)
        /\ to \in added.nodes
    BY <1>3, <1>7, BodyAssumption DEF Succ, Packaged
  <2>2. next = IF FullFor(added, b) THEN Truncate(added)
               ELSE IF b \in added.nodes THEN e ELSE Enqueued(e, b, d)
    BY <1>7 DEF Broadened, added, d
  <2>3. IsWalk(added)
    BY <1>2 DEF Sound
  <2> HIDE DEF next
  <2>4. CASE FullFor(added, b)
    <3>1. Sound(Truncate(added), root, deps) /\ Complete(Truncate(added), deps, but)
      BY <1>2, TruncatedIsSound
    <3>2. /\ Truncate(added).nodes = added.nodes /\ Truncate(added).edges = added.edges
          /\ Truncate(added).truncated
      BY <2>3, WalkFields
    <3>3. next = Truncate(added)
      BY <2>2, <2>4
    <3>4. Goal(next)
      BY <1>3, <3>1, <3>2, <3>3
    <3> QED
      BY <3>4 DEF next, but, added
  <2>5. CASE ~ FullFor(added, b)
    <3>1. Sound(e, root, deps)
      BY <1>2, <2>1, <2>5, EdgeIsSound
    <3>2. /\ e.nodes = added.nodes \cup {b} /\ e.edges = added.edges \cup {Edge(to, b)}
          /\ e.queue = added.queue /\ e.truncated = added.truncated
      BY <2>3, WalkFields
    <3>3. Queued(e) = Queued(added)
      BY <3>2 DEF Queued
    <3>4. Done(e, to, deps)
      BY <2>1, <3>2 DEF Done
    <3> HIDE DEF e
    <3>5. CASE b \in added.nodes
      <4>1. Complete(e, deps, but)
        <5>1. \A o \in e.nodes \ w.nodes : Done(e, o, deps)
          BY <1>3, <1>7, <2>1, <3>2, <3>4, <3>5
        <5> QED
          BY <1>3, <1>4, <3>2, <3>3, <5>1, GrownIsComplete DEF but
      <4>2. next = e
        BY <2>2, <2>5, <3>5
      <4>3. Goal(next)
        BY <1>3, <3>1, <3>2, <4>1, <4>2
      <4> QED
        BY <4>3 DEF next, but, added
    <3>6. CASE b \notin added.nodes
      <4> DEFINE v == Enqueued(e, b, d)
      <4>1. IsWalk(e) /\ e.queue \in Seq(QueueItems) /\ b \in e.nodes
        BY <3>1, <3>2 DEF Sound
      <4>2. Sound(v, root, deps)
        BY <1>1, <2>1, <3>1, <4>1, EnqueuedIsSound
      <4>3. /\ v.nodes = e.nodes /\ v.edges = e.edges /\ v.truncated = e.truncated
            /\ Queued(v) = Queued(e) \cup {b}
        <5>1. v.nodes = e.nodes /\ v.edges = e.edges /\ v.truncated = e.truncated
          BY <4>1, EnqueuedFields
        <5>2. Queued(v) = Queued(e) \cup {b}
          BY <1>1, <2>1, <4>1, QueuedOneMore
        <5> QED
          BY <5>1, <5>2
      <4>4. next = v
        BY <2>2, <2>5, <3>6
      <4> HIDE DEF v
      <4>5. Done(v, to, deps)
        BY <3>4, <4>3 DEF Done
      <4>6. Complete(v, deps, but)
        <5>1. \A o \in v.nodes \ w.nodes : o \in Queued(v) \/ Done(v, o, deps)
          BY <1>3, <3>2, <4>3, <4>5
        <5> QED
          BY <1>3, <1>4, <3>2, <3>3, <4>3, <5>1, GrownIsComplete DEF but
      <4>7. Goal(next)
        BY <1>3, <3>2, <4>2, <4>3, <4>4, <4>6
      <4> QED
        BY <4>7 DEF next, but, added
    <3> QED
      BY <3>5, <3>6
  <2> QED
    BY <2>4, <2>5
<1> QED
  BY <1>5, <1>6, <1>7

LEMMA RowKeepsGraph ==
    ASSUME NEW deps \in Catalogs, NEW root \in Objects, NEW acc, NEW item \in QueueItems, NEW D,
           RowsOK(acc, item, root, deps, D), ~ Packaged(item.object),
           NEW to \in deps[item.object]
    PROVE  RowsOK(Row(acc, item, to), item, root, deps, D \cup {to})
<1> DEFINE w == acc.walk
           added == WithEdge(w, item.object, to)
           next == IF to \in w.nodes THEN added
                   ELSE IF Packaged(to) THEN Broadened(added, to, item.depth + 1)
                   ELSE Enqueued(added, to, item.depth + 1)
           out == Row(acc, item, to)
<1>1. /\ IsScan(acc) /\ Sound(w, root, deps) /\ Complete(w, deps, {item.object})
      /\ item.object \in w.nodes /\ (acc.left => w.truncated)
      /\ acc = [walk |-> w, scanned |-> acc.scanned, left |-> acc.left]
      /\ ~ w.truncated => \A p \in D : p \in w.nodes /\ Edge(item.object, p) \in w.edges
  BY DEF RowsOK, IsScan
<1>2. IsScan(out)
  BY <1>1, RowKeepsBounds
<1>3. CASE acc.left
  <2>1. out = acc
    BY <1>3 DEF Row
  <2> QED
    BY <1>1, <1>3, <2>1 DEF RowsOK
<1>4. CASE ~ acc.left /\ (acc.scanned = MaxNodes \/ FullFor(w, to))
  <2> DEFINE t == Truncate(w)
  <2>1. out = [acc EXCEPT !.walk = t, !.left = TRUE]
    BY <1>4 DEF Row
  <2>2. /\ Sound(t, root, deps) /\ Complete(t, deps, {item.object})
        /\ t.nodes = w.nodes /\ t.truncated
    BY <1>1, TruncatedIsSound, WalkFields DEF Sound
  <2> HIDE DEF t, w, out
  <2>3. out = [walk |-> t, scanned |-> acc.scanned, left |-> TRUE]
    BY <1>1, <2>1
  <2>4. out.walk = t
    BY <2>3
  <2> QED
    BY <1>1, <1>2, <2>2, <2>4 DEF RowsOK, out
<1>5. CASE ~ acc.left /\ ~ (acc.scanned = MaxNodes \/ FullFor(w, to))
  <2>1. out = [acc EXCEPT !.walk = next, !.scanned = @ + 1]
    BY <1>5 DEF Row
  <2>2. /\ Sound(next, root, deps) /\ Complete(next, deps, {item.object})
        /\ w.nodes \cup {to} \subseteq next.nodes
        /\ w.edges \cup {Edge(item.object, to)} \subseteq next.edges
        /\ ~ next.truncated => ~ w.truncated
    BY <1>1, <1>5, AddedIsComplete
  <2> HIDE DEF next, w, out
  <2>3. out = [walk |-> next, scanned |-> acc.scanned + 1, left |-> acc.left]
    BY <1>1, <2>1
  <2>4. out.walk = next /\ out.left = acc.left
    BY <2>3
  <2> QED
    BY <1>1, <1>2, <1>5, <2>2, <2>4 DEF RowsOK, out
<1> QED
  BY <1>3, <1>4, <1>5

\* The rows of a query are all that the catalog has, each once.
LEMMA RowsAreAll ==
    ASSUME NEW S, IsFiniteSet(S)
    PROVE  \A p : p \in S <=> \E i \in 1..Cardinality(S) : SetToSeq(S)[i] = p
<1> DEFINE N == Cardinality(S)
           f == SetToSeq(S)
<1>1. N \in Nat /\ ExistsBijection(1..N, S)
  BY FS_CardinalityType
<1>2. \E g \in [1..N -> S] : IsInjective(g)
  BY <1>1 DEF ExistsBijection, Bijection, Injection
<1>3. f \in [1..N -> S] /\ IsInjective(f)
  BY <1>2 DEF SetToSeq
<1> HIDE DEF f
<1>4. f \in Injection(1..N, S) /\ IsFiniteSet(1..N) /\ Cardinality(1..N) = N
  BY <1>1, <1>3, FS_Interval DEF Injection
<1>5. f \in Surjection(1..N, S)
  BY <1>4, FS_Injection
<1> QED
  BY <1>3, <1>5 DEF Surjection, f

\* One query keeps what the graph claims.
LEMMA VisitKeepsGraph ==
    ASSUME NEW deps \in Catalogs, NEW root \in Objects, NEW w, Sound(w, root, deps),
           Complete(w, deps, {}), w.queue # <<>>
    PROVE  Sound(Visited(w, deps), root, deps) /\ Complete(Visited(w, deps), deps, {})
<1> DEFINE item == Head(w.queue)
           S == deps[item.object]
           N == Cardinality(S)
           rows == RowsOf(w, deps)
           D(n) == {rows[i] : i \in 1..n}
<1>1. /\ item \in QueueItems /\ item.object \in w.nodes /\ ~ Packaged(item.object)
      /\ Sound(Rest(w), root, deps) /\ Complete(Rest(w), deps, {item.object})
  BY RestIsSound
<1>2. item.object \in Objects /\ S \subseteq Objects /\ Succ(item.object, deps) = S
  BY <1>1 DEF QueueItems, Catalogs, Succ
<1>3. IsFiniteSet(S) /\ N \in Nat
  BY <1>2, ObjectsAssumption, FS_Subset, FS_CardinalityType
<1>4. PICK after :
         /\ IsLoop(after, w, deps)
         /\ Visited(w, deps) = IF item.depth >= MaxDepth THEN Truncate(Rest(w))
                               ELSE after[N].walk
  BY <1>3, VisitIsLoop
<1>5. /\ after[0] = LoopStart(w)
      /\ \A n \in 1..N : after[n] = Row(after[n - 1], item, rows[n])
  BY <1>4 DEF IsLoop
<1>6. \A p : p \in S <=> \E i \in 1..N : rows[i] = p
  BY <1>3, RowsAreAll DEF RowsOf
<1>7. IsWalk(w) /\ IsWalk(Rest(w)) /\ Rest(w).nodes = w.nodes
  BY SameGraphIsWalk, WalkFields DEF Sound
<1> HIDE DEF item, S, N, rows
<1>8. \A n \in 0..N : RowsOK(after[n], item, root, deps, D(n))
  <2> DEFINE T == {n \in 0..N : RowsOK(after[n], item, root, deps, D(n))}
  <2>1. 0 \in T
    <3>1. /\ after[0].walk = Rest(w) /\ after[0].left = FALSE /\ IsScan(after[0])
      BY <1>5, <1>7 DEF LoopStart, IsScan
    <3>2. D(0) = {}
      OBVIOUS
    <3>3. RowsOK(after[0], item, root, deps, D(0))
      BY <1>1, <1>7, <3>1, <3>2 DEF RowsOK
    <3> QED
      BY <1>3, <3>3
  <2>2. ASSUME NEW n \in 1..N, n - 1 \in T
        PROVE  n \in T
    <3>1. RowsOK(after[n - 1], item, root, deps, D(n - 1))
      BY <2>2
    <3>2. rows[n] \in deps[item.object]
      BY <1>6 DEF S
    <3>3. D(n) = D(n - 1) \cup {rows[n]}
      <4>1. \A i \in 1..n : i = n \/ i \in 1..(n - 1)
        BY <1>3
      <4>2. n \in 1..n /\ \A i \in 1..(n - 1) : i \in 1..n
        BY <1>3
      <4> QED
        BY <4>1, <4>2
    <3> DEFINE A == after[n - 1]
               B == D(n - 1)
               to == rows[n]
    <3>4. RowsOK(A, item, root, deps, B) /\ to \in deps[item.object]
      BY <3>1, <3>2
    <3> HIDE DEF A, B, to
    <3>5. RowsOK(Row(A, item, to), item, root, deps, B \cup {to})
      BY <1>1, <3>4, RowKeepsGraph
    <3>6. after[n] = Row(A, item, to) /\ D(n) = B \cup {to}
      BY <1>5, <3>3 DEF A, B, to
    <3> HIDE DEF D
    <3>7. RowsOK(after[n], item, root, deps, D(n))
      BY <3>5, <3>6
    <3> QED
      BY <1>3, <3>7
  <2>3. 0..N \subseteq T
    <3> HIDE DEF T
    <3> QED
      BY <1>3, <2>1, <2>2, UpTo
  <2> QED
    BY <2>3
<1> DEFINE v == after[N].walk
<1>9. /\ Sound(v, root, deps) /\ Complete(v, deps, {item.object})
      /\ ~ v.truncated => \A p \in S : p \in v.nodes /\ Edge(item.object, p) \in v.edges
  <2>1. N \in 0..N
    BY <1>3
  <2>2. RowsOK(after[N], item, root, deps, D(N))
    BY <1>8, <2>1
  <2>3. S \subseteq D(N)
    BY <1>6
  <2> HIDE DEF D
  <2> QED
    BY <2>2, <2>3 DEF RowsOK
<1>10. Complete(v, deps, {})
  <2> HIDE DEF v
  <2>1. ~ v.truncated => Done(v, item.object, deps)
    BY <1>2, <1>9 DEF Done
  <2> QED
    BY <1>9, <2>1 DEF Complete
<1>11. Sound(Truncate(Rest(w)), root, deps) /\ Complete(Truncate(Rest(w)), deps, {})
  BY <1>1, TruncatedIsSound
<1> QED
  BY <1>4, <1>9, <1>10, <1>11

LEMMA NewWalkIsSound ==
    ASSUME NEW deps \in Catalogs, NEW root \in Objects
    PROVE  Sound(NewWalk(root), root, deps) /\ Complete(NewWalk(root), deps, {})
<1> DEFINE w == NewWalk(root)
<1>1. IsWalk(w)
  BY NewWalkIsWalk
<1>2. root \in Reachable(root, deps) /\ Closed(Reachable(root, deps), deps)
  BY ReachableIsClosure
<1>3. CASE ~ Packaged(root)
  <2>1. w = [nodes |-> {root}, edges |-> {}, truncated |-> FALSE,
             queue |-> <<[object |-> root, depth |-> 0]>>]
    BY <1>3 DEF NewWalk
  <2>2. /\ w.nodes = {root} /\ w.edges = {} /\ w.queue = <<[object |-> root, depth |-> 0]>>
    BY <2>1
  <2>3. Queued(w) = {root} /\ w.queue \in Seq(QueueItems)
    BY <2>2 DEF Queued, QueueItems
  <2> HIDE DEF w
  <2>4. Sound(w, root, deps) /\ Complete(w, deps, {})
    BY <1>1, <1>2, <1>3, <2>2, <2>3 DEF Sound, Complete
  <2> QED
    BY <2>4 DEF w
<1>4. CASE Packaged(root) /\ MaxNodes = 1
  <2>1. w = [nodes |-> {root}, edges |-> {}, truncated |-> TRUE, queue |-> <<>>]
    BY <1>4 DEF NewWalk
  <2>2. /\ w.nodes = {root} /\ w.edges = {} /\ w.queue = <<>> /\ w.truncated
    BY <2>1
  <2>3. Queued(w) = {} /\ w.queue \in Seq(QueueItems)
    BY <2>2 DEF Queued
  <2> HIDE DEF w
  <2>4. Sound(w, root, deps) /\ Complete(w, deps, {})
    BY <1>1, <1>2, <2>2, <2>3 DEF Sound, Complete
  <2> QED
    BY <2>4 DEF w
<1>5. CASE Packaged(root) /\ MaxNodes # 1
  <2> DEFINE b == BodyOf[root]
  <2>1. Succ(root, deps) = {b} /\ b \in Objects /\ ~ Packaged(b)
    BY <1>5, BodyAssumption DEF Succ, Packaged
  <2>2. w = [nodes |-> {root, b}, edges |-> {Edge(root, b)}, truncated |-> FALSE,
             queue |-> <<[object |-> b, depth |-> 0]>>]
    BY <1>5 DEF NewWalk
  <2>3. /\ w.nodes = {root, b} /\ w.edges = {Edge(root, b)}
        /\ w.queue = <<[object |-> b, depth |-> 0]>>
    BY <2>2
  <2>4. Queued(w) = {b} /\ w.queue \in Seq(QueueItems)
    BY <2>1, <2>3 DEF Queued, QueueItems
  <2> HIDE DEF w, b
  <2>5. Edge(root, b) \in EdgesOf(w.nodes, deps)
    BY <2>1, <2>3, EdgesOfNodes
  <2>6. Done(w, root, deps)
    BY <2>1, <2>3 DEF Done
  <2>7. b \in Reachable(root, deps)
    BY <1>2, <2>1 DEF Closed
  <2>8. Sound(w, root, deps)
    BY <1>1, <1>2, <2>1, <2>3, <2>4, <2>5, <2>7 DEF Sound
  <2>9. Complete(w, deps, {})
    BY <2>3, <2>4, <2>6 DEF Complete
  <2> QED
    BY <2>8, <2>9 DEF w
<1> QED
  BY <1>3, <1>4, <1>5

\* When the queue is empty, the graph is what Exact asks for.
LEMMA EmptyQueueIsExact ==
    ASSUME NEW deps \in Catalogs, NEW root \in Objects, NEW w, Sound(w, root, deps),
           Complete(w, deps, {}), w.queue = <<>>
    PROVE  Exact(w, root, deps)
<1> DEFINE all == Reachable(root, deps)
<1>1. /\ all \subseteq Objects /\ Closed(all, deps)
      /\ \A X : root \in X /\ Closed(X, deps) => all \subseteq X
  BY ReachableIsClosure
<1>2. w.nodes \subseteq all /\ root \in w.nodes /\ w.edges \subseteq EdgesOf(w.nodes, deps)
  BY DEF Sound
<1>3. Queued(w) = {}
  BY DEF Queued
<1> HIDE DEF all
<1>4. ASSUME ~ w.truncated PROVE w.nodes = all /\ w.edges = EdgesOf(all, deps)
  <2>1. \A o \in w.nodes : Done(w, o, deps)
    BY <1>3, <1>4 DEF Complete
  <2>2. Closed(w.nodes, deps)
    BY <2>1 DEF Closed, Done
  <2>3. w.nodes = all
    BY <1>1, <1>2, <2>2
  <2>4. EdgesOf(w.nodes, deps) \subseteq w.edges
    BY <1>1, <2>1, <2>3, EdgesOfNodes DEF Done
  <2> QED
    BY <1>2, <2>3, <2>4
<1> QED
  BY <1>2, <1>4 DEF Exact, all

-----------------------------------------------------------------------------
(* Every graph that is answered or cached. *)

\* A graph whose first and last query saw the same schema is exact for it.
Good(g, root) == g.from = g.until => Exact(g, root, Schemas[g.from])

\* What is known of the graph of a Read at each place of its code: its queries saw
\* the schemas from `from` to `until`, in this order, and none is of the future.
ReadExact(rd, now) ==
    /\ rd.pc \in {"opening", "walking", "storing"} => rd.key.root \in Objects
    /\ rd.pc = "walking" =>
          /\ rd.from \in 1..now /\ rd.until \in rd.from..now
          /\ rd.from = rd.until =>
                /\ Sound(rd.walk, rd.key.root, Schemas[rd.from])
                /\ Complete(rd.walk, Schemas[rd.from], {})
    /\ rd.pc = "storing" => Good(rd.graph, rd.key.root)
    /\ rd.pc = "answered" => Good(rd.graph, rd.root)

\* The inductive invariant.
GraphInv ==
    /\ CacheInv
    /\ catalog \in 1..Len(Schemas)
    /\ \A k \in DOMAIN cache : Good(cache[k].graph, k.root)
    /\ \A r \in Readers : ReadExact(read[r], catalog)

LEMMA SchemaIsCatalog == \A i \in 1..Len(Schemas) : Schemas[i] \in Catalogs
<1>1. Schemas \in Seq(Catalogs)
  BY SchemasAssumption DEF Catalogs
<1> HIDE DEF Catalogs
<1> QED
  BY <1>1

LEMMA GraphInvImplies == GraphInv => GraphsAreExact
<1> SUFFICES ASSUME GraphInv PROVE GraphsAreExact
  OBVIOUS
<1>1. \A k \in DOMAIN cache : Good(cache[k].graph, k.root)
  BY DEF GraphInv
<1>2. \A r \in Readers : read[r].pc = "answered" => Good(read[r].graph, read[r].root)
  BY DEF GraphInv, ReadExact
<1> QED
  BY <1>1, <1>2 DEF GraphsAreExact, Good

LEMMA GraphInvInit == MetaInit => GraphInv
<1> SUFFICES ASSUME MetaInit PROVE GraphInv
  OBVIOUS
<1>1. CacheInv
  BY CacheInvInit
<1>2. catalog \in 1..Len(Schemas) /\ DOMAIN cache = {}
  BY SchemasAssumption DEF MetaInit
<1>3. \A r \in Readers : ReadExact(read[r], catalog)
  BY DEF MetaInit, NoRead, ReadExact
<1> QED
  BY <1>1, <1>2, <1>3 DEF GraphInv

\* A step of one Read keeps the invariant if it leaves that Read in order.
LEMMA ReadKeepsGraphs ==
    ASSUME GraphInv, CacheInv', NEW r \in Readers, NEW v, ReadExact(v, catalog), Set(r, v),
           UNCHANGED catalog,
           \A k \in DOMAIN cache' : Good(cache'[k].graph, k.root)
    PROVE  GraphInv'
<1>1. \A q \in Readers : read'[q] = IF q = r THEN v ELSE read[q]
  BY DEF Set, GraphInv, CacheInv
<1>2. \A q \in Readers : ReadExact(read'[q], catalog)
  BY <1>1 DEF GraphInv
<1>3. (\A q \in Readers : ReadExact(read[q], catalog))'
  BY <1>2
<1>4. (\A k \in DOMAIN cache : Good(cache[k].graph, k.root))'
  BY DEF Good
<1> QED
  BY <1>3, <1>4 DEF GraphInv

LEMMA GraphInvStep == GraphInv /\ [MetaNext]_metaVars => GraphInv'
<1> SUFFICES ASSUME GraphInv, [MetaNext]_metaVars PROVE GraphInv'
  OBVIOUS
<1>0. /\ CacheInv' /\ CacheInv /\ catalog \in 1..Len(Schemas)
      /\ \A k \in DOMAIN cache : Good(cache[k].graph, k.root)
      /\ \A r \in Readers : ReadOK(read[r]) /\ ReadExact(read[r], catalog)
  BY CacheInvStep DEF GraphInv, CacheInv
<1>1. CASE Migrate
  <2>1. /\ catalog' = catalog + 1 /\ catalog' \in 1..Len(Schemas) /\ UNCHANGED <<cache, read>>
    BY <1>0, <1>1, SchemasAssumption DEF Migrate
  <2>2. \A rd : ReadExact(rd, catalog) => ReadExact(rd, catalog')
    BY <1>0, <2>1 DEF ReadExact
  <2>3. (\A k \in DOMAIN cache : Good(cache[k].graph, k.root))'
    BY <1>0, <2>1 DEF Good
  <2> QED
    BY <1>0, <2>1, <2>2, <2>3 DEF GraphInv
<1>2. ASSUME NEW v \in Versions, Invalidate(v) PROVE GraphInv'
  <2>1. DOMAIN cache' = {} /\ UNCHANGED <<catalog, read>>
    BY <1>2 DEF Invalidate
  <2> QED
    BY <1>0, <2>1 DEF GraphInv
<1>3. CASE Elapse
  <2>1. UNCHANGED <<catalog, cache, read>>
    BY <1>3 DEF Elapse
  <2> QED
    BY <1>0, <2>1 DEF GraphInv, Good
<1>4. ASSUME NEW r \in Readers, NEW root \in Roots, ReadHit(r, root) PROVE GraphInv'
  <2> DEFINE g == cache[KeyOf(root)].graph
             v == [pc |-> "answered", root |-> root, asked |-> announced, graph |-> g]
  <2>1. Set(r, v) /\ UNCHANGED <<catalog, cache>> /\ KeyOf(root) \in DOMAIN cache
    BY <1>4 DEF ReadHit, Hit
  <2>2. Good(g, root)
    <3>1. KeyOf(root).root = root
      BY DEF KeyOf
    <3> QED
      BY <1>0, <2>1, <3>1
  <2> HIDE DEF g
  <2>3. ReadExact(v, catalog)
    BY <2>2 DEF ReadExact
  <2> HIDE DEF v
  <2> QED
    BY <1>0, <2>1, <2>3, ReadKeepsGraphs
<1>5. ASSUME NEW r \in Readers, NEW root \in Roots, ReadMiss(r, root) PROVE GraphInv'
  <2> DEFINE v == [pc |-> "opening", key |-> KeyOf(root), generation |-> generation,
                   asked |-> announced]
  <2>1. Set(r, v) /\ UNCHANGED <<catalog, cache>>
    BY <1>5 DEF ReadMiss
  <2>2. ReadExact(v, catalog)
    BY RootsAssumption DEF ReadExact, KeyOf
  <2> HIDE DEF v
  <2> QED
    BY <1>0, <2>1, <2>2, ReadKeepsGraphs
<1>6. ASSUME NEW r \in Readers, Fails(r) \/ Returns(r) PROVE GraphInv'
  <2>1. Set(r, NoRead) /\ UNCHANGED <<catalog, cache>>
    BY <1>6 DEF Fails, Returns
  <2>2. ReadExact(NoRead, catalog)
    BY DEF ReadExact, NoRead
  <2> QED
    BY <1>0, <2>1, <2>2, ReadKeepsGraphs
<1>7. ASSUME NEW r \in Readers, Opens(r) PROVE GraphInv'
  <2> DEFINE root == read[r].key.root
             w == NewWalk(root)
             g == Graph(w, catalog, catalog)
             a == [pc |-> "answered", root |-> root, asked |-> read[r].asked, graph |-> g]
             b == [pc |-> "walking", key |-> read[r].key, generation |-> read[r].generation,
                   asked |-> read[r].asked, walk |-> w, from |-> catalog, until |-> catalog]
  <2>1. /\ (w.queue = <<>> /\ Set(r, a)) \/ (w.queue # <<>> /\ Set(r, b))
        /\ read[r].pc = "opening" /\ UNCHANGED <<catalog, cache>>
    <3>1. IF w.queue = <<>> THEN Set(r, a) ELSE Set(r, b)
      BY <1>7, Zenon DEF Opens, Answer
    <3>2. read[r].pc = "opening" /\ UNCHANGED <<catalog, cache>>
      BY <1>7 DEF Opens
    <3>3. (w.queue = <<>> /\ Set(r, a)) \/ (w.queue # <<>> /\ Set(r, b))
      <4> HIDE DEF w, a, b
      <4> QED
        BY <3>1, Zenon
    <3> QED
      BY <3>2, <3>3, Zenon
  <2>2. root \in Objects /\ Schemas[catalog] \in Catalogs
    BY <1>0, <2>1, SchemaIsCatalog DEF ReadExact
  <2>3. Sound(w, root, Schemas[catalog]) /\ Complete(w, Schemas[catalog], {})
    BY <2>2, NewWalkIsSound
  <2>4. w.queue = <<>> => Good(g, root)
    <3> HIDE DEF w, root
    <3>1. SUFFICES ASSUME w.queue = <<>> PROVE Good(g, root)
      OBVIOUS
    <3>2. Exact(w, root, Schemas[catalog])
      BY <2>2, <2>3, <3>1, EmptyQueueIsExact
    <3>3. g.nodes = w.nodes /\ g.edges = w.edges /\ g.truncated = w.truncated /\ g.from = catalog
      BY DEF Graph
    <3> HIDE DEF g
    <3> QED
      BY <3>2, <3>3 DEF Good, Exact
  <2> HIDE DEF w, g
  <2>5. w.queue = <<>> => ReadExact(a, catalog)
    BY <2>4 DEF ReadExact
  <2>6. ReadExact(b, catalog)
    BY <1>0, <2>2, <2>3 DEF ReadExact
  <2> HIDE DEF a, b
  <2> QED
    BY <1>0, <2>1, <2>5, <2>6, ReadKeepsGraphs
<1>8. ASSUME NEW r \in Readers, Visits(r) PROVE GraphInv'
  <2> DEFINE rd == read[r]
             root == rd.key.root
             w == Visited(rd.walk, Schemas[catalog])
             v == [rd EXCEPT !.walk = w, !.until = catalog]
  <2>1. /\ Set(r, v) /\ rd.pc = "walking" /\ rd.walk.queue # <<>>
        /\ UNCHANGED <<catalog, cache>>
    BY <1>8 DEF Visits
  <2>2. /\ DOMAIN rd = {"pc", "key", "generation", "asked", "walk", "from", "until"}
    BY <1>0, <2>1 DEF ReadOK, NoRead
  <2>3. /\ v.pc = "walking" /\ v.key = rd.key /\ v.walk = w /\ v.from = rd.from
        /\ v.until = catalog
    <3> HIDE DEF w
    <3> QED
      BY <2>1, <2>2
  <2>4. /\ root \in Objects /\ rd.from \in 1..catalog /\ rd.until \in rd.from..catalog
        /\ rd.from = rd.until => /\ Sound(rd.walk, root, Schemas[rd.from])
                                 /\ Complete(rd.walk, Schemas[rd.from], {})
    BY <1>0, <2>1 DEF ReadExact
  <2>5. ASSUME rd.from = catalog
        PROVE  Sound(w, root, Schemas[rd.from]) /\ Complete(w, Schemas[rd.from], {})
    <3>1. rd.from = rd.until
      BY <1>0, <2>4, <2>5
    <3>2. Schemas[catalog] \in Catalogs
      BY <1>0, SchemaIsCatalog
    <3>3. Sound(rd.walk, root, Schemas[catalog]) /\ Complete(rd.walk, Schemas[catalog], {})
      BY <2>4, <2>5, <3>1
    <3> HIDE DEF rd
    <3>4. Sound(w, root, Schemas[catalog]) /\ Complete(w, Schemas[catalog], {})
      BY <2>1, <2>4, <3>2, <3>3, VisitKeepsGraph
    <3> QED
      BY <2>5, <3>4
  <2> HIDE DEF v, w
  <2>6. ReadExact(v, catalog)
    BY <1>0, <2>3, <2>4, <2>5 DEF ReadExact
  <2> QED
    BY <1>0, <2>1, <2>6, ReadKeepsGraphs
<1>9. ASSUME NEW r \in Readers, Commits(r) PROVE GraphInv'
  <2> DEFINE rd == read[r]
             root == rd.key.root
             w == rd.walk
             g == Graph(w, rd.from, rd.until)
             v == [pc |-> "storing", key |-> rd.key, generation |-> rd.generation,
                   asked |-> rd.asked, graph |-> g]
  <2>1. Set(r, v) /\ rd.pc = "walking" /\ w.queue = <<>> /\ UNCHANGED <<catalog, cache>>
    BY <1>9 DEF Commits
  <2>2. /\ root \in Objects /\ rd.from \in 1..catalog
        /\ rd.from = rd.until => /\ Sound(w, root, Schemas[rd.from])
                                 /\ Complete(w, Schemas[rd.from], {})
    BY <1>0, <2>1 DEF ReadExact
  <2>3. Good(g, root)
    <3>1. /\ g.nodes = w.nodes /\ g.edges = w.edges /\ g.truncated = w.truncated
          /\ g.from = rd.from /\ g.until = rd.until
      BY DEF Graph
    <3>2. ASSUME rd.from = rd.until PROVE Exact(w, root, Schemas[rd.from])
      <4>1. Schemas[rd.from] \in Catalogs
        BY <1>0, <2>2, SchemaIsCatalog
      <4> QED
        BY <2>1, <2>2, <3>2, <4>1, EmptyQueueIsExact
    <3> HIDE DEF g
    <3> QED
      BY <3>1, <3>2 DEF Good, Exact
  <2> HIDE DEF g
  <2>4. ReadExact(v, catalog)
    BY <2>2, <2>3 DEF ReadExact
  <2> HIDE DEF v
  <2> QED
    BY <1>0, <2>1, <2>4, ReadKeepsGraphs
<1>10. ASSUME NEW r \in Readers, Stores(r) \/ StoresNothing(r) PROVE GraphInv'
  <2> DEFINE rd == read[r]
             v == [pc |-> "answered", root |-> rd.key.root, asked |-> rd.asked,
                   graph |-> rd.graph]
  <2>1. Set(r, v) /\ rd.pc = "storing" /\ UNCHANGED catalog
    BY <1>10 DEF Stores, StoresNothing, Answer
  <2>2. Good(rd.graph, rd.key.root)
    BY <1>0, <2>1 DEF ReadExact
  <2>3. ReadExact(v, catalog)
    BY <2>2 DEF ReadExact
  <2>4. \A k \in DOMAIN cache' : Good(cache'[k].graph, k.root)
    <3>1. CASE StoresNothing(r)
      BY <1>0, <3>1 DEF StoresNothing
    <3>2. CASE Stores(r)
      <4>1. PICK gone \in SUBSET DOMAIN cache : Stored(rd.key, rd.graph, gone)
        BY <3>2 DEF Stores
      <4> DEFINE kept == {l \in DOMAIN cache : ~ Expired(cache[l])}
      <4>2. cache' = [l \in (kept \ gone) \cup {rd.key} |->
                         IF l = rd.key THEN [graph |-> rd.graph, stamp |-> stamp + 1]
                         ELSE cache[l]]
        BY <4>1 DEF Stored
      <4>3. kept \ gone \subseteq DOMAIN cache
        OBVIOUS
      <4> HIDE DEF kept
      <4>4. ASSUME NEW k \in DOMAIN cache' PROVE Good(cache'[k].graph, k.root)
        <5>1. CASE k = rd.key
          <6>1. cache'[k] = [graph |-> rd.graph, stamp |-> stamp + 1]
            BY <4>2, <5>1
          <6>2. cache'[k].graph = rd.graph
            BY <6>1
          <6> QED
            BY <2>2, <5>1, <6>2
        <5>2. CASE k # rd.key
          <6>1. cache'[k] = cache[k] /\ k \in DOMAIN cache
            BY <4>2, <4>3, <5>2
          <6> QED
            BY <1>0, <6>1
        <5> QED
          BY <5>1, <5>2
      <4> QED
        BY <4>4
    <3> QED
      BY <1>10, <3>1, <3>2
  <2> HIDE DEF v
  <2> QED
    BY <1>0, <2>1, <2>3, <2>4, ReadKeepsGraphs
<1>11. CASE UNCHANGED metaVars
  <2>1. UNCHANGED <<catalog, cache, read>>
    BY <1>11 DEF metaVars
  <2> QED
    BY <1>0, <2>1 DEF GraphInv, Good
<1> QED
  BY <1>1, <1>2, <1>3, <1>4, <1>5, <1>6, <1>7, <1>8, <1>9, <1>10, <1>11 DEF MetaNext

\* GraphsAreExact, as the run checks it, for every catalog, every sequence of
\* migrations and every bound: a graph that was read while no migration committed is
\* all that the root depends on, or a part of it that says so (reader.go:111-202).
THEOREM GraphsTellTheTruth == Spec => []GraphsAreExact
<1>1. MetaInit => GraphInv
  BY GraphInvInit
<1>2. GraphInv /\ [MetaNext]_metaVars => GraphInv'
  BY GraphInvStep
<1>3. GraphInv => GraphsAreExact
  BY GraphInvImplies
<1>4. MetaSpec => []GraphsAreExact
  BY <1>1, <1>2, <1>3, PTL DEF MetaSpec
<1> QED
  BY <1>4, PoolKeepsReader, PTL

-----------------------------------------------------------------------------
(* The types of the readers' state, and the bound of the pool. *)

\* What waits in the queue of a walk are objects, whichever schemas its queries saw.
WalkOK(w) == IsWalk(w) /\ w.queue \in Seq(QueueItems)

LEMMA BroadenedIsOK ==
    ASSUME NEW w, WalkOK(w), NEW o \in DOMAIN BodyOf, NEW d \in Nat
    PROVE  WalkOK(Broadened(w, o, d))
<1> DEFINE b == BodyOf[o]
           e == WithEdge(w, o, b)
<1>1. b \in Objects /\ IsWalk(Broadened(w, o, d)) /\ IsWalk(w)
  BY BodyAssumption, BroadenedIsWalk DEF WalkOK
<1>2. Broadened(w, o, d) = IF FullFor(w, b) THEN Truncate(w)
                           ELSE IF b \in w.nodes THEN e ELSE Enqueued(e, b, d)
  BY DEF Broadened
<1>3. Truncate(w).queue = w.queue /\ e.queue = w.queue
  BY <1>1, WalkFields
<1>4. CASE FullFor(w, b)
  BY <1>1, <1>2, <1>3, <1>4 DEF WalkOK
<1>5. CASE ~ FullFor(w, b) /\ b \in w.nodes
  BY <1>1, <1>2, <1>3, <1>5 DEF WalkOK
<1>6. CASE ~ FullFor(w, b) /\ b \notin w.nodes
  <2>1. IsWalk(e) /\ e.queue \in Seq(QueueItems)
    BY <1>1, <1>3, <1>6, WithEdgeIsWalk DEF WalkOK
  <2> HIDE DEF e, b
  <2>2. Enqueued(e, b, d).queue \in Seq(QueueItems)
    BY <1>1, <2>1, QueuedOneMore
  <2>3. Broadened(w, o, d) = Enqueued(e, b, d)
    BY <1>2, <1>6
  <2> QED
    BY <1>1, <2>2, <2>3 DEF WalkOK
<1> QED
  BY <1>4, <1>5, <1>6

LEMMA RowIsOK ==
    ASSUME NEW acc, IsScan(acc), WalkOK(acc.walk), NEW item \in QueueItems, NEW to \in Objects
    PROVE  IsScan(Row(acc, item, to)) /\ WalkOK(Row(acc, item, to).walk)
<1> DEFINE w == acc.walk
           added == WithEdge(w, item.object, to)
           d == item.depth + 1
           next == IF to \in w.nodes THEN added
                   ELSE IF Packaged(to) THEN Broadened(added, to, d)
                   ELSE Enqueued(added, to, d)
           out == Row(acc, item, to)
<1>1. /\ IsScan(out) /\ IsWalk(out.walk)
      /\ acc = [walk |-> w, scanned |-> acc.scanned, left |-> acc.left]
      /\ IsWalk(w) /\ w.queue \in Seq(QueueItems) /\ d \in Nat
  BY RowKeepsBounds DEF IsScan, WalkOK, QueueItems
<1>2. CASE acc.left
  <2>1. out = acc
    BY <1>2 DEF Row
  <2> QED
    BY <1>1, <2>1
<1>3. CASE ~ acc.left /\ (acc.scanned = MaxNodes \/ FullFor(w, to))
  <2> DEFINE t == Truncate(w)
  <2>1. out = [acc EXCEPT !.walk = t, !.left = TRUE]
    BY <1>3 DEF Row
  <2>2. t.queue = w.queue
    BY <1>1, WalkFields
  <2> HIDE DEF t, w, out
  <2>3. out.walk = t
    BY <1>1, <2>1
  <2> QED
    BY <1>1, <2>2, <2>3 DEF WalkOK, out
<1>4. CASE ~ acc.left /\ ~ (acc.scanned = MaxNodes \/ FullFor(w, to))
  <2>1. out = [acc EXCEPT !.walk = next, !.scanned = @ + 1]
    BY <1>4 DEF Row
  <2>2. WalkOK(added)
    <3>1. IsWalk(added) /\ added.queue = w.queue
      BY <1>1, <1>4, WithEdgeIsWalk, WalkFields
    <3> QED
      BY <1>1, <3>1 DEF WalkOK
  <2> HIDE DEF added, d
  <2>3. next.queue \in Seq(QueueItems)
    <3>1. CASE to \in w.nodes
      BY <2>2, <3>1 DEF WalkOK
    <3>2. CASE to \notin w.nodes /\ Packaged(to)
      <4>1. WalkOK(Broadened(added, to, d))
        BY <1>1, <2>2, <3>2, BroadenedIsOK DEF Packaged
      <4> QED
        BY <3>2, <4>1 DEF WalkOK
    <3>3. CASE to \notin w.nodes /\ ~ Packaged(to)
      <4>1. Enqueued(added, to, d).queue \in Seq(QueueItems)
        BY <1>1, <2>2, QueuedOneMore DEF WalkOK
      <4> QED
        BY <3>3, <4>1
    <3> QED
      BY <3>1, <3>2, <3>3
  <2> HIDE DEF next, w, out
  <2>4. out.walk = next
    BY <1>1, <2>1
  <2> QED
    BY <1>1, <2>3, <2>4 DEF WalkOK, out
<1> QED
  BY <1>2, <1>3, <1>4

LEMMA VisitIsOK ==
    ASSUME NEW deps \in Catalogs, NEW w, WalkOK(w), w.queue # <<>>
    PROVE  WalkOK(Visited(w, deps))
<1> DEFINE item == Head(w.queue)
           S == deps[item.object]
           N == Cardinality(S)
           rows == RowsOf(w, deps)
<1>1. item \in QueueItems /\ Tail(w.queue) \in Seq(QueueItems)
  BY HeadTailProperties DEF WalkOK
<1>2. S \subseteq Objects /\ IsFiniteSet(S) /\ N \in Nat
  <2>1. S \subseteq Objects
    BY <1>1 DEF QueueItems, Catalogs
  <2> QED
    BY <2>1, ObjectsAssumption, FS_Subset, FS_CardinalityType
<1>3. WalkOK(Rest(w)) /\ WalkOK(Truncate(Rest(w)))
  <2>1. IsWalk(Rest(w)) /\ Rest(w).queue = Tail(w.queue)
    BY SameGraphIsWalk, WalkFields DEF WalkOK
  <2>2. IsWalk(Truncate(Rest(w))) /\ Truncate(Rest(w)).queue = Rest(w).queue
    BY <2>1, SameGraphIsWalk, WalkFields
  <2> QED
    BY <1>1, <2>1, <2>2 DEF WalkOK
<1>4. PICK after :
         /\ IsLoop(after, w, deps)
         /\ Visited(w, deps) = IF item.depth >= MaxDepth THEN Truncate(Rest(w))
                               ELSE after[N].walk
  BY <1>2, VisitIsLoop
<1>5. /\ after[0] = LoopStart(w)
      /\ \A n \in 1..N : after[n] = Row(after[n - 1], item, rows[n])
  BY <1>4 DEF IsLoop
<1>6. \A n \in 1..N : rows[n] \in Objects
  BY <1>2, RowsAreAll DEF RowsOf
<1> HIDE DEF item, S, N, rows
<1>7. \A n \in 0..N : IsScan(after[n]) /\ WalkOK(after[n].walk)
  <2> DEFINE T == {n \in 0..N : IsScan(after[n]) /\ WalkOK(after[n].walk)}
  <2>1. 0 \in T
    <3>1. after[0].walk = Rest(w) /\ IsScan(after[0])
      BY <1>3, <1>5 DEF LoopStart, IsScan, WalkOK
    <3> QED
      BY <1>2, <1>3, <3>1
  <2>2. ASSUME NEW n \in 1..N, n - 1 \in T PROVE n \in T
    <3>1. IsScan(after[n - 1]) /\ WalkOK(after[n - 1].walk)
      BY <2>2
    <3>2. IsScan(after[n]) /\ WalkOK(after[n].walk)
      BY <1>1, <1>5, <1>6, <3>1, RowIsOK
    <3> QED
      BY <1>2, <3>2
  <2>3. 0..N \subseteq T
    <3> HIDE DEF T
    <3> QED
      BY <1>2, <2>1, <2>2, UpTo
  <2> QED
    BY <2>3
<1>8. WalkOK(after[N].walk)
  <2>1. N \in 0..N
    BY <1>2
  <2> QED
    BY <1>7, <2>1
<1> QED
  BY <1>3, <1>4, <1>8

LEMMA NewWalkIsOK ==
    ASSUME NEW root \in Objects
    PROVE  WalkOK(NewWalk(root))
<1> DEFINE none == [o \in Objects |-> {}]
<1>1. none \in Catalogs
  BY DEF Catalogs
<1> HIDE DEF none
<1>2. Sound(NewWalk(root), root, none)
  BY <1>1, NewWalkIsSound
<1> QED
  BY <1>2 DEF Sound, WalkOK

Walkers == {r \in Readers : read[r].pc = "walking"}

Holders == {w \in Watchers : snap[w].conn # {}}

ReadTyped(rd) ==
    /\ rd.pc \in {"opening", "walking", "storing"} => rd.key \in Key
    /\ rd.pc = "walking" => WalkOK(rd.walk)

\* A read that may store a graph has room for it under MaxStores, and whoever has a
\* connection counts against the pool.
MetaTyped ==
    /\ CacheInv
    /\ catalog \in 1..Len(Schemas) /\ announced \in 1..catalog
    /\ version \in Versions /\ generation \in 0..MaxInvalidations
    /\ DOMAIN cache \subseteq Key
    /\ stamp \in Nat /\ horizon \in 0..stamp
    /\ \A r \in Readers : ReadTyped(read[r])
    /\ IsFiniteSet(Pending) /\ stamp + Cardinality(Pending) <= MaxStores

PoolTyped ==
    /\ IsFiniteSet(Walkers) /\ IsFiniteSet(Holders)
    /\ Cardinality(Walkers) + Cardinality(Holders) <= PoolSize

\* The inductive invariant.
PoolInv == clients \in Clienteles /\ MetaTyped /\ SnapInv /\ PoolTyped

LEMMA PoolInvImplies == PoolInv => TypeOK
<1> SUFFICES ASSUME PoolInv PROVE TypeOK
  OBVIOUS
<1>1. MetaTyped /\ SnapInv /\ PoolTyped /\ clients \in Clienteles /\ CacheInv
  BY DEF PoolInv, MetaTyped
<1>2. CacheBounded
  BY <1>1, CacheInvImplies
<1>3. stamp \in 0..MaxStores
  BY <1>1, FS_CardinalityType, MetaBoundsAssumption DEF MetaTyped
<1>4. ASSUME NEW r \in Readers
      PROVE  /\ read[r].pc \in {"idle", "opening", "walking", "storing", "answered"}
             /\ read[r].pc = "walking" => Bounded(read[r].walk)
  <2>1. ReadOK(read[r]) /\ ReadTyped(read[r])
    BY <1>1 DEF CacheInv, MetaTyped
  <2>2. read[r].pc \in {"idle", "opening", "walking", "storing", "answered"}
    BY <2>1 DEF ReadOK, NoRead
  <2> QED
    BY <2>1, <2>2 DEF ReadTyped, WalkOK, IsWalk
<1>5. ASSUME NEW w \in Watchers PROVE Cardinality(snap[w].conn) <= 1
  <2>1. snap[w].conn = {} \/ \E a \in Attachments : snap[w].conn = {a}
    BY <1>1 DEF SnapInv, SnapOK
  <2>2. Cardinality({}) = 0
    BY FS_EmptySet
  <2>3. CASE snap[w].conn = {}
    BY <2>2, <2>3
  <2>4. ASSUME NEW a \in Attachments, snap[w].conn = {a} PROVE Cardinality(snap[w].conn) <= 1
    <3>1. Cardinality({a}) = 1
      BY FS_Singleton
    <3>2. Cardinality(snap[w].conn) = 1
      BY <2>4, <3>1
    <3> QED
      BY <3>2
  <2> QED
    BY <2>1, <2>3, <2>4
<1>6. moment \in 1..Len(Moments) /\ Taken <= PoolSize
  BY <1>1 DEF SnapInv, PoolTyped, Taken, Walkers, Holders
<1> QED
  BY <1>1, <1>2, <1>3, <1>4, <1>5, <1>6 DEF TypeOK, MetaTyped

LEMMA PoolInvInit == Init => PoolInv
<1> SUFFICES ASSUME Init PROVE PoolInv
  OBVIOUS
<1>1. clients \in Clienteles /\ MetaInit /\ MonInit
  BY DEF Init
<1>2. CacheInv /\ SnapInv
  BY <1>1, CacheInvInit, SnapInvInit
<1>3. Pending = {} /\ Walkers = {} /\ Holders = {}
  BY <1>1 DEF MetaInit, MonInit, NoRead, NoSnap, Pending, Walkers, Holders
<1>4. IsFiniteSet({}) /\ Cardinality({}) = 0
  BY FS_EmptySet
<1>5. MetaTyped
  <2>1. \A r \in Readers : ReadTyped(read[r])
    BY <1>1 DEF MetaInit, NoRead, ReadTyped
  <2>2. /\ catalog \in 1..Len(Schemas) /\ announced \in 1..catalog
        /\ version \in Versions /\ generation \in 0..MaxInvalidations
        /\ DOMAIN cache \subseteq Key /\ stamp = 0 /\ horizon \in 0..stamp
    BY <1>1, SchemasAssumption, MetaBoundsAssumption DEF MetaInit
  <2> QED
    BY <1>2, <1>3, <1>4, <2>1, <2>2, MetaBoundsAssumption DEF MetaTyped
<1>6. PoolTyped
  BY <1>3, <1>4, PoolAssumption DEF PoolTyped
<1> QED
  BY <1>1, <1>2, <1>5, <1>6 DEF PoolInv

\* What one step adds to a set, or takes away, counts for one.
LEMMA CountOne ==
    ASSUME NEW S, IsFiniteSet(S), NEW x
    PROVE  /\ IsFiniteSet(S \cup {x}) /\ IsFiniteSet(S \ {x})
           /\ Cardinality(S) \in Nat
           /\ Cardinality(S \cup {x}) \in Nat /\ Cardinality(S \cup {x}) <= Cardinality(S) + 1
           /\ Cardinality(S \ {x}) \in Nat /\ Cardinality(S \ {x}) <= Cardinality(S)
           /\ x \in S => Cardinality(S \cup {x}) = Cardinality(S)
                         /\ Cardinality(S \ {x}) = Cardinality(S) - 1
<1>1. /\ IsFiniteSet(S \cup {x})
      /\ Cardinality(S \cup {x}) = IF x \in S THEN Cardinality(S) ELSE Cardinality(S) + 1
  BY FS_AddElement
<1>2. /\ IsFiniteSet(S \ {x})
      /\ Cardinality(S \ {x}) = IF x \in S THEN Cardinality(S) - 1 ELSE Cardinality(S)
  BY FS_RemoveElement
<1>3. /\ Cardinality(S) \in Nat /\ Cardinality(S \cup {x}) \in Nat /\ Cardinality(S \ {x}) \in Nat
  BY <1>1, <1>2, FS_CardinalityType
<1> QED
  BY <1>1, <1>2, <1>3

\* One step of a metadata read: where it goes, what it may store, what it holds.
LEMMA ReadSets ==
    ASSUME DOMAIN read = Readers, NEW r \in Readers, NEW v, Set(r, v)
    PROVE  /\ \A q \in Readers : read'[q] = IF q = r THEN v ELSE read[q]
           /\ Pending' = IF v.pc \in {"opening", "walking", "storing"}
                         THEN Pending \cup {r} ELSE Pending \ {r}
           /\ Walkers' = IF v.pc = "walking" THEN Walkers \cup {r} ELSE Walkers \ {r}
<1>1. \A q \in Readers : read'[q] = IF q = r THEN v ELSE read[q]
  BY DEF Set
<1>2. Pending' = {q \in Readers : read'[q].pc \in {"opening", "walking", "storing"}}
  BY DEF Pending
<1>3. Walkers' = {q \in Readers : read'[q].pc = "walking"}
  BY DEF Walkers
<1>4. Pending' = IF v.pc \in {"opening", "walking", "storing"}
                 THEN Pending \cup {r} ELSE Pending \ {r}
  BY <1>1, <1>2 DEF Pending
<1>5. Walkers' = IF v.pc = "walking" THEN Walkers \cup {r} ELSE Walkers \ {r}
  BY <1>1, <1>3 DEF Walkers
<1> QED
  BY <1>1, <1>4, <1>5

\* It keeps the types if it leaves that Read in order, and within the bounds.
LEMMA ReadKeepsTypes ==
    ASSUME MetaTyped, CacheInv', NEW r \in Readers, NEW v, ReadTyped(v), Set(r, v),
           UNCHANGED <<catalog, announced, version, generation, horizon>>,
           DOMAIN cache' \subseteq Key,
           \/ stamp' = stamp /\ (v.pc \in {"opening", "walking", "storing"} => r \in Pending)
           \/ stamp' = stamp /\ stamp + Cardinality(Pending) < MaxStores
           \/ /\ stamp' = stamp + 1 /\ r \in Pending
              /\ v.pc \notin {"opening", "walking", "storing"}
    PROVE  MetaTyped'
<1> DEFINE P == Pending
           T == IF v.pc \in {"opening", "walking", "storing"} THEN P \cup {r} ELSE P \ {r}
<1>1. /\ DOMAIN read = Readers /\ stamp \in Nat /\ horizon \in 0..stamp /\ MaxStores \in Nat
      /\ IsFiniteSet(P) /\ stamp + Cardinality(P) <= MaxStores
  BY MetaBoundsAssumption DEF MetaTyped, CacheInv
<1>2. /\ \A q \in Readers : read'[q] = IF q = r THEN v ELSE read[q]
      /\ Pending' = T
  BY <1>1, ReadSets
<1>3. /\ IsFiniteSet(P \cup {r}) /\ IsFiniteSet(P \ {r})
      /\ Cardinality(P) \in Nat
      /\ Cardinality(P \cup {r}) \in Nat /\ Cardinality(P \cup {r}) <= Cardinality(P) + 1
      /\ Cardinality(P \ {r}) \in Nat /\ Cardinality(P \ {r}) <= Cardinality(P)
      /\ r \in P => Cardinality(P \cup {r}) = Cardinality(P)
                    /\ Cardinality(P \ {r}) = Cardinality(P) - 1
  BY <1>1, CountOne
<1> DEFINE n == Cardinality(P)
           m == Cardinality(P \cup {r})
           k == Cardinality(P \ {r})
<1>4. IsFiniteSet(T) /\ stamp' + Cardinality(T) <= MaxStores
  <2>1. CASE v.pc \in {"opening", "walking", "storing"}
    <3>1. T = P \cup {r}
      BY <2>1
    <3>2. stamp' + m <= MaxStores
      <4> HIDE DEF T, P
      <4>1. m \in Nat /\ n \in Nat /\ m <= n + 1 /\ (r \in P => m = n) /\ stamp + n <= MaxStores
        BY <1>1, <1>3
      <4>2. stamp' = stamp /\ (r \in P \/ stamp + n < MaxStores)
        BY <2>1 DEF P
      <4> HIDE DEF m, n
      <4> QED
        BY <1>1, <4>1, <4>2
    <3> QED
      BY <1>3, <3>1, <3>2
  <2>2. CASE v.pc \notin {"opening", "walking", "storing"}
    <3>1. T = P \ {r}
      BY <2>2
    <3>2. stamp' + k <= MaxStores
      <4> HIDE DEF T, P
      <4>1. k \in Nat /\ n \in Nat /\ k <= n /\ (r \in P => k = n - 1) /\ stamp + n <= MaxStores
        BY <1>1, <1>3
      <4>2. stamp' = stamp \/ (stamp' = stamp + 1 /\ r \in P)
        BY DEF P
      <4> HIDE DEF k, n
      <4> QED
        BY <1>1, <4>1, <4>2
    <3> QED
      BY <1>3, <3>1, <3>2
  <2> QED
    BY <2>1, <2>2
<1>5. \A q \in Readers : ReadTyped(read'[q])
  BY <1>2 DEF MetaTyped
<1>6. (\A q \in Readers : ReadTyped(read[q]))'
  BY <1>5 DEF ReadTyped, Key
<1>7. IsFiniteSet(Pending') /\ stamp' + Cardinality(Pending') <= MaxStores
  <2> HIDE DEF T
  <2> QED
    BY <1>2, <1>4
<1>8. stamp' \in Nat /\ horizon' \in 0..stamp'
  BY <1>1
<1>9. (DOMAIN cache \subseteq Key)'
  BY DEF Key
<1> QED
  BY <1>6, <1>7, <1>8, <1>9 DEF MetaTyped

LEMMA MetaTypedStep == MetaTyped /\ [MetaNext]_metaVars => MetaTyped'
<1> SUFFICES ASSUME MetaTyped, [MetaNext]_metaVars PROVE MetaTyped'
  OBVIOUS
<1>0. /\ CacheInv' /\ CacheInv /\ DOMAIN cache \subseteq Key
      /\ catalog \in 1..Len(Schemas) /\ announced \in 1..catalog
      /\ version \in Versions /\ generation \in 0..MaxInvalidations
      /\ stamp \in Nat /\ horizon \in 0..stamp
      /\ \A r \in Readers : ReadOK(read[r]) /\ ReadTyped(read[r])
      /\ IsFiniteSet(Pending) /\ stamp + Cardinality(Pending) <= MaxStores
  BY CacheInvStep DEF MetaTyped, CacheInv
<1>a. \A r \in Readers : read[r].pc \in {"opening", "walking", "storing"} => r \in Pending
  BY DEF Pending
<1>1. CASE Migrate
  <2>1. catalog' = catalog + 1 /\ catalog' \in 1..Len(Schemas)
        /\ UNCHANGED <<announced, version, generation, cache, stamp, horizon, read>>
    BY <1>0, <1>1, SchemasAssumption DEF Migrate
  <2>2. Pending' = Pending /\ announced' \in 1..catalog'
    BY <1>0, <2>1 DEF Pending
  <2> QED
    BY <1>0, <2>1, <2>2 DEF MetaTyped
<1>2. ASSUME NEW v \in Versions, Invalidate(v) PROVE MetaTyped'
  <2>1. /\ generation' = generation + 1 /\ generation < MaxInvalidations
        /\ version' = v /\ announced' = catalog /\ DOMAIN cache' = {}
        /\ UNCHANGED <<catalog, stamp, horizon, read>>
    BY <1>2 DEF Invalidate
  <2>2. Pending' = Pending /\ announced' \in 1..catalog' /\ generation' \in 0..MaxInvalidations
    BY <1>0, <2>1, MetaBoundsAssumption DEF Pending
  <2> QED
    BY <1>0, <2>1, <2>2 DEF MetaTyped
<1>3. CASE Elapse
  <2>1. /\ horizon' \in (horizon + 1)..stamp
        /\ UNCHANGED <<catalog, announced, version, generation, cache, stamp, read>>
    BY <1>3 DEF Elapse
  <2>2. Pending' = Pending /\ horizon' \in 0..stamp'
    BY <1>0, <2>1 DEF Pending
  <2> QED
    BY <1>0, <2>1, <2>2 DEF MetaTyped
<1>4. ASSUME NEW r \in Readers, NEW root \in Roots, ReadHit(r, root) PROVE MetaTyped'
  <2> DEFINE v == [pc |-> "answered", root |-> root, asked |-> announced,
                   graph |-> cache[KeyOf(root)].graph]
  <2>1. Set(r, v) /\ UNCHANGED <<catalog, announced, version, generation, cache, stamp, horizon>>
    BY <1>4 DEF ReadHit
  <2>2. ReadTyped(v) /\ v.pc = "answered"
    BY DEF ReadTyped
  <2> HIDE DEF v
  <2> QED
    BY <1>0, <2>1, <2>2, ReadKeepsTypes
<1>5. ASSUME NEW r \in Readers, NEW root \in Roots, ReadMiss(r, root) PROVE MetaTyped'
  <2> DEFINE v == [pc |-> "opening", key |-> KeyOf(root), generation |-> generation,
                   asked |-> announced]
  <2>1. /\ Set(r, v) /\ stamp + Cardinality(Pending) < MaxStores
        /\ UNCHANGED <<catalog, announced, version, generation, cache, stamp, horizon>>
    BY <1>5 DEF ReadMiss
  <2>2. ReadTyped(v)
    BY <1>0 DEF ReadTyped, KeyOf, Key
  <2> HIDE DEF v
  <2> QED
    BY <1>0, <2>1, <2>2, ReadKeepsTypes
<1>6. ASSUME NEW r \in Readers, Fails(r) \/ Returns(r) PROVE MetaTyped'
  <2>1. /\ Set(r, NoRead)
        /\ UNCHANGED <<catalog, announced, version, generation, cache, stamp, horizon>>
    BY <1>6 DEF Fails, Returns
  <2>2. ReadTyped(NoRead) /\ NoRead.pc = "idle"
    BY DEF ReadTyped, NoRead
  <2> QED
    BY <1>0, <2>1, <2>2, ReadKeepsTypes
<1>7. ASSUME NEW r \in Readers, Opens(r) PROVE MetaTyped'
  <2> DEFINE w == NewWalk(read[r].key.root)
             a == [pc |-> "answered", root |-> read[r].key.root, asked |-> read[r].asked,
                   graph |-> Graph(w, catalog, catalog)]
             b == [pc |-> "walking", key |-> read[r].key, generation |-> read[r].generation,
                   asked |-> read[r].asked, walk |-> w, from |-> catalog, until |-> catalog]
  <2>1. /\ Set(r, a) \/ Set(r, b)
        /\ read[r].pc = "opening"
        /\ UNCHANGED <<catalog, announced, version, generation, cache, stamp, horizon>>
    BY <1>7 DEF Opens, Answer
  <2>2. read[r].key \in Key /\ read[r].key.root \in Objects
    BY <1>0, <2>1, RootsAssumption DEF ReadTyped, Key
  <2>3. WalkOK(w)
    BY <2>2, NewWalkIsOK
  <2> HIDE DEF w
  <2>4. ReadTyped(a) /\ ReadTyped(b)
    BY <2>2, <2>3 DEF ReadTyped
  <2> HIDE DEF a, b
  <2> QED
    BY <1>0, <1>a, <2>1, <2>4, ReadKeepsTypes
<1>8. ASSUME NEW r \in Readers, Visits(r) PROVE MetaTyped'
  <2> DEFINE rd == read[r]
             w == Visited(rd.walk, Schemas[catalog])
             v == [rd EXCEPT !.walk = w, !.until = catalog]
  <2>1. /\ Set(r, v) /\ rd.pc = "walking" /\ rd.walk.queue # <<>>
        /\ UNCHANGED <<catalog, announced, version, generation, cache, stamp, horizon>>
    BY <1>8 DEF Visits
  <2>2. DOMAIN rd = {"pc", "key", "generation", "asked", "walk", "from", "until"}
    BY <1>0, <2>1 DEF ReadOK, NoRead
  <2>3. v.pc = "walking" /\ v.key = rd.key /\ v.walk = w
    <3> HIDE DEF w
    <3> QED
      BY <2>1, <2>2
  <2>4. WalkOK(rd.walk) /\ rd.key \in Key /\ Schemas[catalog] \in Catalogs
    BY <1>0, <2>1, SchemaIsCatalog DEF ReadTyped
  <2>5. WalkOK(w)
    BY <2>1, <2>4, VisitIsOK
  <2> HIDE DEF v, w
  <2>6. ReadTyped(v)
    BY <2>3, <2>4, <2>5 DEF ReadTyped
  <2> QED
    BY <1>0, <1>a, <2>1, <2>6, ReadKeepsTypes
<1>9. ASSUME NEW r \in Readers, Commits(r) PROVE MetaTyped'
  <2> DEFINE v == [pc |-> "storing", key |-> read[r].key, generation |-> read[r].generation,
                   asked |-> read[r].asked,
                   graph |-> Graph(read[r].walk, read[r].from, read[r].until)]
  <2>1. /\ Set(r, v) /\ read[r].pc = "walking"
        /\ UNCHANGED <<catalog, announced, version, generation, cache, stamp, horizon>>
    BY <1>9 DEF Commits
  <2>2. ReadTyped(v)
    BY <1>0, <2>1 DEF ReadTyped
  <2> HIDE DEF v
  <2> QED
    BY <1>0, <1>a, <2>1, <2>2, ReadKeepsTypes
<1>10. ASSUME NEW r \in Readers, Stores(r) \/ StoresNothing(r) PROVE MetaTyped'
  <2> DEFINE rd == read[r]
             v == [pc |-> "answered", root |-> rd.key.root, asked |-> rd.asked,
                   graph |-> rd.graph]
  <2>1. Set(r, v) /\ rd.pc = "storing" /\ UNCHANGED <<catalog, announced, version, generation, horizon>>
    BY <1>10 DEF Stores, StoresNothing, Answer
  <2>2. ReadTyped(v) /\ v.pc = "answered" /\ rd.key \in Key
    BY <1>0, <2>1 DEF ReadTyped
  <2>3. r \in Pending
    BY <1>a, <2>1
  <2>4. CASE StoresNothing(r)
    <3>1. UNCHANGED <<cache, stamp>>
      BY <2>4 DEF StoresNothing
    <3> HIDE DEF v
    <3> QED
      BY <1>0, <2>1, <2>2, <3>1, ReadKeepsTypes
  <2>5. CASE Stores(r)
    <3>1. PICK gone \in SUBSET DOMAIN cache : Stored(rd.key, rd.graph, gone)
      BY <2>5 DEF Stores
    <3>2. DOMAIN cache' = ({l \in DOMAIN cache : ~ Expired(cache[l])} \ gone) \cup {rd.key}
      BY <3>1 DEF Stored
    <3>3. DOMAIN cache' \subseteq Key /\ stamp' = stamp + 1
      BY <1>0, <2>2, <2>5, <3>2 DEF Stores
    <3> HIDE DEF v
    <3> QED
      BY <1>0, <2>1, <2>2, <2>3, <3>3, ReadKeepsTypes
  <2> QED
    BY <1>10, <2>4, <2>5
<1>11. CASE UNCHANGED metaVars
  BY <1>0, <1>11 DEF metaVars, MetaTyped, Pending
<1> QED
  BY <1>1, <1>2, <1>3, <1>4, <1>5, <1>6, <1>7, <1>8, <1>9, <1>10, <1>11 DEF MetaNext

\* Only a read that begins its transaction takes a connection, and only if one is free.
LEMMA WalkersStep ==
    ASSUME PoolTyped, MetaTyped, MetaStep
    PROVE  /\ IsFiniteSet(Walkers')
           /\ \/ Cardinality(Walkers') <= Cardinality(Walkers)
              \/ Taken < PoolSize /\ Cardinality(Walkers') <= Cardinality(Walkers) + 1
<1>0. DOMAIN read = Readers /\ IsFiniteSet(Walkers)
  BY DEF PoolTyped, MetaTyped, CacheInv
<1>1. CASE UNCHANGED read
  <2>1. Walkers' = Walkers
    BY <1>1 DEF Walkers
  <2> QED
    BY <1>0, <2>1, FS_CardinalityType
<1>2. ASSUME NEW r \in Readers, NEW v, Set(r, v)
      PROVE  /\ IsFiniteSet(Walkers')
             /\ Cardinality(Walkers') <= Cardinality(Walkers) + 1
             /\ v.pc # "walking" \/ r \in Walkers => Cardinality(Walkers') <= Cardinality(Walkers)
  <2>1. Walkers' = IF v.pc = "walking" THEN Walkers \cup {r} ELSE Walkers \ {r}
    BY <1>0, <1>2, ReadSets
  <2>2. /\ IsFiniteSet(Walkers \cup {r}) /\ IsFiniteSet(Walkers \ {r})
        /\ Cardinality(Walkers) \in Nat /\ Cardinality(Walkers \cup {r}) \in Nat
        /\ Cardinality(Walkers \cup {r}) <= Cardinality(Walkers) + 1
        /\ Cardinality(Walkers \ {r}) \in Nat
        /\ Cardinality(Walkers \ {r}) <= Cardinality(Walkers)
        /\ r \in Walkers => Cardinality(Walkers \cup {r}) = Cardinality(Walkers)
    BY <1>0, CountOne
  <2>3. CASE v.pc = "walking"
    <3>1. Walkers' = Walkers \cup {r}
      BY <2>1, <2>3
    <3> QED
      BY <2>2, <2>3, <3>1
  <2>4. CASE v.pc # "walking"
    <3>1. Walkers' = Walkers \ {r}
      BY <2>1, <2>4
    <3> QED
      BY <2>2, <2>4, <3>1
  <2> QED
    BY <2>3, <2>4
<1>3. ASSUME NEW r \in Readers, MetaOpens(r)
      PROVE  /\ IsFiniteSet(Walkers')
             /\ Taken < PoolSize /\ Cardinality(Walkers') <= Cardinality(Walkers) + 1
  <2>1. Taken < PoolSize /\ \E v : Set(r, v)
    BY <1>3 DEF MetaOpens, Opens, Answer
  <2> QED
    BY <1>2, <2>1
<1>4. ASSUME NEW r \in Readers, Visits(r)
      PROVE  IsFiniteSet(Walkers') /\ Cardinality(Walkers') <= Cardinality(Walkers)
  <2>1. r \in Walkers /\ \E v : Set(r, v)
    BY <1>4 DEF Visits, Walkers
  <2> QED
    BY <1>2, <2>1
<1>5. ASSUME NEW r \in Readers, NEW root \in Roots, ReadHit(r, root) \/ ReadMiss(r, root)
      PROVE  IsFiniteSet(Walkers') /\ Cardinality(Walkers') <= Cardinality(Walkers)
  <2> DEFINE a == [pc |-> "answered", root |-> root, asked |-> announced,
                   graph |-> cache[KeyOf(root)].graph]
             b == [pc |-> "opening", key |-> KeyOf(root), generation |-> generation,
                   asked |-> announced]
  <2>1. Set(r, a) \/ Set(r, b)
    BY <1>5 DEF ReadHit, ReadMiss
  <2>2. a.pc # "walking" /\ b.pc # "walking"
    OBVIOUS
  <2> HIDE DEF a, b
  <2> QED
    BY <1>2, <2>1, <2>2
<1>6. ASSUME NEW r \in Readers, Fails(r) \/ Returns(r)
      PROVE  IsFiniteSet(Walkers') /\ Cardinality(Walkers') <= Cardinality(Walkers)
  <2>1. Set(r, NoRead) /\ NoRead.pc # "walking"
    BY <1>6 DEF Fails, Returns, NoRead
  <2> QED
    BY <1>2, <2>1
<1>7. ASSUME NEW r \in Readers, Commits(r) \/ Stores(r) \/ StoresNothing(r)
      PROVE  IsFiniteSet(Walkers') /\ Cardinality(Walkers') <= Cardinality(Walkers)
  <2> DEFINE a == [pc |-> "storing", key |-> read[r].key, generation |-> read[r].generation,
                   asked |-> read[r].asked,
                   graph |-> Graph(read[r].walk, read[r].from, read[r].until)]
             b == [pc |-> "answered", root |-> read[r].key.root, asked |-> read[r].asked,
                   graph |-> read[r].graph]
  <2>1. Set(r, a) \/ Set(r, b)
    BY <1>7 DEF Commits, Stores, StoresNothing, Answer
  <2>2. a.pc # "walking" /\ b.pc # "walking"
    OBVIOUS
  <2> HIDE DEF a, b
  <2> QED
    BY <1>2, <2>1, <2>2
<1>8. CASE Migrate \/ Elapse \/ \E v \in Versions : Invalidate(v)
  <2>1. UNCHANGED read
    BY <1>8 DEF Migrate, Elapse, Invalidate
  <2> QED
    BY <1>1, <2>1
<1> QED
  BY <1>3, <1>4, <1>5, <1>6, <1>7, <1>8 DEF MetaStep, Reading

LEMMA HoldersStep ==
    ASSUME PoolTyped, SnapInv, MonStep
    PROVE  /\ IsFiniteSet(Holders')
           /\ \/ Cardinality(Holders') <= Cardinality(Holders)
              \/ Taken < PoolSize /\ Cardinality(Holders') <= Cardinality(Holders) + 1
<1>0. DOMAIN snap = Watchers /\ IsFiniteSet(Holders)
  BY DEF PoolTyped, SnapInv
<1>1. ASSUME NEW w \in Watchers, NEW v, SetSnap(w, v)
      PROVE  /\ IsFiniteSet(Holders')
             /\ Cardinality(Holders') <= Cardinality(Holders) + 1
             /\ v.conn = {} \/ w \in Holders => Cardinality(Holders') <= Cardinality(Holders)
  <2>1. \A q \in Watchers : snap'[q] = IF q = w THEN v ELSE snap[q]
    BY <1>0, <1>1 DEF SetSnap
  <2>2. Holders' = {q \in Watchers : snap'[q].conn # {}}
    BY DEF Holders
  <2>3. Holders' = IF v.conn # {} THEN Holders \cup {w} ELSE Holders \ {w}
    BY <2>1, <2>2 DEF Holders
  <2>4. /\ IsFiniteSet(Holders \cup {w}) /\ IsFiniteSet(Holders \ {w})
        /\ Cardinality(Holders) \in Nat /\ Cardinality(Holders \cup {w}) \in Nat
        /\ Cardinality(Holders \cup {w}) <= Cardinality(Holders) + 1
        /\ Cardinality(Holders \ {w}) \in Nat
        /\ Cardinality(Holders \ {w}) <= Cardinality(Holders)
        /\ w \in Holders => Cardinality(Holders \cup {w}) = Cardinality(Holders)
    BY <1>0, CountOne
  <2>5. CASE v.conn # {}
    <3>1. Holders' = Holders \cup {w}
      BY <2>3, <2>5
    <3> QED
      BY <2>4, <2>5, <3>1
  <2>6. CASE v.conn = {}
    <3>1. Holders' = Holders \ {w}
      BY <2>3, <2>6
    <3> QED
      BY <2>4, <2>6, <3>1
  <2> QED
    BY <2>5, <2>6
<1>2. ASSUME NEW w \in Watchers, MonAcquires(w)
      PROVE  /\ IsFiniteSet(Holders')
             /\ Taken < PoolSize /\ Cardinality(Holders') <= Cardinality(Holders) + 1
  <2>1. Taken < PoolSize /\ \E v : SetSnap(w, v)
    BY <1>2 DEF MonAcquires, Acquires
  <2> QED
    BY <1>1, <2>1
<1>3. CASE UNCHANGED snap
  <2>1. Holders' = Holders
    BY <1>3 DEF Holders
  <2> QED
    BY <1>0, <2>1, FS_CardinalityType
\* Any other step keeps the connection, or gives it back.
<1>4. ASSUME NEW w \in Watchers, NEW v, SetSnap(w, v), v.conn \subseteq snap[w].conn
      PROVE  IsFiniteSet(Holders') /\ Cardinality(Holders') <= Cardinality(Holders)
  <2>1. v.conn = {} \/ w \in Holders
    BY <1>4 DEF Holders
  <2> QED
    BY <1>1, <1>4, <2>1
<1>5. \A w \in Watchers : snap[w] \in Snaps
  BY DEF SnapInv, SnapOK
<1>6. ASSUME NEW w \in Watchers, NEW statement \in BOOLEAN, Asks(w, statement)
      PROVE  IsFiniteSet(Holders') /\ Cardinality(Holders') <= Cardinality(Holders)
  <2> DEFINE v == [NoSnap EXCEPT !.pc = "acquiring", !.statement = statement]
  <2>1. SetSnap(w, v) /\ v.conn = {}
    BY <1>6 DEF Asks, NoSnap
  <2> HIDE DEF v
  <2> QED
    BY <1>4, <2>1
<1>7. ASSUME NEW w \in Watchers, Failed(w) \/ Proceeds(w)
      PROVE  IsFiniteSet(Holders') /\ Cardinality(Holders') <= Cardinality(Holders)
  <2>1. \E v : SetSnap(w, v) /\ v.conn \subseteq snap[w].conn
    <3> DEFINE s == snap[w]
    <3>1. s \in Snaps
      BY <1>5
    <3>2. \A t, result : Ends(t, result).conn = {} \/ "conn" \notin DOMAIN t
      BY DEF Ends
    <3>3. CASE Failed(w)
      <4>1. SetSnap(w, Ends(s, "error")) /\ Ends(s, "error").conn = {}
        BY <3>1, <3>3 DEF Failed, Snaps, Ends
      <4> QED
        BY <4>1
    <3>4. CASE Checks(w)
      <4> DEFINE v == IF s.conn = {Target} THEN Ends(s, "same attachment")
                      ELSE [s EXCEPT !.pc = "capturing"]
      <4>1. SetSnap(w, v)
        BY <3>4 DEF Checks
      <4>2. v.conn = {} \/ v.conn = s.conn
        BY <3>1 DEF Snaps, Ends
      <4> HIDE DEF v
      <4> QED
        BY <4>1, <4>2
    <3>5. CASE Captures(w)
      <4> DEFINE v == [s EXCEPT !.pc = "fixing", !.captured = moment]
      <4>1. SetSnap(w, v) /\ v.conn = s.conn
        BY <3>1, <3>5 DEF Captures, Snaps
      <4> HIDE DEF v
      <4> QED
        BY <4>1
    <3>6. CASE Fixes(w)
      <4> DEFINE v == IF Moments[moment].visible
                      THEN [s EXCEPT !.pc = "scanning", !.at = moment]
                      ELSE Ends([s EXCEPT !.at = moment], "target not visible")
      <4>1. SetSnap(w, v)
        BY <3>6 DEF Fixes
      <4>2. v.conn = {} \/ v.conn = s.conn
        BY <3>1 DEF Snaps, Ends
      <4> HIDE DEF v
      <4> QED
        BY <4>1, <4>2
    <3>7. CASE Scans(w)
      <4> DEFINE c == Collections[Len(s.rows) + 1]
                 n == Show(s, c)
                 t == [s EXCEPT !.truncated = Marked(s, n),
                                !.rows = Append(@, IF n > MaxRows THEN MaxRows ELSE n)]
                 v == IF c = "statements" /\ s.statement /\ n = 0
                      THEN Ends(t, "statement not visible")
                      ELSE IF Len(t.rows) = Len(Collections)
                      THEN [t EXCEPT !.pc = "committing"] ELSE t
      <4>1. SetSnap(w, v)
        BY <3>7 DEF Scans
      <4>2. t.conn = s.conn /\ "conn" \in DOMAIN t
        <5> HIDE DEF n
        <5> QED
          BY <3>1 DEF Snaps
      <4> HIDE DEF t, n, c
      <4>3. v.conn = {} \/ v.conn = s.conn
        BY <4>2 DEF Ends
      <4> HIDE DEF v
      <4> QED
        BY <4>1, <4>3
    <3>8. CASE CommitsSnap(w)
      <4>1. SetSnap(w, Ends(s, "ok")) /\ Ends(s, "ok").conn = {}
        BY <3>1, <3>8 DEF CommitsSnap, Snaps, Ends
      <4> QED
        BY <4>1
    <3>9. CASE Reports(w)
      <4> DEFINE v == [NoSnap EXCEPT !.conn = s.conn]
      <4>1. SetSnap(w, v) /\ v.conn = s.conn
        BY <3>9 DEF Reports, NoSnap
      <4> HIDE DEF v
      <4> QED
        BY <4>1
    <3> QED
      BY <1>7, <3>3, <3>4, <3>5, <3>6, <3>7, <3>8, <3>9 DEF Proceeds
  <2> QED
    BY <1>4, <2>1
<1>8. CASE Passes
  BY <1>3, <1>8 DEF Passes
<1> QED
  BY <1>2, <1>6, <1>7, <1>8 DEF MonStep, Watching

LEMMA PoolInvStep == PoolInv /\ [Next]_vars => PoolInv'
<1> SUFFICES ASSUME PoolInv, [Next]_vars PROVE PoolInv'
  OBVIOUS
<1>0. /\ clients \in Clienteles /\ MetaTyped /\ SnapInv /\ PoolTyped
      /\ IsFiniteSet(Walkers) /\ IsFiniteSet(Holders)
      /\ Cardinality(Walkers) \in Nat /\ Cardinality(Holders) \in Nat
      /\ Cardinality(Walkers) + Cardinality(Holders) <= PoolSize /\ PoolSize \in Nat
      /\ Taken = Cardinality(Walkers) + Cardinality(Holders)
  BY FS_CardinalityType, PoolAssumption DEF PoolInv, PoolTyped, Taken, Walkers, Holders
<1>1. CASE MetaStep /\ UNCHANGED <<clients, monVars>>
  <2>1. [MetaNext]_metaVars
    BY <1>1 DEF MetaStep, MetaNext, Reading, MetaOpens
  <2>2. MetaTyped'
    BY <1>0, <2>1, MetaTypedStep
  <2>3. SnapInv' /\ Holders' = Holders
    BY <1>0, <1>1 DEF SnapInv, monVars, Holders
  <2>4. /\ IsFiniteSet(Walkers')
        /\ \/ Cardinality(Walkers') <= Cardinality(Walkers)
           \/ Taken < PoolSize /\ Cardinality(Walkers') <= Cardinality(Walkers) + 1
    BY <1>0, <1>1, WalkersStep
  <2>5. Cardinality(Walkers') \in Nat
    BY <2>4, FS_CardinalityType
  <2>6. Cardinality(Walkers') + Cardinality(Holders') <= PoolSize
    BY <1>0, <2>3, <2>4, <2>5
  <2>7. PoolTyped'
    BY <1>0, <2>3, <2>4, <2>6 DEF PoolTyped
  <2> QED
    BY <1>0, <1>1, <2>2, <2>3, <2>7 DEF PoolInv
<1>2. CASE MonStep /\ UNCHANGED <<clients, metaVars>>
  <2>1. SnapInv'
    BY <1>0, <1>2, SnapInvStep
  <2>2. MetaTyped' /\ Walkers' = Walkers
    <3>1. UNCHANGED metaVars
      BY <1>2
    <3>2. Walkers' = Walkers
      BY <3>1 DEF metaVars, Walkers
    <3> QED
      BY <1>0, <3>1, <3>2, MetaTypedStep
  <2>4. /\ IsFiniteSet(Holders')
        /\ \/ Cardinality(Holders') <= Cardinality(Holders)
           \/ Taken < PoolSize /\ Cardinality(Holders') <= Cardinality(Holders) + 1
    BY <1>0, <1>2, HoldersStep
  <2>5. Cardinality(Holders') \in Nat
    BY <2>4, FS_CardinalityType
  <2>6. Cardinality(Walkers') + Cardinality(Holders') <= PoolSize
    BY <1>0, <2>2, <2>4, <2>5
  <2>7. PoolTyped'
    BY <1>0, <2>2, <2>4, <2>6 DEF PoolTyped
  <2> QED
    BY <1>0, <1>2, <2>1, <2>2, <2>7 DEF PoolInv
<1>3. CASE UNCHANGED vars
  <2>1. UNCHANGED <<clients, metaVars, monVars>>
    BY <1>3 DEF vars
  <2>2. MetaTyped'
    BY <1>0, <2>1, MetaTypedStep
  <2>3. SnapInv' /\ Holders' = Holders /\ Walkers' = Walkers
    BY <1>0, <2>1 DEF SnapInv, monVars, metaVars, Holders, Walkers
  <2> QED
    BY <1>0, <2>1, <2>2, <2>3 DEF PoolInv, PoolTyped
<1> QED
  BY <1>1, <1>2, <1>3 DEF Next

\* TypeOK, as the run checks it: the readers never hold more connections than the pool
\* has, each at most one, and every walk stays within the nodes and edges of its
\* configuration, for every pool, catalog and set of readers (docs/diagnostics.md:52).
THEOREM PoolIsBounded == Spec => []TypeOK
<1>1. Init => PoolInv
  BY PoolInvInit
<1>2. PoolInv /\ [Next]_vars => PoolInv'
  BY PoolInvStep
<1>3. PoolInv => TypeOK
  BY PoolInvImplies
<1> QED
  BY <1>1, <1>2, <1>3, PTL DEF Spec
=============================================================================
