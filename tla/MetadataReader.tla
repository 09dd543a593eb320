--------------------------- MODULE MetadataReader ---------------------------
(***************************************************************************)
(* metadata.Reader (src/metadata/reader.go): reads of dependency graphs by *)
(* several goroutines, the cache they share, its bound and its expiry, and *)
(* the schema generation that Invalidate advances after a migration.       *)
(*                                                                         *)
(* Each query of a walk sees the catalog as it is then (the transaction    *)
(* has the pool's default isolation).  A graph remembers, as history, the  *)
(* catalog of its first and of its last query.                             *)
(*                                                                         *)
(* Time: an entry is stamped when it is stored, all live equally long, so  *)
(* the entries that have expired are those stamped up to the horizon.      *)
(***************************************************************************)
EXTENDS DependencyWalk

CONSTANTS
    Readers,            \* goroutines that call Read
    Roots,              \* the objects they ask for
    Versions,           \* logical schema versions
    Schemas,            \* the catalogs that migrations bring, one after the other
    MaxEntries,         \* Config.MaxEntries
    MaxInvalidations,   \* bound of the model: calls of Invalidate
    MaxStores           \* bound of the model: reads that may ever store a graph

ASSUME MaxEntriesAssumption == MaxEntries \in Nat \ {0}
ASSUME RootsAssumption == Roots \subseteq Objects
ASSUME SchemasAssumption ==
    Schemas # <<>> /\ Schemas \in Seq([Objects -> SUBSET Objects])
ASSUME MetaBoundsAssumption == MaxInvalidations \in Nat /\ MaxStores \in Nat

VARIABLES
    catalog,        \* the current schema, an index of Schemas
    announced,      \* history: the schema at the last Invalidate
    version,        \* Config.SchemaVersion
    generation,     \* Reader.generation
    cache,          \* [cached keys -> entries]
    stamp,          \* stores so far
    horizon,        \* entries stamped up to here have expired
    read            \* [Readers -> the Read each is in]

metaVars == <<catalog, announced, version, generation, cache, stamp, horizon, read>>

Key == [version : Versions, root : Roots]

NoRead == [pc |-> "idle"]

\* A graph, and the schemas of its first and last query.
Graph(w, from, until) ==
    [nodes |-> w.nodes, edges |-> w.edges, truncated |-> w.truncated,
     from |-> from, until |-> until]

MetaInit ==
    /\ catalog = 1 /\ announced = 1
    /\ version \in Versions
    /\ generation = 0
    /\ cache = [k \in {} |-> {}]
    /\ stamp = 0 /\ horizon = 0
    /\ read = [r \in Readers |-> NoRead]

Set(r, v) == read' = [read EXCEPT ![r] = v]

Expired(e) == e.stamp <= horizon

\* A migration commits.
Migrate ==
    /\ catalog < Len(Schemas)
    /\ catalog' = catalog + 1
    /\ UNCHANGED <<announced, version, generation, cache, stamp, horizon, read>>

Invalidate(v) ==
    /\ generation < MaxInvalidations
    /\ version' = v
    /\ generation' = generation + 1
    /\ cache' = [k \in {} |-> {}]
    /\ announced' = catalog
    /\ UNCHANGED <<catalog, stamp, horizon, read>>

Elapse ==
    /\ horizon < stamp
    /\ horizon' \in (horizon + 1)..stamp
    /\ UNCHANGED <<catalog, announced, version, generation, cache, stamp, read>>

-----------------------------------------------------------------------------
(* Read. *)

KeyOf(root) == [version |-> version, root |-> root]

Hit(k) == k \in DOMAIN cache /\ ~ Expired(cache[k])

\* The cache answers.
ReadHit(r, root) ==
    /\ read[r].pc = "idle"
    /\ Hit(KeyOf(root))
    /\ Set(r, [pc |-> "answered", root |-> root, asked |-> announced,
               graph |-> cache[KeyOf(root)].graph])
    /\ UNCHANGED <<catalog, announced, version, generation, cache, stamp, horizon>>

\* Reads that may still store a graph.
Pending == {r \in Readers : read[r].pc \in {"opening", "walking", "storing"}}

\* It does not: Read remembers the key and the generation, and leaves the lock.
ReadMiss(r, root) ==
    /\ read[r].pc = "idle"
    /\ ~ Hit(KeyOf(root))
    /\ stamp + Cardinality(Pending) < MaxStores
    /\ Set(r, [pc |-> "opening", key |-> KeyOf(root), generation |-> generation,
               asked |-> announced])
    /\ UNCHANGED <<catalog, announced, version, generation, cache, stamp, horizon>>

Fails(r) ==
    /\ read[r].pc \in {"opening", "walking"}
    /\ Set(r, NoRead)
    /\ UNCHANGED <<catalog, announced, version, generation, cache, stamp, horizon>>

Answer(r, graph) ==
    Set(r, [pc |-> "answered", root |-> read[r].key.root, asked |-> read[r].asked, graph |-> graph])

\* The transaction begins.  A packaged root that does not fit together with its
\* package ends the read at once.
Opens(r) ==
    /\ read[r].pc = "opening"
    /\ LET w == NewWalk(read[r].key.root)
       IN  IF w.queue = <<>>
           THEN Answer(r, Graph(w, catalog, catalog))
           ELSE Set(r, [pc |-> "walking", key |-> read[r].key,
                        generation |-> read[r].generation, asked |-> read[r].asked,
                        walk |-> w, from |-> catalog, until |-> catalog])
    /\ UNCHANGED <<catalog, announced, version, generation, cache, stamp, horizon>>

\* The dependencies of the next object of the queue are read.
Visits(r) ==
    /\ read[r].pc = "walking" /\ read[r].walk.queue # <<>>
    /\ Set(r, [read[r] EXCEPT !.walk = Visited(@, Schemas[catalog]), !.until = catalog])
    /\ UNCHANGED <<catalog, announced, version, generation, cache, stamp, horizon>>

Commits(r) ==
    /\ read[r].pc = "walking" /\ read[r].walk.queue = <<>>
    /\ Set(r, [pc |-> "storing", key |-> read[r].key, generation |-> read[r].generation,
               asked |-> read[r].asked,
               graph |-> Graph(read[r].walk, read[r].from, read[r].until)])
    /\ UNCHANGED <<catalog, announced, version, generation, cache, stamp, horizon>>

\* Mutant: only the key says whether a graph may be stored.
OfThisVersion(rd) == rd.key.version = version

\* May a finished read store its graph?
OfThisGeneration(rd) == rd.generation = generation

Room(kept) == Cardinality(kept) < MaxEntries

Oldest(k, kept) == \A l \in kept : cache[k].stamp <= cache[l].stamp

\* The expired entries go, and the oldest if the cache is full.
Stored(k, graph, gone) ==
    LET kept == {l \in DOMAIN cache : ~ Expired(cache[l])}
    IN  /\ \/ Room(kept) /\ gone = {}
           \/ ~ Room(kept) /\ \E l \in kept : Oldest(l, kept) /\ gone = {l}
        /\ cache' = [l \in (kept \ gone) \cup {k} |->
                        IF l = k THEN [graph |-> graph, stamp |-> stamp + 1] ELSE cache[l]]

Stores(r) ==
    /\ read[r].pc = "storing"
    /\ OfThisGeneration(read[r])
    /\ \E gone \in SUBSET DOMAIN cache : Stored(read[r].key, read[r].graph, gone)
    /\ stamp' = stamp + 1
    /\ Answer(r, read[r].graph)
    /\ UNCHANGED <<catalog, announced, version, generation, horizon>>

StoresNothing(r) ==
    /\ read[r].pc = "storing"
    /\ ~ OfThisGeneration(read[r])
    /\ Answer(r, read[r].graph)
    /\ UNCHANGED <<catalog, announced, version, generation, cache, stamp, horizon>>

Returns(r) ==
    /\ read[r].pc = "answered"
    /\ Set(r, NoRead)
    /\ UNCHANGED <<catalog, announced, version, generation, cache, stamp, horizon>>

MetaNext ==
    \/ Migrate \/ Elapse
    \/ \E v \in Versions : Invalidate(v)
    \/ \E r \in Readers :
          \/ \E root \in Roots : ReadHit(r, root) \/ ReadMiss(r, root)
          \/ Fails(r) \/ Opens(r) \/ Visits(r) \/ Commits(r)
          \/ Stores(r) \/ StoresNothing(r) \/ Returns(r)

MetaSpec == MetaInit /\ [][MetaNext]_metaVars

-----------------------------------------------------------------------------
(* Properties. *)

\* No answer is older than the last Invalidate before it was asked for: neither
\* an entry of the cache nor a read that was in flight then brings an old schema
\* back (reader.go:76-86, 207: "prevents in-flight old reads repopulating the
\* cache").
NoStaleAnswer ==
    /\ \A k \in DOMAIN cache : cache[k].graph.from >= announced
    /\ \A r \in Readers : read[r].pc = "answered" => read[r].graph.from >= read[r].asked

\* The cache never holds more than MaxEntries graphs, whatever reads finish
\* together (reader.go:209-224).
CacheBounded == Cardinality(DOMAIN cache) <= MaxEntries

\* A graph that is answered or cached, and was read while no migration
\* committed, is the exact graph of that schema or says that it is truncated (reader.go:111-202).
GraphsAreExact ==
    LET Good(g, root) == g.from = g.until => Exact(g, root, Schemas[g.from])
    IN  /\ \A k \in DOMAIN cache : Good(cache[k].graph, k.root)
        /\ \A r \in Readers : read[r].pc = "answered" => Good(read[r].graph, read[r].root)
=============================================================================
