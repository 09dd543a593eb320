---------------------------- MODULE Diagnostics ----------------------------
(***************************************************************************)
(* The diagnostic readers over one pool (docs/diagnostics.md): reads of    *)
(* metadata hold a connection from BeginTx to the end of the transaction,  *)
(* reads of MON$ from Conn to their return, and neither asks for a second. *)
(***************************************************************************)
EXTENDS MetadataReader, MonitoringReader

CONSTANTS
    PoolSize,       \* SetMaxOpenConns of the diagnostic pool
    Clienteles      \* sets of goroutines, one of which uses the pool

VARIABLE clients    \* the goroutines that use the pool

ASSUME PoolAssumption == PoolSize \in Nat \ {0}

vars == <<clients, metaVars, monVars>>

Init == clients \in Clienteles /\ MetaInit /\ MonInit

\* Connections that are taken.
Taken ==
    Cardinality({r \in Readers : read[r].pc = "walking"}) +
    Cardinality({w \in Watchers : snap[w].conn # {}})

InPool == UNION {snap[w].conn : w \in Watchers}

\* A metadata read begins its transaction as soon as a connection is free.
MetaOpens(r) == Taken < PoolSize /\ Opens(r)

MonAcquires(w) ==
    /\ Taken < PoolSize
    /\ \E a \in Attachments \ InPool : Acquires(w, a)

\* The steps of one Read after it was called.
Reading(r) == MetaOpens(r) \/ Visits(r) \/ Commits(r) \/ Stores(r) \/ StoresNothing(r) \/ Returns(r)

Watching(w) == MonAcquires(w) \/ Proceeds(w)

\* Bound of the model: no migration and no expiry while MON$ is read too.
Mixed == clients \cap Watchers # {}

MetaStep ==
    \/ ~ Mixed /\ (Migrate \/ Elapse \/ \E v \in Versions : Invalidate(v))
    \/ \E r \in Readers \cap clients :
          \/ \E root \in Roots : ReadHit(r, root) \/ ReadMiss(r, root)
          \/ Fails(r) \/ Reading(r)

MonStep ==
    \/ Mixed /\ Passes
    \/ \E w \in Watchers \cap clients :
          \/ \E statement \in BOOLEAN : Asks(w, statement)
          \/ Failed(w) \/ Watching(w)

Next ==
    \/ MetaStep /\ UNCHANGED <<clients, monVars>>
    \/ MonStep /\ UNCHANGED <<clients, metaVars>>

Spec == Init /\ [][Next]_vars

\* A goroutine that is inside Read goes on; the pool serves those that wait for a
\* connection in turn.
Fairness ==
    /\ \A r \in Readers :
          SF_vars(MetaOpens(r) /\ UNCHANGED <<clients, monVars>>) /\ WF_vars(Reading(r) /\ UNCHANGED <<clients, monVars>>)
    /\ \A w \in Watchers :
          SF_vars(MonAcquires(w) /\ UNCHANGED <<clients, metaVars>>) /\ WF_vars(Watching(w) /\ UNCHANGED <<clients, metaVars>>)

FairSpec == Spec /\ Fairness

-----------------------------------------------------------------------------

\* Types of the variables, and the bounds of the pool, of the cache (CacheBounded) and
\* of each walk.
TypeOK ==
    /\ clients \in Clienteles
    /\ catalog \in 1..Len(Schemas) /\ announced \in 1..catalog
    /\ version \in Versions /\ generation \in 0..MaxInvalidations
    /\ DOMAIN cache \subseteq Key /\ CacheBounded
    /\ stamp \in 0..MaxStores /\ horizon \in 0..stamp
    /\ \A r \in Readers :
          /\ read[r].pc \in {"idle", "opening", "walking", "storing", "answered"}
          /\ read[r].pc = "walking" => Bounded(read[r].walk)
    /\ moment \in 1..Len(Moments)
    /\ \A w \in Watchers : Cardinality(snap[w].conn) <= 1
    /\ Taken <= PoolSize

\* Every Read comes back, also when the pool has a single connection that both
\* kinds of readers want, and whatever fails: no error path keeps a connection.
ReadsReturn ==
    /\ \A r \in Readers : read[r].pc # "idle" ~> read[r].pc = "idle"
    /\ \A w \in Watchers : snap[w].pc # "idle" ~> snap[w].pc = "idle"
=============================================================================
