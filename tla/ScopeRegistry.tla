--------------------------- MODULE ScopeRegistry ---------------------------
(***************************************************************************)
(* The registry of correlation scopes of trace.SpanRuntime                 *)
(* (src/trace/spans.go): the map "registrations" from marker tokens to     *)
(* scopes, the flags that admit new scopes, and every operation that reads *)
(* or writes them under SpanRuntime.mu.                                    *)
(*                                                                         *)
(* Here any goroutine may call any operation with any token that was ever  *)
(* issued, in any order: this is the contract the instrumented driver and  *)
(* the trace consumer rely on.  Correlation.tla composes the operators of  *)
(* this module with the callers the code really has.                       *)
(*                                                                         *)
(* A token is 16 random bytes in the code; here the n-th token is n, so    *)
(* that tokens are fresh and ordered by their registration time.  A scope  *)
(* keeps the client span that Bind supplied (NoSpan before), whether the   *)
(* marker completed, and whether the retention period has elapsed since    *)
(* the scope was registered.                                               *)
(***************************************************************************)
EXTENDS Naturals, FiniteSets

CONSTANTS
    Spans,          \* sampled, valid client span contexts
    NoSpan,         \* the zero SpanContext
    MaxPending,     \* SpanConfig.MaxPending
    MaxTokens       \* bound of the model: scopes ever registered

ASSUME MaxPendingAssumption == MaxPending \in Nat \ {0}
ASSUME MaxTokensAssumption  == MaxTokens \in Nat
ASSUME NoSpanAssumption     == NoSpan \notin Spans

VARIABLES
    registrations,  \* [live tokens -> scopes]
    issued,         \* number of tokens issued so far
    running,        \* SpanRuntime.running
    stopping,       \* SpanRuntime.stopping
    consumer        \* the goroutine of consume: "none", "active", "done"

regVars == <<registrations, issued, running, stopping, consumer>>

Scope == [parent : Spans \cup {NoSpan}, marked : BOOLEAN, expired : BOOLEAN]

NewScope == [parent |-> NoSpan, marked |-> FALSE, expired |-> FALSE]

-----------------------------------------------------------------------------
(* The map, as values: the consumer applies several of these at one event. *)

Tokens(r) == DOMAIN r

Without(r, T) == [t \in DOMAIN r \ T |-> r[t]]

Expired(r) == {t \in DOMAIN r : r[t].expired}

\* lookup answers "ok" for a registered scope within its retention ...
Live(r, t) == t \in DOMAIN r /\ ~ r[t].expired

\* ... and deletes the scope it finds expired.
LookedUp(r, T) == Without(r, T \cap Expired(r))

\* Register first deletes every expired scope, then refuses when the map is full.
Purged(r) == Without(r, Expired(r))

\* Mutant: an off-by-one at the limit.
FullOneLate(r) == Cardinality(DOMAIN r) > MaxPending

Full(r) == Cardinality(DOMAIN r) >= MaxPending

With(r, t, s) == [u \in DOMAIN r \cup {t} |-> IF u = t THEN s ELSE r[u]]

\* Mutant: the late marker overwrites the scope, and the client span with it.
MarkedAfresh(r, t) ==
    IF t \in DOMAIN r THEN With(r, t, [NewScope EXCEPT !.marked = TRUE]) ELSE r

\* Mutant: a late Bind brings the scope back.
BoundAnyway(r, t, span) ==
    IF span \in Spans THEN With(r, t, [NewScope EXCEPT !.parent = span]) ELSE Without(r, {t})

\* Bind and MarkerComplete touch a scope only while it is in the map.
Marked(r, t) == IF t \in DOMAIN r THEN With(r, t, [r[t] EXCEPT !.marked = TRUE]) ELSE r

Bound(r, t, span) ==
    IF t \notin DOMAIN r THEN r
    ELSE IF span \in Spans THEN With(r, t, [r[t] EXCEPT !.parent = span])
    ELSE Without(r, {t})

-----------------------------------------------------------------------------
RegInit ==
    /\ registrations = [t \in {} |-> NewScope]
    /\ issued = 0
    /\ running = FALSE
    /\ stopping = FALSE
    /\ consumer = "none"

\* The last critical section of Start: a Shutdown that came first wins, and
\* otherwise the consumer is started.
Activate ==
    /\ consumer = "none"
    /\ ~ stopping
    /\ running' = TRUE
    /\ consumer' = "active"
    /\ UNCHANGED <<registrations, issued, stopping>>

\* Register for a parent that is absent or sampled.  It returns "" (and issues
\* nothing) when the runtime is not running, or when the map is full after the
\* purge; an unsampled parent returns "" before the lock and changes nothing.
Register ==
    /\ running
    /\ IF Full(Purged(registrations))
       THEN /\ registrations' = Purged(registrations)
            /\ UNCHANGED issued
       ELSE /\ issued < MaxTokens
            /\ issued' = issued + 1
            /\ registrations' = With(Purged(registrations), issued + 1, NewScope)
    /\ UNCHANGED <<running, stopping, consumer>>

MarkerComplete(t) ==
    /\ registrations' = Marked(registrations, t)
    /\ UNCHANGED <<issued, running, stopping, consumer>>

\* span is NoSpan when the parent is invalid or unsampled.
Bind(t, span) ==
    /\ registrations' = Bound(registrations, t, span)
    /\ UNCHANGED <<issued, running, stopping, consumer>>

Discard(t) ==
    /\ registrations' = Without(registrations, {t})
    /\ UNCHANGED <<issued, running, stopping, consumer>>

Lookup(t) ==
    /\ registrations' = LookedUp(registrations, {t})
    /\ UNCHANGED <<issued, running, stopping, consumer>>

\* The retention of a scope elapses; older scopes elapse first.
Elapse(t) ==
    /\ t \in DOMAIN registrations
    /\ \A u \in DOMAIN registrations : u < t => registrations[u].expired
    /\ registrations' = [registrations EXCEPT ![t].expired = TRUE]
    /\ UNCHANGED <<issued, running, stopping, consumer>>

\* The critical section of Shutdown; it may be called at any time and again.
BeginShutdown ==
    /\ running' = FALSE
    /\ stopping' = TRUE
    /\ UNCHANGED <<registrations, issued, consumer>>

\* Mutant: the registry stays open behind the consumer.
StreamEndStillRunning ==
    /\ consumer = "active"
    /\ registrations' = Without(registrations, DOMAIN registrations)
    /\ consumer' = "done"
    /\ UNCHANGED <<issued, running, stopping>>

\* consume sees its event channel closed.
StreamEnd ==
    /\ consumer = "active"
    /\ running' = FALSE
    /\ registrations' = Without(registrations, DOMAIN registrations)
    /\ consumer' = "done"
    /\ UNCHANGED <<issued, stopping>>

RegNext ==
    \/ Activate
    \/ Register
    \/ \E t \in 1..issued :
          \/ MarkerComplete(t)
          \/ \E span \in Spans \cup {NoSpan} : Bind(t, span)
          \/ Discard(t)
          \/ Lookup(t)
          \/ Elapse(t)
    \/ BeginShutdown
    \/ StreamEnd

RegSpec == RegInit /\ [][RegNext]_regVars

-----------------------------------------------------------------------------
\* Registered tokens are tokens that were issued, and map to scopes.
RegTypeOK ==
    /\ issued \in 0..MaxTokens
    /\ DOMAIN registrations \subseteq 1..issued
    /\ registrations \in [DOMAIN registrations -> Scope]
    /\ running \in BOOLEAN
    /\ stopping \in BOOLEAN
    /\ consumer \in {"none", "active", "done"}

\* The registry never holds more than MaxPending scopes, whatever the callers
\* register, bind late or forget (SpanConfig.MaxPending, Register).
Bounded == Cardinality(DOMAIN registrations) <= MaxPending

\* New scopes are admitted only between the successful end of Start and the
\* first of Shutdown and the end of the stream: a Start that loses the race
\* against Shutdown never opens the registry.
RunningOnlyWhileConsumed == running => consumer = "active" /\ ~ stopping

\* When the consumer is gone nobody removes scopes any more, so none may be
\* left behind and none may be added by a caller that comes late.
EmptyAfterStreamEnd == consumer = "done" => DOMAIN registrations = {}

\* A token that was dropped, exported or expired never comes back: a Bind or
\* MarkerComplete that arrives after the removal is ignored.
NoResurrection ==
    [][\A t \in 1..issued :
          t \notin DOMAIN registrations => t \notin DOMAIN registrations']_regVars

\* The client span of a scope is not lost once it was supplied, except with
\* the whole scope: MarkerComplete arriving late keeps the parent.
ParentKept ==
    [][\A t \in DOMAIN registrations \cap DOMAIN registrations' :
          registrations[t].parent # NoSpan => registrations'[t].parent # NoSpan]_regVars
=============================================================================
