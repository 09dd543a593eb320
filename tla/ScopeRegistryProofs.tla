------------------------ MODULE ScopeRegistryProofs ------------------------
(***************************************************************************)
(* Theorems about the scope registry, for every set of client spans, every *)
(* limit MaxPending and every number of tokens.                            *)
(***************************************************************************)
EXTENDS ScopeRegistry, FiniteSetTheorems, TLAPS

\* The invariant of the registry.  Bounded needs the type invariant, which
\* makes the registered tokens a finite set; EmptyAfterStreamEnd needs
\* RunningOnlyWhileConsumed, which keeps Register out when the consumer is gone.
RegInv ==
    /\ RegTypeOK
    /\ Bounded
    /\ RunningOnlyWhileConsumed
    /\ EmptyAfterStreamEnd

-----------------------------------------------------------------------------
\* The map as a value: a registry is a function from tokens to scopes.
IsRegistry(r, n) == DOMAIN r \subseteq 1..n /\ r \in [DOMAIN r -> Scope]

\* Registered tokens are finitely many, so that counting them means something.
LEMMA TokensFinite ==
    ASSUME NEW n \in Nat, NEW r, IsRegistry(r, n)
    PROVE  IsFiniteSet(DOMAIN r) /\ Cardinality(DOMAIN r) \in Nat
<1>1. IsFiniteSet(1..n)
  BY FS_Interval
<1> QED
  BY <1>1, FS_Subset, FS_CardinalityType DEF IsRegistry

\* Removing tokens, as Discard, lookup and the purge do, leaves a registry of
\* no more scopes.
LEMMA WithoutShrinks ==
    ASSUME NEW n \in Nat, NEW r, IsRegistry(r, n), NEW T
    PROVE  /\ IsRegistry(Without(r, T), n)
           /\ DOMAIN Without(r, T) \subseteq DOMAIN r
           /\ Cardinality(DOMAIN Without(r, T)) <= Cardinality(DOMAIN r)
           /\ \A t \in DOMAIN Without(r, T) : Without(r, T)[t] = r[t]
<1>1. /\ DOMAIN Without(r, T) = DOMAIN r \ T
      /\ \A t \in DOMAIN r \ T : Without(r, T)[t] = r[t]
  BY DEF Without
<1>2. IsRegistry(Without(r, T), n)
  BY <1>1 DEF IsRegistry, Without
<1>3. Cardinality(DOMAIN r \ T) <= Cardinality(DOMAIN r)
  BY TokensFinite, FS_Subset
<1> QED
  BY <1>1, <1>2, <1>3

\* Changing a scope that is registered changes no token.
LEMMA WithKnown ==
    ASSUME NEW n \in Nat, NEW r, IsRegistry(r, n), NEW t \in DOMAIN r, NEW s \in Scope
    PROVE  /\ IsRegistry(With(r, t, s), n)
           /\ DOMAIN With(r, t, s) = DOMAIN r
           /\ \A u \in DOMAIN r : With(r, t, s)[u] = IF u = t THEN s ELSE r[u]
  BY DEF IsRegistry, With

\* Registering adds one scope.
LEMMA WithNew ==
    ASSUME NEW n \in Nat, NEW r, IsRegistry(r, n), NEW s \in Scope
    PROVE  /\ IsRegistry(With(r, n + 1, s), n + 1)
           /\ DOMAIN With(r, n + 1, s) = DOMAIN r \cup {n + 1}
           /\ Cardinality(DOMAIN With(r, n + 1, s)) = Cardinality(DOMAIN r) + 1
<1>1. /\ DOMAIN With(r, n + 1, s) = DOMAIN r \cup {n + 1}
      /\ \A u \in DOMAIN r \cup {n + 1} : With(r, n + 1, s)[u] = IF u = n + 1 THEN s ELSE r[u]
  BY DEF With
<1>2. DOMAIN r \cup {n + 1} \subseteq 1..(n + 1) /\ n + 1 \notin DOMAIN r
  BY DEF IsRegistry
<1>3. IsRegistry(With(r, n + 1, s), n + 1)
  BY <1>1, <1>2 DEF IsRegistry, With
<1>4. Cardinality(DOMAIN r \cup {n + 1}) = Cardinality(DOMAIN r) + 1
  BY <1>2, TokensFinite, FS_AddElement
<1> QED
  BY <1>1, <1>3, <1>4

-----------------------------------------------------------------------------
\* A step that only rewrites the map, to a registry of no more tokens, keeps
\* the invariant: this is every action but Activate, Register, BeginShutdown
\* and StreamEnd.
LEMMA ShrinkKeepsInv ==
    ASSUME RegInv, UNCHANGED <<issued, running, stopping, consumer>>,
           IsRegistry(registrations', issued),
           DOMAIN registrations' \subseteq DOMAIN registrations
    PROVE  RegInv'
<1>1. IsRegistry(registrations, issued) /\ issued \in Nat
  BY DEF RegInv, RegTypeOK, IsRegistry
<1>2. Cardinality(DOMAIN registrations') <= Cardinality(DOMAIN registrations)
  BY <1>1, TokensFinite, FS_Subset
<1>3. Cardinality(DOMAIN registrations') \in Nat /\ Cardinality(DOMAIN registrations) \in Nat
  BY <1>1, TokensFinite
<1>4. RegTypeOK'
  BY DEF RegInv, RegTypeOK, IsRegistry
<1>5. Bounded'
  BY <1>2, <1>3, MaxPendingAssumption DEF RegInv, Bounded
<1> QED
  BY <1>4, <1>5 DEF RegInv, RunningOnlyWhileConsumed, EmptyAfterStreamEnd

LEMMA RegInvInit == RegInit => RegInv
<1> SUFFICES ASSUME RegInit PROVE RegInv
  OBVIOUS
<1>1. DOMAIN registrations = {}
  BY DEF RegInit
<1>2. Cardinality({}) = 0
  BY FS_EmptySet
<1>3. RegTypeOK
  <2>1. issued \in 0..MaxTokens
    BY MaxTokensAssumption DEF RegInit
  <2>2. registrations \in [DOMAIN registrations -> Scope]
    BY <1>1 DEF RegInit
  <2> QED
    BY <1>1, <2>1, <2>2 DEF RegInit, RegTypeOK
<1> QED
  BY <1>1, <1>2, <1>3, MaxPendingAssumption
  DEF RegInit, RegInv, Bounded, RunningOnlyWhileConsumed, EmptyAfterStreamEnd

\* Every operation of the registry preserves its invariant.
LEMMA RegInvStep == RegInv /\ [RegNext]_regVars => RegInv'
<1> SUFFICES ASSUME RegInv, [RegNext]_regVars PROVE RegInv'
  OBVIOUS
<1>a. IsRegistry(registrations, issued) /\ issued \in Nat
  BY DEF RegInv, RegTypeOK, IsRegistry
<1>b. NewScope \in Scope
  BY DEF NewScope, Scope
<1>1. CASE Activate
  BY <1>1 DEF Activate, RegInv, RegTypeOK, Bounded, RunningOnlyWhileConsumed, EmptyAfterStreamEnd
<1>2. CASE Register
  <2> DEFINE kept == Purged(registrations)
  <2>1. /\ IsRegistry(kept, issued)
        /\ DOMAIN kept \subseteq DOMAIN registrations
    BY <1>a, WithoutShrinks DEF Purged
  <2>2. CASE Full(kept)
    BY <1>2, <2>1, <2>2, ShrinkKeepsInv DEF Register
  <2>3. CASE ~ Full(kept)
    <3>1. /\ registrations' = With(kept, issued + 1, NewScope)
          /\ issued' = issued + 1
          /\ issued < MaxTokens
          /\ running
          /\ UNCHANGED <<running, stopping, consumer>>
      BY <1>2, <2>3 DEF Register
    <3>2. /\ IsRegistry(registrations', issued')
          /\ Cardinality(DOMAIN registrations') = Cardinality(DOMAIN kept) + 1
      BY <1>a, <1>b, <2>1, <3>1, WithNew
    <3>3. RegTypeOK'
      BY <3>1, <3>2, <1>a, MaxTokensAssumption DEF RegInv, RegTypeOK, IsRegistry
    <3>4. Bounded'
      <4>1. Cardinality(DOMAIN kept) \in Nat
        BY <1>a, <2>1, TokensFinite
      <4> QED
        BY <2>3, <3>2, <4>1, MaxPendingAssumption DEF Full, Bounded
    <3>5. consumer = "active"
      BY <3>1 DEF RegInv, RunningOnlyWhileConsumed
    <3> QED
      BY <3>1, <3>3, <3>4, <3>5 DEF RegInv, RunningOnlyWhileConsumed, EmptyAfterStreamEnd
  <2> QED
    BY <2>2, <2>3
<1>3. ASSUME NEW t \in 1..issued, MarkerComplete(t) PROVE RegInv'
  <2>1. CASE t \in DOMAIN registrations
    <3>1. [registrations[t] EXCEPT !.marked = TRUE] \in Scope
      BY <1>a, <2>1 DEF IsRegistry, Scope
    <3> QED
      BY <1>3, <1>a, <2>1, <3>1, WithKnown, ShrinkKeepsInv DEF MarkerComplete, Marked
  <2>2. CASE t \notin DOMAIN registrations
    BY <1>3, <1>a, <2>2, ShrinkKeepsInv DEF MarkerComplete, Marked
  <2> QED
    BY <2>1, <2>2
<1>4. ASSUME NEW t \in 1..issued, NEW span \in Spans \cup {NoSpan}, Bind(t, span) PROVE RegInv'
  <2>1. CASE t \in DOMAIN registrations /\ span \in Spans
    <3>1. [registrations[t] EXCEPT !.parent = span] \in Scope
      BY <1>a, <2>1 DEF IsRegistry, Scope
    <3> QED
      BY <1>4, <1>a, <2>1, <3>1, WithKnown, ShrinkKeepsInv DEF Bind, Bound
  <2>2. CASE t \in DOMAIN registrations /\ span \notin Spans
    BY <1>4, <1>a, <2>2, WithoutShrinks, ShrinkKeepsInv DEF Bind, Bound
  <2>3. CASE t \notin DOMAIN registrations
    BY <1>4, <1>a, <2>3, ShrinkKeepsInv DEF Bind, Bound
  <2> QED
    BY <2>1, <2>2, <2>3
<1>5. ASSUME NEW t \in 1..issued, Discard(t) PROVE RegInv'
  BY <1>5, <1>a, WithoutShrinks, ShrinkKeepsInv DEF Discard
<1>6. ASSUME NEW t \in 1..issued, Lookup(t) PROVE RegInv'
  BY <1>6, <1>a, WithoutShrinks, ShrinkKeepsInv DEF Lookup, LookedUp
<1>7. ASSUME NEW t \in 1..issued, Elapse(t) PROVE RegInv'
  <2>1. /\ registrations' = [registrations EXCEPT ![t].expired = TRUE]
        /\ t \in DOMAIN registrations
        /\ UNCHANGED <<issued, running, stopping, consumer>>
    BY <1>7 DEF Elapse
  <2>2. DOMAIN registrations' = DOMAIN registrations
    BY <2>1
  <2>3. \A u \in DOMAIN registrations : registrations'[u] \in Scope
    BY <2>1, <1>a DEF IsRegistry, Scope
  <2>4. IsRegistry(registrations', issued)
    BY <2>1, <2>2, <2>3, <1>a DEF IsRegistry
  <2> QED
    BY <2>1, <2>2, <2>4, ShrinkKeepsInv
<1>8. CASE BeginShutdown
  BY <1>8 DEF BeginShutdown, RegInv, RegTypeOK, Bounded, RunningOnlyWhileConsumed, EmptyAfterStreamEnd
<1>9. CASE StreamEnd
  <2>1. DOMAIN registrations' = {} /\ registrations' \in [{} -> Scope]
    BY <1>9 DEF StreamEnd, Without
  <2>2. Cardinality({}) = 0
    BY FS_EmptySet
  <2>3. RegTypeOK'
    BY <1>9, <2>1 DEF StreamEnd, RegInv, RegTypeOK
  <2> QED
    BY <1>9, <2>1, <2>2, <2>3, MaxPendingAssumption
    DEF StreamEnd, RegInv, Bounded, RunningOnlyWhileConsumed, EmptyAfterStreamEnd
<1>10. CASE UNCHANGED regVars
  BY <1>10 DEF regVars, RegInv, RegTypeOK, Bounded, RunningOnlyWhileConsumed, EmptyAfterStreamEnd
<1> QED
  BY <1>1, <1>2, <1>3, <1>4, <1>5, <1>6, <1>7, <1>8, <1>9, <1>10 DEF RegNext

\* The invariant holds in every reachable state of the registry.
THEOREM RegInvariant == RegSpec => []RegInv
  BY RegInvInit, RegInvStep, PTL DEF RegSpec

\* The registry is well typed: its tokens were issued, and map to scopes.
THEOREM RegistryTyped == RegSpec => []RegTypeOK
<1>1. RegInv => RegTypeOK
  BY DEF RegInv
<1> QED
  BY <1>1, RegInvariant, PTL

\* The registry never holds more than MaxPending scopes (Register).
THEOREM RegistryBounded == RegSpec => []Bounded
<1>1. RegInv => Bounded
  BY DEF RegInv
<1> QED
  BY <1>1, RegInvariant, PTL

\* Scopes are admitted only while the consumer runs and nobody has asked for
\* the shutdown, whatever Start and Shutdown do to each other.
THEOREM AdmissionNeedsConsumer == RegSpec => []RunningOnlyWhileConsumed
<1>1. RegInv => RunningOnlyWhileConsumed
  BY DEF RegInv
<1> QED
  BY <1>1, RegInvariant, PTL

\* No scope outlives the consumer (the last lines of consume).
THEOREM NothingOutlivesConsumer == RegSpec => []EmptyAfterStreamEnd
<1>1. RegInv => EmptyAfterStreamEnd
  BY DEF RegInv
<1> QED
  BY <1>1, RegInvariant, PTL

-----------------------------------------------------------------------------
\* What one step does to the scope of a token issued before: it goes, stays
\* away, or keeps the client span it has.
LEMMA StepKeepsScopes ==
    ASSUME RegInv, [RegNext]_regVars
    PROVE  /\ \A t \in 1..issued :
                 t \notin DOMAIN registrations => t \notin DOMAIN registrations'
           /\ \A t \in DOMAIN registrations \cap DOMAIN registrations' :
                 registrations[t].parent # NoSpan => registrations'[t].parent # NoSpan
<1> DEFINE Kept ==
      /\ DOMAIN registrations' \subseteq DOMAIN registrations
      /\ \A t \in DOMAIN registrations' :
            registrations[t].parent # NoSpan => registrations'[t].parent # NoSpan
<1>a. IsRegistry(registrations, issued) /\ issued \in Nat
  BY DEF RegInv, RegTypeOK, IsRegistry
<1>b. SUFFICES ASSUME ~ Register PROVE Kept
  <2>1. CASE Register
    <3> DEFINE kept == Purged(registrations)
    <3>1. /\ DOMAIN kept \subseteq DOMAIN registrations
          /\ IsRegistry(kept, issued)
          /\ \A t \in DOMAIN kept : kept[t] = registrations[t]
      BY <1>a, WithoutShrinks DEF Purged
    <3>2. CASE Full(kept)
      BY <2>1, <3>1, <3>2 DEF Register
    <3>3. CASE ~ Full(kept)
      <4>1. registrations' = With(kept, issued + 1, NewScope)
        BY <2>1, <3>3 DEF Register
      <4>2. /\ DOMAIN registrations' = DOMAIN kept \cup {issued + 1}
            /\ \A t \in DOMAIN kept : t # issued + 1 => registrations'[t] = kept[t]
        BY <4>1 DEF With
      <4>3. issued + 1 \notin 1..issued
        BY <1>a
      <4> QED
        BY <3>1, <4>2, <4>3, <1>a DEF IsRegistry
    <3> QED
      BY <3>2, <3>3
  <2> QED
    BY <2>1
<1>1. CASE Activate
  BY <1>1 DEF Activate
<1>2. ASSUME NEW t \in 1..issued, MarkerComplete(t) PROVE Kept
  <2>1. CASE t \in DOMAIN registrations
    <3>1. registrations[t] \in Scope
      BY <1>a, <2>1 DEF IsRegistry
    <3>2. [registrations[t] EXCEPT !.marked = TRUE].parent = registrations[t].parent
      BY <3>1 DEF Scope
    <3> QED
      BY <1>2, <2>1, <3>2 DEF MarkerComplete, Marked, With
  <2>2. CASE t \notin DOMAIN registrations
    BY <1>2, <2>2 DEF MarkerComplete, Marked
  <2> QED
    BY <2>1, <2>2
<1>3. ASSUME NEW t \in 1..issued, NEW span \in Spans \cup {NoSpan}, Bind(t, span) PROVE Kept
  <2>1. CASE t \in DOMAIN registrations /\ span \in Spans
    <3>1. registrations[t] \in Scope
      BY <1>a, <2>1 DEF IsRegistry
    <3>2. [registrations[t] EXCEPT !.parent = span].parent # NoSpan
      BY <2>1, <3>1, NoSpanAssumption DEF Scope
    <3> QED
      BY <1>3, <2>1, <3>2 DEF Bind, Bound, With
  <2>2. CASE t \in DOMAIN registrations /\ span \notin Spans
    BY <1>3, <1>a, <2>2, WithoutShrinks DEF Bind, Bound
  <2>3. CASE t \notin DOMAIN registrations
    BY <1>3, <2>3 DEF Bind, Bound
  <2> QED
    BY <2>1, <2>2, <2>3
<1>4. ASSUME NEW t \in 1..issued, Discard(t) PROVE Kept
  BY <1>4, <1>a, WithoutShrinks DEF Discard
<1>5. ASSUME NEW t \in 1..issued, Lookup(t) PROVE Kept
  BY <1>5, <1>a, WithoutShrinks DEF Lookup, LookedUp
<1>6. ASSUME NEW t \in 1..issued, Elapse(t) PROVE Kept
  <2>1. /\ registrations' = [registrations EXCEPT ![t].expired = TRUE]
        /\ t \in DOMAIN registrations
    BY <1>6 DEF Elapse
  <2>2. \A u \in DOMAIN registrations : registrations'[u].parent = registrations[u].parent
    BY <2>1, <1>a DEF IsRegistry, Scope
  <2> QED
    BY <2>1, <2>2
<1>7. CASE BeginShutdown
  BY <1>7 DEF BeginShutdown
<1>8. CASE StreamEnd
  BY <1>8, <1>a, WithoutShrinks DEF StreamEnd
<1>9. CASE UNCHANGED regVars
  BY <1>9 DEF regVars
<1> QED
  BY <1>b, <1>1, <1>2, <1>3, <1>4, <1>5, <1>6, <1>7, <1>8, <1>9 DEF RegNext

\* A scope that was dropped, exported or expired never comes back: a late Bind
\* or MarkerComplete does nothing.
THEOREM ScopesStayGone == RegSpec => NoResurrection
<1>1. RegInv /\ [RegNext]_regVars =>
        [\A t \in 1..issued :
            t \notin DOMAIN registrations => t \notin DOMAIN registrations']_regVars
  BY StepKeepsScopes
<1> QED
  BY <1>1, RegInvariant, PTL DEF RegSpec, NoResurrection

\* A client span supplied by Bind is lost only with its whole scope.
THEOREM ClientSpanStays == RegSpec => ParentKept
<1>1. RegInv /\ [RegNext]_regVars =>
        [\A t \in DOMAIN registrations \cap DOMAIN registrations' :
            registrations[t].parent # NoSpan => registrations'[t].parent # NoSpan]_regVars
  BY StepKeepsScopes
<1> QED
  BY <1>1, RegInvariant, PTL DEF RegSpec, ParentKept
=============================================================================
