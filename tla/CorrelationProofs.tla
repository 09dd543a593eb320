------------------------- MODULE CorrelationProofs -------------------------
(***************************************************************************)
(* Theorems about the life of scope tokens on the client side of the       *)
(* correlation path, for every set of callers, connections, transactions   *)
(* and queries, every limit, and whatever the stream and its consumer do   *)
(* meanwhile.  Later parts count the open rows and the tokens, and follow  *)
(* the client spans: the theorems that need the consumer as well are in    *)
(* ConsumerProofs.  The last part is about overlapping cursors.            *)
(***************************************************************************)
EXTENDS Correlation, ScopeRegistryProofs

\* What a place that may hold a token contains.
Tokenish(n) == (1..n) \cup {NoToken}

Jobs ==
    [pc : {"idle", "calling", "skipped", "prepared", "rows"},
     op : Nat, conn : Connections \cup {0}, tra : Transactions \cup {0},
     method : {"exec", "query"}, query : Queries \cup {NoToken},
     mode : {"traced", "unsampled", "disabled"},
     token : Nat \cup {NoToken}, held : Nat \cup {NoToken},
     result : {"ok", "failed", "refused", "skip"}, cursor : BOOLEAN]

ConnectionStates ==
    [rows : Int, token : Nat \cup {NoToken}, fallback : Nat \cup {NoToken},
     query : Queries \cup {NoToken}]

\* The places: the running call of a caller, the statement prepared for it, and
\* the connection after ErrSkip.
Places == ({"token", "held"} \X Callers) \cup ({"fallback"} \X Connections)

At(cs, cn, p) ==
    CASE p[1] = "token"    -> cs[p[2]].token
      [] p[1] = "held"     -> cs[p[2]].held
      [] p[1] = "fallback" -> cn[p[2]].fallback

Kept(cs, cn, t) == \E p \in Places : At(cs, cn, p) = t

\* Every token is in at most one place.
Exclusive(cs, cn) ==
    \A p, q \in Places : At(cs, cn, p) # NoToken /\ At(cs, cn, p) = At(cs, cn, q) => p = q

\* A registered scope is in some place exactly until it is bound.
Decided(r, cs, cn) ==
    \A t \in DOMAIN r : r[t].parent = NoSpan <=> Kept(cs, cn, t)

-----------------------------------------------------------------------------
(* The inductive invariant. *)

ClientTyped ==
    /\ ops \in 0..MaxOps
    /\ caller \in [Callers -> Jobs]
    /\ connection \in [Connections -> ConnectionStates]
    /\ \A p \in Places : At(caller, connection, p) \in Tokenish(issued)
    /\ \A c \in Connections : connection[c].token \in Tokenish(issued)

\* Where a caller may hold a token, and that it works for an operation.
CallersHold ==
    \A g \in Callers :
        /\ caller[g].pc # "idle" => caller[g].op \in 1..MaxOps /\ caller[g].conn \in Connections
        /\ caller[g].token # NoToken => caller[g].pc = "calling" /\ caller[g].result # "skip"
        /\ caller[g].held # NoToken => caller[g].pc = "prepared"

RegistrySound ==
    /\ issued \in Nat
    /\ IsRegistry(registrations, issued)
    /\ Bounded

HolderInv ==
    /\ RegistrySound
    /\ ClientTyped
    /\ CallersHold
    /\ Exclusive(caller, connection)
    /\ Decided(registrations, caller, connection)

-----------------------------------------------------------------------------
(* Places. *)

LEMMA PlacesAre ==
    /\ \A g \in Callers : <<"token", g>> \in Places /\ <<"held", g>> \in Places
    /\ \A c \in Connections : <<"fallback", c>> \in Places
    /\ \A p \in Places :
          \/ \E g \in Callers : p = <<"token", g>>
          \/ \E g \in Callers : p = <<"held", g>>
          \/ \E c \in Connections : p = <<"fallback", c>>
    /\ \A cs, cn, x : /\ At(cs, cn, <<"token", x>>) = cs[x].token
                      /\ At(cs, cn, <<"held", x>>) = cs[x].held
                      /\ At(cs, cn, <<"fallback", x>>) = cn[x].fallback
    /\ \A x, y : /\ <<"token", x>> # <<"held", y>>
                 /\ <<"token", x>> # <<"fallback", y>>
                 /\ <<"held", x>> # <<"fallback", y>>
                 /\ <<"token", x>> = <<"token", y>> => x = y
                 /\ <<"held", x>> = <<"held", y>> => x = y
                 /\ <<"fallback", x>> = <<"fallback", y>> => x = y
<1>1. /\ \A g \in Callers : <<"token", g>> \in Places /\ <<"held", g>> \in Places
      /\ \A c \in Connections : <<"fallback", c>> \in Places
  BY DEF Places
<1>2. ASSUME NEW p \in Places
      PROVE  \/ \E g \in Callers : p = <<"token", g>>
             \/ \E g \in Callers : p = <<"held", g>>
             \/ \E c \in Connections : p = <<"fallback", c>>
  BY DEF Places
<1>3. \A cs, cn, x : /\ At(cs, cn, <<"token", x>>) = cs[x].token
                     /\ At(cs, cn, <<"held", x>>) = cs[x].held
                     /\ At(cs, cn, <<"fallback", x>>) = cn[x].fallback
  BY DEF At
<1>4. \A x, y : /\ <<"token", x>> # <<"held", y>>
                /\ <<"token", x>> # <<"fallback", y>>
                /\ <<"held", x>> # <<"fallback", y>>
                /\ <<"token", x>> = <<"token", y>> => x = y
                /\ <<"held", x>> = <<"held", y>> => x = y
                /\ <<"fallback", x>> = <<"fallback", y>> => x = y
  OBVIOUS
<1> QED
  BY <1>1, <1>2, <1>3, <1>4

\* One place may take over a token from another, or get the new one; all others
\* keep theirs or give it up.  A scope stays with its place, or was bound when
\* its place gave it up, or is the new one.
HandedOver(n, cs, cn, cs1, cn1, r, r1, q) ==
    /\ \A p \in Places \ {q} : At(cs1, cn1, p) \in {At(cs, cn, p), NoToken}
    /\ \/ At(cs1, cn1, q) \in {At(cs, cn, q), NoToken, n + 1}
       \/ \E o \in Places \ {q} : At(cs1, cn1, q) = At(cs, cn, o) /\ At(cs1, cn1, o) = NoToken
    /\ \A t \in DOMAIN r1 :
          \/ /\ t \in DOMAIN r
             /\ r1[t].parent = r[t].parent
             /\ Kept(cs, cn, t) => Kept(cs1, cn1, t)
          \/ r1[t].parent # NoSpan /\ ~ Kept(cs1, cn1, t)
          \/ t = n + 1 /\ r1[t].parent = NoSpan /\ At(cs1, cn1, q) = t

LEMMA Handover ==
    ASSUME NEW n \in Nat, NEW cs, NEW cn, NEW cs1, NEW cn1, NEW r, NEW r1, NEW q \in Places,
           \A p \in Places : At(cs, cn, p) \in Tokenish(n),
           Exclusive(cs, cn), Decided(r, cs, cn), DOMAIN r \subseteq 1..n,
           HandedOver(n, cs, cn, cs1, cn1, r, r1, q)
    PROVE  Exclusive(cs1, cn1) /\ Decided(r1, cs1, cn1)
<1> DEFINE a(p) == At(cs, cn, p)
           b(p) == At(cs1, cn1, p)
<1>0. NoToken \notin Nat
  BY NoTokenAssumption
<1>1. \A p \in Places : a(p) \in (1..n) \cup {NoToken}
  BY DEF Tokenish
<1>2. \A p \in Places \ {q} : b(p) = a(p) \/ b(p) = NoToken
  BY DEF HandedOver
<1>3. \/ b(q) = a(q) \/ b(q) = NoToken \/ b(q) = n + 1
      \/ \E o \in Places \ {q} : b(q) = a(o) /\ b(o) = NoToken
  BY DEF HandedOver
<1>4. \A p, o \in Places : a(p) # NoToken /\ a(p) = a(o) => p = o
  BY DEF Exclusive
<1>5. ASSUME NEW p \in Places, b(p) # NoToken, b(p) \in 1..n
      PROVE  \E o \in Places : a(o) = b(p)
  BY <1>2, <1>3, <1>5
<1> HIDE DEF a, b
<1>6. ASSUME NEW p \in Places \ {q}, b(p) # NoToken
      PROVE  b(p) # b(q)
  <2>1. b(p) = a(p) /\ a(p) \in 1..n
    BY <1>1, <1>2, <1>6
  <2>2. CASE b(q) = a(q)
    BY <1>4, <1>6, <2>1, <2>2
  <2>3. CASE b(q) = NoToken \/ b(q) = n + 1
    BY <1>6, <2>1, <2>3
  <2>4. ASSUME NEW o \in Places \ {q}, b(q) = a(o), b(o) = NoToken
        PROVE  b(p) # b(q)
    BY <1>4, <1>6, <2>1, <2>4
  <2> QED
    BY <1>3, <2>2, <2>3, <2>4
<1>7. ASSUME NEW p \in Places, NEW o \in Places, b(p) # NoToken, b(p) = b(o)
      PROVE  p = o
  BY <1>2, <1>4, <1>6, <1>7
<1>8. Exclusive(cs1, cn1)
  BY <1>7 DEF Exclusive, b
<1>9. ASSUME NEW t \in DOMAIN r1
      PROVE  r1[t].parent = NoSpan <=> Kept(cs1, cn1, t)
  <2>1. CASE /\ t \in DOMAIN r
             /\ r1[t].parent = r[t].parent
             /\ Kept(cs, cn, t) => Kept(cs1, cn1, t)
    <3>1. t \in 1..n /\ t # NoToken
      BY <1>0, <2>1
    <3>2. Kept(cs1, cn1, t) => Kept(cs, cn, t)
      BY <1>5, <3>1 DEF Kept, a, b
    <3> QED
      BY <2>1, <3>2 DEF Decided
  <2>2. CASE r1[t].parent # NoSpan /\ ~ Kept(cs1, cn1, t)
    BY <2>2
  <2>3. CASE t = n + 1 /\ r1[t].parent = NoSpan /\ At(cs1, cn1, q) = t
    BY <2>3 DEF Kept
  <2> QED
    BY <2>1, <2>2, <2>3 DEF HandedOver
<1> QED
  BY <1>8, <1>9 DEF Decided

\* The same for a step of one caller on one connection: only what g and c hold
\* changes, in one of the ways the driver has.
HandsOver(n, tk, hd, fb, tk1, hd1, fb1) ==
    \/ tk1 \in {tk, NoToken, n + 1} /\ hd1 \in {hd, NoToken} /\ fb1 \in {fb, NoToken}
    \/ tk1 = NoToken /\ hd1 = NoToken /\ fb1 = n + 1
    \/ tk1 = hd /\ hd1 = NoToken /\ fb1 = fb
    \/ tk1 = NoToken /\ hd1 = fb /\ fb1 = NoToken

\* What becomes of a registered scope t while these three places change.
StaysOrLeaves(r, r1, n, t, tk, hd, fb, tk1, hd1, fb1) ==
    \/ /\ t \in DOMAIN r
       /\ r1[t].parent = r[t].parent
       /\ t \in {tk, hd, fb} => t \in {tk1, hd1, fb1}
    \/ r1[t].parent # NoSpan /\ t = tk /\ t # NoToken /\ t \notin {tk1, hd1, fb1}
    \/ t = n + 1 /\ r1[t].parent = NoSpan /\ t \in {tk1, fb1}

LEMMA Passed ==
    ASSUME HolderInv, NEW g \in Callers, NEW c \in Connections, NEW job \in Jobs,
           NEW cn \in ConnectionStates,
           caller' = [caller EXCEPT ![g] = job],
           connection' = [connection EXCEPT ![c] = cn],
           ops' \in 0..MaxOps, RegistrySound', issued' \in {issued, issued + 1},
           cn.token \in Tokenish(issued'),
           job.pc # "idle" => job.op \in 1..MaxOps /\ job.conn \in Connections,
           job.token # NoToken => job.pc = "calling" /\ job.result # "skip",
           job.held # NoToken => job.pc = "prepared",
           issued' = issued => job.token # issued + 1 /\ cn.fallback # issued + 1,
           HandsOver(issued, caller[g].token, caller[g].held, connection[c].fallback,
                     job.token, job.held, cn.fallback),
           \A t \in DOMAIN registrations' :
              StaysOrLeaves(registrations, registrations', issued, t,
                            caller[g].token, caller[g].held, connection[c].fallback,
                            job.token, job.held, cn.fallback)
    PROVE  HolderInv'
<1> DEFINE tk == caller[g].token
           hd == caller[g].held
           fb == connection[c].fallback
           a(p) == At(caller, connection, p)
           b(p) == At(caller', connection', p)
           T == <<"token", g>>
           H == <<"held", g>>
           F == <<"fallback", c>>
<1>0. /\ issued \in Nat /\ NoToken \notin Nat
      /\ DOMAIN registrations \subseteq 1..issued
      /\ caller \in [Callers -> Jobs]
      /\ connection \in [Connections -> ConnectionStates]
      /\ \A p \in Places : a(p) \in Tokenish(issued)
      /\ Exclusive(caller, connection)
      /\ Decided(registrations, caller, connection)
  BY NoTokenAssumption DEF HolderInv, RegistrySound, ClientTyped, IsRegistry
<1>a. /\ \A h \in Callers : caller'[h] = IF h = g THEN job ELSE caller[h]
      /\ \A d \in Connections : connection'[d] = IF d = c THEN cn ELSE connection[d]
      /\ caller' \in [Callers -> Jobs]
      /\ connection' \in [Connections -> ConnectionStates]
  BY <1>0
<1>1. /\ T \in Places /\ H \in Places /\ F \in Places
      /\ T # H /\ T # F /\ H # F
      /\ a(T) = tk /\ a(H) = hd /\ a(F) = fb
      /\ b(T) = job.token /\ b(H) = job.held /\ b(F) = cn.fallback
  <2>1. T \in Places /\ H \in Places /\ F \in Places /\ T # H /\ T # F /\ H # F
    BY PlacesAre
  <2>2. a(T) = tk /\ a(H) = hd /\ a(F) = fb
    BY PlacesAre
  <2>3. /\ b(T) = caller'[g].token
        /\ b(H) = caller'[g].held
        /\ b(F) = connection'[c].fallback
    BY DEF At
  <2> QED
    BY <1>a, <2>1, <2>2, <2>3
<1>2. ASSUME NEW p \in Places, p # T, p # H, p # F
      PROVE  b(p) = a(p)
  <2>1. ASSUME NEW h \in Callers, p = <<"token", h>>
        PROVE  b(p) = a(p)
    <3>1. h # g
      BY <1>2, <2>1
    <3>2. a(p) = caller[h].token /\ b(p) = caller'[h].token
      BY <2>1 DEF At
    <3> QED
      BY <1>a, <3>1, <3>2
  <2>2. ASSUME NEW h \in Callers, p = <<"held", h>>
        PROVE  b(p) = a(p)
    <3>1. h # g
      BY <1>2, <2>2
    <3>2. a(p) = caller[h].held /\ b(p) = caller'[h].held
      BY <2>2 DEF At
    <3> QED
      BY <1>a, <3>1, <3>2
  <2>3. ASSUME NEW d \in Connections, p = <<"fallback", d>>
        PROVE  b(p) = a(p)
    <3>1. d # c
      BY <1>2, <2>3
    <3>2. a(p) = connection[d].fallback /\ b(p) = connection'[d].fallback
      BY <2>3 DEF At
    <3> QED
      BY <1>a, <3>1, <3>2
  <2> QED
    BY <2>1, <2>2, <2>3, PlacesAre
<1> HIDE DEF T, H, F, a, b
<1>3. \A p, o \in Places : a(p) # NoToken /\ a(p) = a(o) => p = o
  BY <1>0 DEF Exclusive, a
<1>4. ASSUME NEW t, Kept(caller, connection, t), t \in {tk, hd, fb} => t \in {job.token, job.held, cn.fallback}
      PROVE  Kept(caller', connection', t)
  <2>1. PICK p \in Places : a(p) = t
    BY <1>4 DEF Kept, a
  <2>2. CASE p = T \/ p = H \/ p = F
    BY <1>1, <1>4, <2>1, <2>2 DEF Kept, b
  <2>3. CASE p # T /\ p # H /\ p # F
    BY <1>2, <2>1, <2>3 DEF Kept, b
  <2> QED
    BY <2>2, <2>3
<1>5. ASSUME NEW t, t = tk, t # NoToken, t \notin {job.token, job.held, cn.fallback}
      PROVE  ~ Kept(caller', connection', t)
  <2> SUFFICES ASSUME NEW p \in Places, b(p) = t PROVE FALSE
    BY DEF Kept, b
  <2>1. p # T /\ p # H /\ p # F
    BY <1>1, <1>5
  <2>2. a(p) = t
    BY <1>2, <2>1
  <2> QED
    BY <1>1, <1>3, <1>5, <2>1, <2>2
<1>6. ASSUME NEW q \in {T, H, F}, \A t \in {job.token, cn.fallback} : t = issued + 1 => b(q) = t
      PROVE  \A t \in DOMAIN registrations' :
              \/ /\ t \in DOMAIN registrations
                 /\ registrations'[t].parent = registrations[t].parent
                 /\ Kept(caller, connection, t) => Kept(caller', connection', t)
              \/ registrations'[t].parent # NoSpan /\ ~ Kept(caller', connection', t)
              \/ t = issued + 1 /\ registrations'[t].parent = NoSpan /\ At(caller', connection', q) = t
  BY <1>4, <1>5, <1>6 DEF StaysOrLeaves, b
<1>7. \A p \in Places : a(p) \in (1..issued) \cup {NoToken}
  BY <1>0 DEF a, Tokenish
<1>8. ASSUME NEW q \in {T, H, F},
             \A t \in {job.token, cn.fallback} : t = issued + 1 => b(q) = t,
             \A p \in Places \ {q} : b(p) \in {a(p), NoToken},
             \/ b(q) \in {a(q), NoToken, issued + 1}
             \/ \E o \in Places \ {q} : b(q) = a(o) /\ b(o) = NoToken
      PROVE  Exclusive(caller', connection') /\ Decided(registrations', caller', connection')
  <2>1. q \in Places
    BY <1>1
  <2>2. /\ \A p \in Places \ {q} : At(caller', connection', p) \in {At(caller, connection, p), NoToken}
        /\ \/ At(caller', connection', q) \in {At(caller, connection, q), NoToken, issued + 1}
           \/ \E o \in Places \ {q} : /\ At(caller', connection', q) = At(caller, connection, o)
                                      /\ At(caller', connection', o) = NoToken
    BY <1>8 DEF a, b
  <2>3. \A t \in DOMAIN registrations' :
              \/ /\ t \in DOMAIN registrations
                 /\ registrations'[t].parent = registrations[t].parent
                 /\ Kept(caller, connection, t) => Kept(caller', connection', t)
              \/ registrations'[t].parent # NoSpan /\ ~ Kept(caller', connection', t)
              \/ t = issued + 1 /\ registrations'[t].parent = NoSpan /\ At(caller', connection', q) = t
    BY <1>6, <1>8
  <2>4. \A p \in Places : At(caller, connection, p) \in Tokenish(issued)
    BY <1>0 DEF a
  <2>5. HandedOver(issued, caller, connection, caller', connection',
                   registrations, registrations', q)
    BY <2>2, <2>3, Zenon DEF HandedOver
  <2> QED
    BY <1>0, <2>1, <2>4, <2>5, Handover
<1>9. /\ Exclusive(caller', connection') /\ Decided(registrations', caller', connection')
      /\ \A p \in Places : b(p) \in (1..(issued + 1)) \cup {NoToken}
  <2>1. CASE /\ job.token \in {tk, NoToken, issued + 1}
             /\ job.held \in {hd, NoToken}
             /\ cn.fallback \in {fb, NoToken}
    <3>1. cn.fallback # issued + 1
      BY <1>0, <1>1, <1>7, <2>1
    <3>2. \A p \in Places \ {T} : b(p) \in {a(p), NoToken}
      BY <1>1, <1>2, <2>1
    <3>3. b(T) \in {a(T), NoToken, issued + 1}
      BY <1>1, <2>1
    <3>4. Exclusive(caller', connection') /\ Decided(registrations', caller', connection')
      BY <1>1, <1>8, <3>1, <3>2, <3>3
    <3> QED
      BY <1>0, <1>7, <3>2, <3>3, <3>4
  <2>2. CASE job.token = NoToken /\ job.held = NoToken /\ cn.fallback = issued + 1
    <3>2. \A p \in Places \ {F} : b(p) \in {a(p), NoToken}
      BY <1>1, <1>2, <2>2
    <3>3. b(F) = issued + 1
      BY <1>1, <2>2
    <3>4. Exclusive(caller', connection') /\ Decided(registrations', caller', connection')
      BY <1>0, <1>8, <2>2, <3>2, <3>3
    <3> QED
      BY <1>0, <1>7, <3>2, <3>3, <3>4
  <2>3. CASE job.token = hd /\ job.held = NoToken /\ cn.fallback = fb
    <3>1. hd # issued + 1 /\ fb # issued + 1
      BY <1>0, <1>1, <1>7
    <3>2. \A p \in Places \ {T} : b(p) \in {a(p), NoToken}
      BY <1>1, <1>2, <2>3
    <3>3. b(T) = a(H) /\ b(H) = NoToken /\ H \in Places \ {T}
      BY <1>1, <2>3
    <3>4. Exclusive(caller', connection') /\ Decided(registrations', caller', connection')
      BY <1>8, <2>3, <3>1, <3>2, <3>3
    <3> QED
      BY <1>0, <1>7, <3>2, <3>3, <3>4
  <2>4. CASE job.token = NoToken /\ job.held = fb /\ cn.fallback = NoToken
    <3>2. \A p \in Places \ {H} : b(p) \in {a(p), NoToken}
      BY <1>1, <1>2, <2>4
    <3>3. b(H) = a(F) /\ b(F) = NoToken /\ F \in Places \ {H}
      BY <1>1, <2>4
    <3>4. Exclusive(caller', connection') /\ Decided(registrations', caller', connection')
      BY <1>0, <1>8, <2>4, <3>2, <3>3
    <3> QED
      BY <1>0, <1>7, <3>2, <3>3, <3>4
  <2> QED
    BY <2>1, <2>2, <2>3, <2>4 DEF HandsOver
<1>10. \A p \in Places : At(caller', connection', p) \in Tokenish(issued')
  <2>1. CASE issued' = issued + 1
    BY <1>0, <1>9, <2>1 DEF Tokenish, b
  <2>2. CASE issued' = issued
    <3>1. job.token # issued + 1 /\ cn.fallback # issued + 1 /\ job.held # issued + 1
      BY <1>0, <1>1, <1>7, <2>2 DEF HandsOver
    <3>2. \A p \in Places : b(p) # issued + 1
      BY <1>0, <1>1, <1>2, <1>7, <3>1
    <3> QED
      <4>1. \A p \in Places : b(p) \in (1..issued) \cup {NoToken}
        BY <1>0, <1>9, <3>2
      <4> QED
        BY <2>2, <4>1 DEF Tokenish, b
  <2> QED
    BY <2>1, <2>2
<1>11. \A d \in Connections : connection'[d].token \in Tokenish(issued')
  <2>1. \A d \in Connections : connection[d].token \in Tokenish(issued)
    BY DEF HolderInv, ClientTyped
  <2>2. Tokenish(issued) \subseteq Tokenish(issued')
    BY <1>0 DEF Tokenish
  <2> QED
    BY <1>a, <2>1, <2>2
<1>12. CallersHold'
  BY <1>a DEF HolderInv, CallersHold
<1>13. ClientTyped'
  BY <1>a, <1>10, <1>11 DEF ClientTyped
<1> QED
  BY <1>9, <1>12, <1>13 DEF HolderInv

-----------------------------------------------------------------------------
(* Registries. *)

\* r1 holds some of the scopes of r, under the same client spans.
Within(r1, r) ==
    /\ DOMAIN r1 \subseteq DOMAIN r
    /\ \A t \in DOMAIN r1 : r1[t].parent = r[t].parent

Small(r, n) == IsRegistry(r, n) /\ Cardinality(DOMAIN r) <= MaxPending

LEMMA WithoutWithin ==
    ASSUME NEW n \in Nat, NEW r, Small(r, n), NEW T
    PROVE  /\ Small(Without(r, T), n)
           /\ Within(Without(r, T), r)
           /\ DOMAIN Without(r, T) = DOMAIN r \ T
<1>1. /\ IsRegistry(Without(r, T), n)
      /\ Cardinality(DOMAIN Without(r, T)) <= Cardinality(DOMAIN r)
      /\ \A t \in DOMAIN Without(r, T) : Without(r, T)[t] = r[t]
  BY WithoutShrinks DEF Small
<1>2. DOMAIN Without(r, T) = DOMAIN r \ T
  BY DEF Without
<1>3. Cardinality(DOMAIN Without(r, T)) \in Nat /\ Cardinality(DOMAIN r) \in Nat
  BY <1>1, TokensFinite DEF Small
<1> QED
  BY <1>1, <1>2, <1>3, MaxPendingAssumption DEF Small, Within

LEMMA PurgedWithin ==
    ASSUME NEW n \in Nat, NEW r, Small(r, n)
    PROVE  Small(Purged(r), n) /\ Within(Purged(r), r)
  BY WithoutWithin DEF Purged

\* What serverScope hands back: no token and fewer scopes, or a new scope
\* under a new token.  Either way the connection keeps no fallback token.
ScopeFor(cn, s) ==
    /\ s = [registrations |-> s.registrations, issued |-> s.issued, token |-> s.token,
            connection |-> s.connection]
    /\ s.connection \in ConnectionStates
    /\ s.connection.fallback = NoToken
    /\ s.connection.token \in Tokenish(s.issued)
    /\ s.issued \in {issued, issued + 1}
    /\ Small(s.registrations, s.issued)
    /\ \/ /\ s.token = NoToken
          /\ Within(s.registrations, registrations)
          /\ cn.fallback \notin DOMAIN s.registrations
       \/ /\ s.token = issued + 1
          /\ s.issued = issued + 1
          /\ \A t \in DOMAIN s.registrations :
                \/ t = issued + 1 /\ s.registrations[t].parent = NoSpan
                \/ /\ t \in DOMAIN registrations \ {cn.fallback}
                   /\ s.registrations[t].parent = registrations[t].parent

LEMMA ServerScopeIs ==
    ASSUME RegistrySound, NEW cn \in ConnectionStates, cn.token \in Tokenish(issued),
           cn.fallback \in Tokenish(issued), NEW mode, NEW markerOk \in BOOLEAN
    PROVE  ScopeFor(cn, ServerScope(cn, mode, markerOk))
<1> DEFINE emptied == [cn EXCEPT !.fallback = NoToken]
           kept == Without(registrations, {cn.fallback})
           s == ServerScope(cn, mode, markerOk)
           new == With(Purged(kept), issued + 1, [NewScope EXCEPT !.marked = TRUE])
<1>0. issued \in Nat /\ Small(registrations, issued)
  BY DEF RegistrySound, Small, Bounded
<1>1. /\ emptied \in ConnectionStates
      /\ emptied.fallback = NoToken
      /\ emptied.token = cn.token
      /\ Tokenish(issued) \subseteq Tokenish(issued + 1)
      /\ [emptied EXCEPT !.token = issued + 1] \in ConnectionStates
      /\ [emptied EXCEPT !.token = issued + 1].fallback = NoToken
      /\ [emptied EXCEPT !.token = issued + 1].token = issued + 1
  <2>1. emptied \in ConnectionStates /\ emptied.fallback = NoToken /\ emptied.token = cn.token
    BY DEF ConnectionStates
  <2> HIDE DEF emptied
  <2>2. issued + 1 \in Nat /\ 1..issued \subseteq 1..(issued + 1)
    BY <1>0
  <2>3. /\ [emptied EXCEPT !.token = issued + 1] \in ConnectionStates
        /\ [emptied EXCEPT !.token = issued + 1].fallback = emptied.fallback
        /\ [emptied EXCEPT !.token = issued + 1].token = issued + 1
    BY <2>1, <2>2 DEF ConnectionStates
  <2> QED
    BY <2>1, <2>2, <2>3 DEF Tokenish
<1>2. /\ Small(kept, issued) /\ Within(kept, registrations)
      /\ DOMAIN kept = DOMAIN registrations \ {cn.fallback}
  BY <1>0, WithoutWithin
<1>3. Small(Purged(kept), issued) /\ Within(Purged(kept), kept)
  BY <1>0, <1>2, PurgedWithin
<1>4. /\ Within(Purged(kept), registrations)
      /\ cn.fallback \notin DOMAIN Purged(kept)
  BY <1>2, <1>3 DEF Within
<1>5. ASSUME NEW r, Small(r, issued)
      PROVE  Small(r, issued + 1)
  <2>1. 1..issued \subseteq 1..(issued + 1)
    BY <1>0
  <2> QED
    BY <1>5, <2>1 DEF Small, IsRegistry
<1> HIDE DEF emptied, kept, s, new
<1>6. CASE Overlaps(cn)
  <2>1. s = [registrations |-> Without(registrations, {cn.fallback, cn.token}),
             issued |-> issued, token |-> NoToken, connection |-> emptied]
    BY <1>6 DEF s, ServerScope, emptied
  <2>2. /\ Small(Without(registrations, {cn.fallback, cn.token}), issued)
        /\ Within(Without(registrations, {cn.fallback, cn.token}), registrations)
        /\ DOMAIN Without(registrations, {cn.fallback, cn.token})
              = DOMAIN registrations \ {cn.fallback, cn.token}
    BY <1>0, WithoutWithin
  <2> QED
    BY <1>1, <2>1, <2>2 DEF ScopeFor, s
<1>7. CASE ~ Overlaps(cn) /\ ~ Admits(kept, mode)
  <2>1. s = [registrations |-> Unregistered(kept, mode),
             issued |-> issued, token |-> NoToken, connection |-> emptied]
    BY <1>7 DEF s, ServerScope, emptied, kept
  <2>2. Unregistered(kept, mode) \in {kept, Purged(kept)}
    BY DEF Unregistered
  <2> QED
    BY <1>1, <1>2, <1>3, <1>4, <2>1, <2>2 DEF ScopeFor, s
<1>8. CASE ~ Overlaps(cn) /\ Admits(kept, mode) /\ ~ markerOk
  <2>1. s = [registrations |-> Purged(kept),
             issued |-> issued + 1, token |-> NoToken, connection |-> emptied]
    BY <1>8 DEF s, ServerScope, emptied, kept
  <2>2. Small(Purged(kept), issued + 1)
    BY <1>3, <1>5
  <2> QED
    BY <1>1, <1>4, <2>1, <2>2 DEF ScopeFor, s
<1>9. CASE ~ Overlaps(cn) /\ Admits(kept, mode) /\ markerOk
  <2>1. s = [registrations |-> new, issued |-> issued + 1, token |-> issued + 1,
             connection |-> [emptied EXCEPT !.token = issued + 1]]
    BY <1>9 DEF s, ServerScope, emptied, kept, new
  <2>2. /\ [NewScope EXCEPT !.marked = TRUE] \in Scope
        /\ [NewScope EXCEPT !.marked = TRUE].parent = NoSpan
    BY DEF NewScope, Scope
  <2>3. /\ IsRegistry(new, issued + 1)
        /\ DOMAIN new = DOMAIN Purged(kept) \cup {issued + 1}
        /\ Cardinality(DOMAIN new) = Cardinality(DOMAIN Purged(kept)) + 1
    BY <1>0, <1>3, <2>2, WithNew DEF Small, new
  <2>4. Cardinality(DOMAIN Purged(kept)) < MaxPending
    BY <1>0, <1>3, <1>9, TokensFinite, MaxPendingAssumption DEF Admits, Full, Small
  <2>5. Small(new, issued + 1)
    BY <1>0, <1>3, <2>3, <2>4, TokensFinite, MaxPendingAssumption DEF Small
  <2>6. \A t \in DOMAIN new : new[t] = IF t = issued + 1 THEN [NewScope EXCEPT !.marked = TRUE]
                                       ELSE Purged(kept)[t]
    BY <2>3 DEF new, With
  <2>7. ASSUME NEW t \in DOMAIN new
        PROVE  \/ t = issued + 1 /\ new[t].parent = NoSpan
               \/ /\ t \in DOMAIN registrations \ {cn.fallback}
                  /\ new[t].parent = registrations[t].parent
    <3>1. CASE t = issued + 1
      BY <2>2, <2>6, <3>1
    <3>2. CASE t # issued + 1
      <4>1. t \in DOMAIN Purged(kept) /\ new[t] = Purged(kept)[t]
        BY <2>3, <2>6, <3>2
      <4> QED
        BY <1>4, <4>1 DEF Within
    <3> QED
      BY <3>1, <3>2
  <2>8. issued + 1 \in Tokenish(issued + 1)
    BY <1>0 DEF Tokenish
  <2>9. /\ s.registrations = new
        /\ s.issued = issued + 1
        /\ s.token = issued + 1
        /\ s.connection = [emptied EXCEPT !.token = issued + 1]
    BY <2>1
  <2>10. /\ s.connection \in ConnectionStates
         /\ s.connection.fallback = NoToken
         /\ s.connection.token \in Tokenish(s.issued)
    BY <1>1, <2>8, <2>9
  <2>11. s = [registrations |-> s.registrations, issued |-> s.issued, token |-> s.token,
              connection |-> s.connection]
    BY <2>1
  <2> QED
    BY <2>5, <2>7, <2>9, <2>10, <2>11 DEF ScopeFor, s
<1> QED
  BY <1>6, <1>7, <1>8, <1>9 DEF s

-----------------------------------------------------------------------------
(* The steps of the driver. *)

\* What the invariant says of one caller and one connection.
LEMMA HolderFacts ==
    ASSUME HolderInv
    PROVE  /\ issued \in Nat /\ NoToken \notin Nat
           /\ Small(registrations, issued)
           /\ DOMAIN registrations \subseteq 1..issued
           /\ ops \in 0..MaxOps
           /\ \A g \in Callers :
                 /\ caller[g] \in Jobs
                 /\ caller[g].token \in Tokenish(issued)
                 /\ caller[g].held \in Tokenish(issued)
                 /\ caller[g].pc # "idle" => caller[g].op \in 1..MaxOps /\ caller[g].conn \in Connections
                 /\ caller[g].token # NoToken => caller[g].pc = "calling" /\ caller[g].result # "skip"
                 /\ caller[g].held # NoToken => caller[g].pc = "prepared"
           /\ \A c \in Connections :
                 /\ connection[c] \in ConnectionStates
                 /\ connection[c].token \in Tokenish(issued)
                 /\ connection[c].fallback \in Tokenish(issued)
<1>1. /\ issued \in Nat /\ NoToken \notin Nat
      /\ Small(registrations, issued)
      /\ DOMAIN registrations \subseteq 1..issued
      /\ ops \in 0..MaxOps
  BY NoTokenAssumption DEF HolderInv, RegistrySound, ClientTyped, Bounded, Small, IsRegistry
<1>2. ASSUME NEW g \in Callers
      PROVE  /\ caller[g] \in Jobs
             /\ caller[g].token \in Tokenish(issued)
             /\ caller[g].held \in Tokenish(issued)
  <2>1. /\ <<"token", g>> \in Places /\ <<"held", g>> \in Places
        /\ At(caller, connection, <<"token", g>>) = caller[g].token
        /\ At(caller, connection, <<"held", g>>) = caller[g].held
    BY PlacesAre
  <2> QED
    BY <2>1 DEF HolderInv, ClientTyped
<1>3. ASSUME NEW c \in Connections
      PROVE  /\ connection[c] \in ConnectionStates
             /\ connection[c].token \in Tokenish(issued)
             /\ connection[c].fallback \in Tokenish(issued)
  <2>1. /\ <<"fallback", c>> \in Places
        /\ At(caller, connection, <<"fallback", c>>) = connection[c].fallback
    BY PlacesAre
  <2> QED
    BY <2>1 DEF HolderInv, ClientTyped
<1>4. CallersHold
  BY DEF HolderInv
<1> QED
  BY <1>1, <1>2, <1>3, <1>4 DEF CallersHold

LEMMA SubmitKeeps ==
    ASSUME HolderInv, NEW g \in Callers, NEW job \in Jobs, NEW s, NEW markerOk,
           NEW result \in {"ok", "failed", "refused", "skip"},
           Submit(g, job, s, result, markerOk), ops' \in 0..MaxOps,
           job.conn \in Connections, job.op \in 1..MaxOps,
           s.connection \in ConnectionStates, s.connection.token \in Tokenish(s.issued),
           s.issued \in {issued, issued + 1}, Small(s.registrations, s.issued),
           s.token \in Nat \cup {NoToken},
           s.token # NoToken => result # "skip",
           s.issued = issued => s.token # issued + 1 /\ s.connection.fallback # issued + 1,
           HandsOver(issued, caller[g].token, caller[g].held, connection[job.conn].fallback,
                     s.token, NoToken, s.connection.fallback),
           \A t \in DOMAIN s.registrations :
              StaysOrLeaves(registrations, s.registrations, issued, t,
                            caller[g].token, caller[g].held, connection[job.conn].fallback,
                            s.token, NoToken, s.connection.fallback)
    PROVE  HolderInv'
<1> DEFINE new == [job EXCEPT !.pc = "calling", !.token = s.token, !.held = NoToken, !.result = result]
<1>1. /\ new \in Jobs
      /\ new.pc = "calling" /\ new.op = job.op /\ new.conn = job.conn
      /\ new.token = s.token /\ new.held = NoToken /\ new.result = result
  BY DEF Jobs
<1>2. /\ caller' = [caller EXCEPT ![g] = new]
      /\ connection' = [connection EXCEPT ![job.conn] = s.connection]
      /\ registrations' = s.registrations
      /\ issued' = s.issued
  BY DEF Submit
<1> HIDE DEF new
<1>3. RegistrySound'
  BY <1>2, HolderFacts DEF RegistrySound, Small, Bounded
<1> QED
  BY <1>1, <1>2, <1>3, Passed

\* A scope serverScope returned goes to the call, or after ErrSkip to the
\* connection.
LEMMA ScopeHandsOver ==
    ASSUME HolderInv, NEW cn, NEW s, ScopeFor(cn, s), cn.fallback \in Tokenish(issued),
           NEW tk1 \in {s.token, NoToken}, NEW fb1 \in {s.token, NoToken},
           s.token # NoToken => s.token \in {tk1, fb1},
           s.token # NoToken /\ fb1 = s.token => tk1 = NoToken
    PROVE  /\ HandsOver(issued, NoToken, NoToken, cn.fallback, tk1, NoToken, fb1)
           /\ \A t \in DOMAIN s.registrations :
                 StaysOrLeaves(registrations, s.registrations, issued, t,
                               NoToken, NoToken, cn.fallback, tk1, NoToken, fb1)
           /\ s.issued = issued => tk1 # issued + 1 /\ fb1 # issued + 1
           /\ s.token \in Nat \cup {NoToken}
<1>0. /\ issued \in Nat /\ NoToken \notin Nat /\ issued + 1 # issued
      /\ DOMAIN registrations \subseteq Nat
      /\ issued + 1 \in Nat
  BY HolderFacts
<1>1. CASE s.token = NoToken
  <2>1. tk1 = NoToken /\ fb1 = NoToken
    BY <1>1
  <2>2. Within(s.registrations, registrations) /\ cn.fallback \notin DOMAIN s.registrations
    BY <1>0, <1>1 DEF ScopeFor
  <2>3. ASSUME NEW t \in DOMAIN s.registrations
        PROVE  StaysOrLeaves(registrations, s.registrations, issued, t,
                             NoToken, NoToken, cn.fallback, tk1, NoToken, fb1)
    <3>1. t \in DOMAIN registrations /\ s.registrations[t].parent = registrations[t].parent
      BY <2>2 DEF Within
    <3>2. t # cn.fallback /\ t # NoToken
      BY <1>0, <2>2, <3>1
    <3> QED
      BY <3>1, <3>2 DEF StaysOrLeaves
  <2>4. HandsOver(issued, NoToken, NoToken, cn.fallback, tk1, NoToken, fb1)
    BY <2>1 DEF HandsOver
  <2> QED
    BY <1>0, <1>1, <2>1, <2>3, <2>4
<1>2. CASE s.token # NoToken
  <2>1. /\ s.token = issued + 1
        /\ s.issued = issued + 1
        /\ \A t \in DOMAIN s.registrations :
              \/ t = issued + 1 /\ s.registrations[t].parent = NoSpan
              \/ /\ t \in DOMAIN registrations \ {cn.fallback}
                 /\ s.registrations[t].parent = registrations[t].parent
    BY <1>2 DEF ScopeFor
  <2>2. ASSUME NEW t \in DOMAIN s.registrations
        PROVE  StaysOrLeaves(registrations, s.registrations, issued, t,
                             NoToken, NoToken, cn.fallback, tk1, NoToken, fb1)
    <3>1. CASE t = issued + 1 /\ s.registrations[t].parent = NoSpan
      BY <1>2, <2>1, <3>1 DEF StaysOrLeaves
    <3>2. CASE /\ t \in DOMAIN registrations \ {cn.fallback}
               /\ s.registrations[t].parent = registrations[t].parent
      <4>1. t # NoToken
        BY <1>0, <3>2
      <4> QED
        BY <3>2, <4>1 DEF StaysOrLeaves
    <3> QED
      BY <2>1, <3>1, <3>2
  <2>3. HandsOver(issued, NoToken, NoToken, cn.fallback, tk1, NoToken, fb1)
    BY <1>2, <2>1 DEF HandsOver
  <2> QED
    BY <1>0, <2>1, <2>2, <2>3
<1> QED
  BY <1>1, <1>2

Begun(job, c, o) ==
    job \in Jobs /\ job.conn = c /\ job.op = o /\ job.token = NoToken /\ job.held = NoToken

LEMMA NewJobIs ==
    ASSUME ops \in Nat, NEW c \in Connections, NEW tra \in Transactions,
           NEW method \in {"exec", "query"}, NEW q \in Queries, NEW mode \in Modes
    PROVE  /\ NewJob(c, tra, method, q, mode) \in Jobs
           /\ NewJob(c, tra, method, q, mode).conn = c
           /\ NewJob(c, tra, method, q, mode).op = ops + 1
           /\ NewJob(c, tra, method, q, mode).token = NoToken
           /\ NewJob(c, tra, method, q, mode).held = NoToken
<1>1. mode \in {"traced", "unsampled", "disabled"}
  BY DEF Modes
<1>2. Idle \in Jobs /\ Idle.token = NoToken /\ Idle.held = NoToken
  BY DEF Idle, Jobs, NoOp
<1> QED
  <2>1. ASSUME NEW idle \in Jobs, NEW o \in Nat, idle.token = NoToken, idle.held = NoToken,
               NEW m \in {"traced", "unsampled", "disabled"}
        PROVE  Begun([idle EXCEPT !.op = o, !.conn = c, !.tra = tra, !.method = method,
                                  !.query = q, !.mode = m], c, o)
    BY <2>1 DEF Jobs, Begun
  <2>2. ops + 1 \in Nat
    OBVIOUS
  <2>3. Begun([Idle EXCEPT !.op = ops + 1, !.conn = c, !.tra = tra, !.method = method,
                           !.query = q, !.mode = mode], c, ops + 1)
    BY <1>1, <1>2, <2>1, <2>2
  <2>4. Begun(NewJob(c, tra, method, q, mode), c, ops + 1)
    BY <2>3 DEF NewJob
  <2> QED
    BY <2>4 DEF Begun

LEMMA DirectCallKeeps ==
    ASSUME HolderInv, NEW g \in Callers, NEW c \in Connections, NEW tra \in Transactions,
           NEW method \in {"exec", "query"}, NEW q \in Queries, NEW mode \in Modes,
           DirectCall(g, c, tra, method, q, mode)
    PROVE  HolderInv'
<1> DEFINE job == NewJob(c, tra, method, q, mode)
           cn == connection[c]
<1>1. PICK result \in Results(TRUE), markerOk \in BOOLEAN :
         /\ caller[g].pc = "idle"
         /\ ops < MaxOps
         /\ ops' = ops + 1
         /\ Submit(g, job, IF result = "skip" THEN Preserved(ServerScope(cn, mode, markerOk), q)
                           ELSE ServerScope(cn, mode, markerOk), result, markerOk)
  BY DEF DirectCall
<1> DEFINE scope == ServerScope(cn, mode, markerOk)
           s == IF result = "skip" THEN Preserved(scope, q) ELSE scope
<1>2. /\ job \in Jobs /\ job.conn = c /\ job.op = ops + 1
      /\ ops \in Nat /\ MaxOps \in Nat /\ ops + 1 \in 1..MaxOps /\ ops' \in 0..MaxOps
  BY <1>1, HolderFacts, NewJobIs, MaxOpsAssumption
<1>3. result \in {"ok", "failed", "refused", "skip"}
  BY DEF Results
<1>4. caller[g].token = NoToken /\ caller[g].held = NoToken
  BY <1>1, HolderFacts
<1>5. ScopeFor(cn, scope) /\ cn.fallback \in Tokenish(issued)
  BY HolderFacts, ServerScopeIs DEF HolderInv
<1> HIDE DEF job, cn, scope
<1>6. /\ scope.token \in Nat \cup {NoToken}
      /\ scope.connection \in ConnectionStates
  BY <1>5, ScopeHandsOver, Zenon DEF ScopeFor
<1>7. CASE result # "skip" \/ scope.token = NoToken
  <2>1. s = scope
    BY <1>7 DEF Preserved
  <2>2. scope.connection.fallback = NoToken
    BY <1>5 DEF ScopeFor
  <2>3. /\ HandsOver(issued, NoToken, NoToken, cn.fallback, s.token, NoToken, s.connection.fallback)
        /\ \A t \in DOMAIN s.registrations :
              StaysOrLeaves(registrations, s.registrations, issued, t, NoToken, NoToken,
                            cn.fallback, s.token, NoToken, s.connection.fallback)
        /\ s.issued = issued => s.token # issued + 1 /\ s.connection.fallback # issued + 1
    BY <1>5, <2>1, <2>2, ScopeHandsOver
  <2> HIDE DEF s
  <2>4. /\ s.connection \in ConnectionStates
        /\ s.connection.token \in Tokenish(s.issued)
        /\ s.issued \in {issued, issued + 1}
        /\ Small(s.registrations, s.issued)
        /\ s.token \in Nat \cup {NoToken}
        /\ s.token # NoToken => result # "skip"
    BY <1>5, <1>6, <1>7, <2>1 DEF ScopeFor
  <2>5. Submit(g, job, s, result, markerOk)
    BY <1>1 DEF s, job, scope, cn
  <2>6. connection[job.conn].fallback = cn.fallback /\ job.conn \in Connections
    BY <1>2 DEF cn
  <2> QED
    BY <1>2, <1>3, <1>4, <2>3, <2>4, <2>5, <2>6, SubmitKeeps
<1>8. CASE result = "skip" /\ scope.token # NoToken
  <2>1. s = [scope EXCEPT !.connection.fallback = scope.token, !.connection.query = q,
                          !.token = NoToken]
    BY <1>8 DEF Preserved
  <2>2. /\ s.token = NoToken
        /\ s.issued = scope.issued
        /\ s.registrations = scope.registrations
        /\ s.connection = [scope.connection EXCEPT !.fallback = scope.token, !.query = q]
    <3>1. scope = [registrations |-> scope.registrations, issued |-> scope.issued,
                   token |-> scope.token, connection |-> scope.connection]
      BY <1>5 DEF ScopeFor
    <3> QED
      BY <2>1, <3>1
  <2>3. /\ s.connection.fallback = scope.token
        /\ s.connection.token = scope.connection.token
        /\ s.connection \in ConnectionStates
    BY <1>6, <2>2 DEF ConnectionStates
  <2>4. /\ HandsOver(issued, NoToken, NoToken, cn.fallback, s.token, NoToken, s.connection.fallback)
        /\ \A t \in DOMAIN s.registrations :
              StaysOrLeaves(registrations, s.registrations, issued, t, NoToken, NoToken,
                            cn.fallback, s.token, NoToken, s.connection.fallback)
        /\ s.issued = issued => s.token # issued + 1 /\ s.connection.fallback # issued + 1
    BY <1>5, <2>2, <2>3, ScopeHandsOver
  <2> HIDE DEF s
  <2>5. /\ s.connection.token \in Tokenish(s.issued)
        /\ s.issued \in {issued, issued + 1}
        /\ Small(s.registrations, s.issued)
    BY <1>5, <2>2, <2>3 DEF ScopeFor
  <2>6. Submit(g, job, s, result, markerOk)
    BY <1>1 DEF s, job, scope, cn
  <2>7. connection[job.conn].fallback = cn.fallback /\ job.conn \in Connections
    BY <1>2 DEF cn
  <2> QED
    <3>1. /\ HandsOver(issued, caller[g].token, caller[g].held, connection[job.conn].fallback,
                       s.token, NoToken, s.connection.fallback)
          /\ \A t \in DOMAIN s.registrations :
                StaysOrLeaves(registrations, s.registrations, issued, t,
                              caller[g].token, caller[g].held, connection[job.conn].fallback,
                              s.token, NoToken, s.connection.fallback)
      BY <1>4, <2>4, <2>7
    <3>2. s.token \in Nat \cup {NoToken} /\ (s.token # NoToken => result # "skip")
      BY <2>2
    <3>3. job.op \in 1..MaxOps
      BY <1>2
    <3> QED
      BY <1>2, <1>3, <2>3, <2>4, <2>5, <2>6, <2>7, <3>1, <3>2, <3>3, SubmitKeeps
<1> QED
  BY <1>7, <1>8

\* A prepared statement uses the token kept for it, or asks like a direct call.
LEMMA StatementCallKeeps ==
    ASSUME HolderInv, NEW g \in Callers, StatementCall(g)
    PROVE  HolderInv'
<1>1. PICK result \in Results(FALSE), markerOk \in BOOLEAN,
           mode \in {caller[g].mode} \cup (Modes \cap {"disabled"}) :
         LET job == [caller[g] EXCEPT !.mode = mode]
         IN  /\ job.pc = "prepared"
             /\ Submit(g, job, StatementScope(job, connection[job.conn], markerOk), result, markerOk)
             /\ UNCHANGED ops
  BY DEF StatementCall
<1> DEFINE job == [caller[g] EXCEPT !.mode = mode]
           cn == connection[job.conn]
           s == StatementScope(job, cn, markerOk)
<1>2. /\ caller[g] \in Jobs /\ result \in {"ok", "failed", "refused"}
      /\ caller[g].mode \in {"traced", "unsampled", "disabled"}
  BY HolderFacts DEF Results, Jobs
<1>3. /\ job \in Jobs
      /\ job.pc = caller[g].pc /\ job.conn = caller[g].conn /\ job.op = caller[g].op
      /\ job.held = caller[g].held
  BY <1>2 DEF Jobs
<1>4. caller[g].pc = "prepared"
  BY <1>1, <1>3
<1>5. /\ caller[g].token = NoToken
      /\ job.conn \in Connections /\ job.op \in 1..MaxOps
      /\ ops' \in 0..MaxOps
  BY <1>1, <1>3, <1>4, HolderFacts
<1> HIDE DEF job, cn
<1>6. Submit(g, job, s, result, markerOk)
  BY <1>1 DEF job, cn
<1>7. /\ cn = connection[job.conn] /\ cn \in ConnectionStates
      /\ cn.token \in Tokenish(issued) /\ cn.fallback \in Tokenish(issued)
      /\ job.held \in Tokenish(issued)
      /\ issued \in Nat /\ Small(registrations, issued) /\ NoToken \notin Nat
      /\ DOMAIN registrations \subseteq 1..issued
  BY <1>3, <1>5, HolderFacts DEF cn
<1>8. CASE job.held = NoToken
  <2>1. s = ServerScope(cn, job.mode, markerOk)
    BY <1>8 DEF StatementScope
  <2>2. ScopeFor(cn, s)
    BY <1>7, <2>1, ServerScopeIs DEF HolderInv
  <2> HIDE DEF s
  <2>3. s.connection.fallback = NoToken
    BY <2>2 DEF ScopeFor
  <2>4. /\ HandsOver(issued, NoToken, NoToken, cn.fallback, s.token, NoToken, s.connection.fallback)
        /\ \A t \in DOMAIN s.registrations :
              StaysOrLeaves(registrations, s.registrations, issued, t, NoToken, NoToken,
                            cn.fallback, s.token, NoToken, s.connection.fallback)
        /\ s.issued = issued => s.token # issued + 1 /\ s.connection.fallback # issued + 1
        /\ s.token \in Nat \cup {NoToken}
    BY <1>7, <2>2, <2>3, ScopeHandsOver
  <2>5. /\ HandsOver(issued, caller[g].token, caller[g].held, connection[job.conn].fallback,
                     s.token, NoToken, s.connection.fallback)
        /\ \A t \in DOMAIN s.registrations :
              StaysOrLeaves(registrations, s.registrations, issued, t,
                            caller[g].token, caller[g].held, connection[job.conn].fallback,
                            s.token, NoToken, s.connection.fallback)
    BY <1>3, <1>5, <1>7, <1>8, <2>4
  <2>6. result # "skip" /\ result \in {"ok", "failed", "refused", "skip"}
    BY <1>2
  <2> QED
    BY <1>3, <1>5, <1>6, <2>2, <2>4, <2>5, <2>6, SubmitKeeps DEF ScopeFor
<1>9. CASE job.held # NoToken
  <2>1. /\ s.registrations = IF job.mode = "disabled" THEN Without(registrations, {job.held})
                             ELSE registrations
        /\ s.issued = issued
        /\ s.token = IF job.mode = "disabled" THEN NoToken ELSE job.held
        /\ s.connection = cn
    BY <1>9 DEF StatementScope
  <2> HIDE DEF s
  <2>2. /\ s.connection.fallback # issued + 1 /\ s.token # issued + 1
        /\ s.token \in Nat \cup {NoToken} /\ s.token \in {job.held, NoToken}
    BY <1>7, <2>1 DEF Tokenish
  <2>3. HandsOver(issued, caller[g].token, caller[g].held, connection[job.conn].fallback,
                  s.token, NoToken, s.connection.fallback)
    BY <1>3, <1>5, <1>7, <2>1, <2>2 DEF HandsOver
  <2>4. /\ Small(Without(registrations, {job.held}), issued)
        /\ Within(Without(registrations, {job.held}), registrations)
        /\ DOMAIN Without(registrations, {job.held}) = DOMAIN registrations \ {job.held}
    BY <1>7, WithoutWithin
  <2>5. ASSUME NEW t \in DOMAIN s.registrations
        PROVE  StaysOrLeaves(registrations, s.registrations, issued, t,
                             caller[g].token, caller[g].held, connection[job.conn].fallback,
                             s.token, NoToken, s.connection.fallback)
    <3>1. /\ t \in DOMAIN registrations
          /\ s.registrations[t].parent = registrations[t].parent
      BY <2>1, <2>4 DEF Within
    <3>2. t \in {caller[g].token, caller[g].held, connection[job.conn].fallback}
            => t \in {s.token, NoToken, s.connection.fallback}
      BY <1>3, <1>5, <1>7, <2>1, <2>4
    <3> QED
      BY <3>1, <3>2 DEF StaysOrLeaves
  <2>6. result # "skip" /\ result \in {"ok", "failed", "refused", "skip"}
    BY <1>2
  <2>7. Small(s.registrations, s.issued)
    BY <1>7, <2>1, <2>4
  <2>8. /\ s.connection \in ConnectionStates
        /\ s.connection.token \in Tokenish(s.issued)
        /\ s.issued \in {issued, issued + 1}
    BY <1>7, <2>1
  <2> QED
    BY <1>3, <1>5, <1>6, <2>2, <2>3, <2>5, <2>6, <2>7, <2>8, SubmitKeeps
<1> QED
  BY <1>8, <1>9

\* Fewer scopes are as sound, and no scope changes its client span.
LEMMA WithoutKeeps ==
    ASSUME HolderInv, NEW T, registrations' = Without(registrations, T), issued' = issued
    PROVE  /\ RegistrySound'
           /\ \A t \in DOMAIN registrations' :
                 /\ t \in DOMAIN registrations \ T
                 /\ registrations'[t].parent = registrations[t].parent
<1>1. issued \in Nat /\ Small(registrations, issued)
  BY HolderFacts
<1>2. /\ Small(Without(registrations, T), issued)
      /\ Within(Without(registrations, T), registrations)
      /\ DOMAIN Without(registrations, T) = DOMAIN registrations \ T
  BY <1>1, WithoutWithin
<1> QED
  BY <1>1, <1>2 DEF RegistrySound, Small, Bounded, Within

LEMMA IdleIs ==
    /\ Idle \in Jobs /\ Idle.pc = "idle"
    /\ Idle.token = NoToken /\ Idle.held = NoToken
  BY DEF Idle, Jobs, NoOp

\* finish: the scope of the caller's token is bound or gone, all others stay.
LEMMA FinishedIs ==
    ASSUME HolderInv, NEW g \in Callers, caller[g].pc = "calling", NEW recorded \in BOOLEAN,
           registrations' = Finished(caller[g], recorded), issued' = issued
    PROVE  /\ RegistrySound'
           /\ \A t \in DOMAIN registrations' :
                 StaysOrLeaves(registrations, registrations', issued, t, caller[g].token, NoToken,
                               connection[caller[g].conn].fallback, NoToken, NoToken,
                               connection[caller[g].conn].fallback)
<1> DEFINE job == caller[g]
           tk == job.token
           fb == connection[job.conn].fallback
<1>0. /\ issued \in Nat /\ Small(registrations, issued) /\ NoToken \notin Nat
      /\ DOMAIN registrations \subseteq 1..issued
      /\ tk \in Tokenish(issued) /\ job.op \in 1..MaxOps /\ job.conn \in Connections
      /\ tk # NoToken => fb # tk
  <2>1. tk # NoToken => fb # tk
    <3>1. job.conn \in Connections
      BY HolderFacts
    <3>2. /\ <<"token", g>> \in Places /\ <<"fallback", job.conn>> \in Places
          /\ <<"token", g>> # <<"fallback", job.conn>>
      BY <3>1, PlacesAre
    <3>3. /\ At(caller, connection, <<"token", g>>) = tk
          /\ At(caller, connection, <<"fallback", job.conn>>) = fb
      BY DEF At
    <3> QED
      BY <3>2, <3>3 DEF HolderInv, Exclusive
  <2> QED
    BY <2>1, HolderFacts
<1>1. ASSUME registrations' = registrations, tk \notin DOMAIN registrations \/ tk = NoToken
      PROVE  /\ RegistrySound'
             /\ \A t \in DOMAIN registrations' :
                   StaysOrLeaves(registrations, registrations', issued, t, tk, NoToken, fb,
                                 NoToken, NoToken, fb)
  <2>1. RegistrySound'
    BY <1>1 DEF HolderInv, RegistrySound, Bounded
  <2> QED
    BY <1>0, <1>1, <2>1 DEF StaysOrLeaves
<1>2. CASE tk = NoToken
  BY <1>1, <1>2 DEF Finished
<1>3. CASE tk # NoToken /\ job.result = "ok" /\ recorded
  <2>1. registrations' = Bound(registrations, tk, job.op)
    BY <1>3 DEF Finished
  <2>2. CASE tk \notin DOMAIN registrations
    BY <1>1, <2>1, <2>2 DEF Bound
  <2>3. CASE tk \in DOMAIN registrations
    <3> DEFINE sc == [registrations[tk] EXCEPT !.parent = job.op]
    <3>1. job.op \in Spans
      BY <1>0, OpsAreSpans
    <3>2. registrations' = With(registrations, tk, sc)
      BY <2>1, <2>3, <3>1 DEF Bound
    <3>3. registrations[tk] \in Scope
      BY <1>0, <2>3 DEF Small, IsRegistry
    <3>4. sc \in Scope /\ sc.parent = job.op /\ job.op # NoSpan
      BY <3>1, <3>3, NoSpanAssumption DEF Scope
    <3> HIDE DEF sc
    <3>5. /\ IsRegistry(registrations', issued)
          /\ DOMAIN registrations' = DOMAIN registrations
          /\ \A u \in DOMAIN registrations :
                registrations'[u] = IF u = tk THEN sc ELSE registrations[u]
      BY <1>0, <2>3, <3>2, <3>4, WithKnown DEF Small
    <3>6. RegistrySound'
      BY <1>0, <3>5 DEF RegistrySound, Small, Bounded
    <3>7. ASSUME NEW t \in DOMAIN registrations'
          PROVE  StaysOrLeaves(registrations, registrations', issued, t, tk, NoToken, fb,
                               NoToken, NoToken, fb)
      <4>1. t \in DOMAIN registrations /\ t # NoToken
        BY <1>0, <3>5
      <4>2. CASE t = tk
        BY <1>0, <1>3, <3>4, <3>5, <4>1, <4>2 DEF StaysOrLeaves
      <4>3. CASE t # tk
        BY <3>5, <4>1, <4>3 DEF StaysOrLeaves
      <4> QED
        BY <4>2, <4>3
    <3> QED
      BY <3>6, <3>7
  <2> QED
    BY <2>2, <2>3
<1>4. CASE tk # NoToken /\ ~ (job.result = "ok" /\ recorded)
  <2>1. registrations' = Without(registrations, {tk})
    BY <1>4 DEF Finished
  <2>2. /\ RegistrySound'
        /\ \A t \in DOMAIN registrations' :
              /\ t \in DOMAIN registrations \ {tk}
              /\ registrations'[t].parent = registrations[t].parent
    BY <2>1, WithoutKeeps
  <2>3. ASSUME NEW t \in DOMAIN registrations'
        PROVE  StaysOrLeaves(registrations, registrations', issued, t, tk, NoToken, fb,
                             NoToken, NoToken, fb)
    BY <1>0, <2>2 DEF StaysOrLeaves
  <2> QED
    BY <2>2, <2>3
<1> QED
  BY <1>2, <1>3, <1>4

LEMMA ReturnKeeps ==
    ASSUME HolderInv, NEW g \in Callers, Return(g)
    PROVE  HolderInv'
<1> DEFINE job == caller[g]
           c == job.conn
<1>1. PICK recorded \in Recorded(job) :
         LET opens == job.method = "query" /\ job.result = "ok"
         IN  /\ job.pc = "calling"
             /\ registrations' = Finished(job, recorded)
             /\ connection' = IF opens THEN [connection EXCEPT ![c].rows = @ + 1] ELSE connection
             /\ caller' = [caller EXCEPT ![g] =
                  CASE opens               -> [job EXCEPT !.pc = "rows", !.token = NoToken, !.cursor = TRUE]
                    [] job.result = "skip" -> [job EXCEPT !.pc = "skipped", !.result = "ok"]
                    [] OTHER               -> Idle]
             /\ UNCHANGED <<issued, ops>>
  BY DEF Return
<1> DEFINE opens == job.method = "query" /\ job.result = "ok"
           new == CASE opens               -> [job EXCEPT !.pc = "rows", !.token = NoToken, !.cursor = TRUE]
                    [] job.result = "skip" -> [job EXCEPT !.pc = "skipped", !.result = "ok"]
                    [] OTHER               -> Idle
           cn == IF opens THEN [connection[c] EXCEPT !.rows = @ + 1] ELSE connection[c]
<1>2. /\ job \in Jobs /\ job.op \in 1..MaxOps /\ c \in Connections
      /\ job.held = NoToken
      /\ job.token # NoToken => job.result # "skip"
      /\ connection[c] \in ConnectionStates
      /\ connection[c].token \in Tokenish(issued)
      /\ connection[c].fallback \in Tokenish(issued)
      /\ issued \in Nat /\ NoToken \notin Nat /\ ops \in 0..MaxOps
      /\ connection \in [Connections -> ConnectionStates]
  BY <1>1, HolderFacts DEF HolderInv, ClientTyped
<1>3. recorded \in BOOLEAN
  BY <1>2 DEF Recorded, Jobs
<1>4. /\ RegistrySound'
      /\ \A t \in DOMAIN registrations' :
            StaysOrLeaves(registrations, registrations', issued, t, job.token, NoToken,
                          connection[c].fallback, NoToken, NoToken, connection[c].fallback)
  BY <1>1, <1>3, FinishedIs
<1>5. /\ new \in Jobs /\ new.token = NoToken /\ new.held = NoToken
      /\ new.pc # "idle" => new.op = job.op /\ new.conn = c
  <2> DEFINE rows == [job EXCEPT !.pc = "rows", !.token = NoToken, !.cursor = TRUE]
             skipped == [job EXCEPT !.pc = "skipped", !.result = "ok"]
  <2>1. /\ rows \in Jobs /\ rows.token = NoToken /\ rows.held = job.held
        /\ rows.op = job.op /\ rows.conn = c
    BY <1>2 DEF Jobs
  <2>2. /\ skipped \in Jobs /\ skipped.token = job.token /\ skipped.held = job.held
        /\ skipped.op = job.op /\ skipped.conn = c
    BY <1>2 DEF Jobs
  <2>3. \/ new = rows
        \/ job.result = "skip" /\ new = skipped
        \/ new = Idle
    <3> HIDE DEF rows, skipped, opens, job
    <3>1. new = CASE opens -> rows [] job.result = "skip" -> skipped [] OTHER -> Idle
      BY DEF rows, skipped, opens, job
    <3> HIDE DEF new
    <3>2. CASE opens
      BY <3>1, <3>2
    <3>3. CASE ~ opens
      BY <3>1, <3>3
    <3> QED
      BY <3>2, <3>3
  <2> HIDE DEF new, opens, rows, skipped
  <2>4. CASE new = rows
    BY <1>2, <2>1, <2>4
  <2>5. CASE job.result = "skip" /\ new = skipped
    BY <1>2, <2>2, <2>5
  <2>6. CASE new = Idle
    BY <2>6, IdleIs
  <2> QED
    BY <2>3, <2>4, <2>5, <2>6
<1>6. /\ cn \in ConnectionStates /\ cn.fallback = connection[c].fallback
      /\ cn.token = connection[c].token
  BY <1>2 DEF ConnectionStates
<1>7. connection' = [connection EXCEPT ![c] = cn]
  BY <1>1, <1>2
<1>8. caller' = [caller EXCEPT ![g] = new] /\ issued' = issued /\ ops' = ops
  BY <1>1
<1> HIDE DEF new, cn, opens
<1>9. HandsOver(issued, job.token, job.held, connection[c].fallback, new.token, new.held, cn.fallback)
  BY <1>2, <1>5, <1>6 DEF HandsOver
<1>10. \A t \in DOMAIN registrations' :
          StaysOrLeaves(registrations, registrations', issued, t, job.token, job.held,
                        connection[c].fallback, new.token, new.held, cn.fallback)
  <2>1. job.held = NoToken /\ new.token = NoToken /\ new.held = NoToken
        /\ cn.fallback = connection[c].fallback
    BY <1>2, <1>5, <1>6
  <2> HIDE DEF job, c
  <2> QED
    BY <1>4, <2>1, Zenon
<1>11. new.token # issued + 1 /\ cn.fallback # issued + 1
  BY <1>2, <1>5, <1>6 DEF Tokenish
<1>12. /\ new.pc # "idle" => new.op \in 1..MaxOps /\ new.conn \in Connections
       /\ cn.token \in Tokenish(issued')
       /\ issued' \in {issued, issued + 1}
       /\ ops' \in 0..MaxOps
  BY <1>2, <1>5, <1>6, <1>8
<1> QED
  BY <1>2, <1>4, <1>5, <1>6, <1>7, <1>8, <1>9, <1>10, <1>11, <1>12, Passed

\* A step that issues no token and binds nothing: scopes go, and what is left of
\* those g and c held is still with them, the fallback token perhaps with g's
\* statement.
LEMMA FewerKeeps ==
    ASSUME HolderInv, NEW g \in Callers, NEW c \in Connections, NEW job \in Jobs,
           NEW cn \in ConnectionStates,
           caller' = [caller EXCEPT ![g] = job],
           connection' = [connection EXCEPT ![c] = cn],
           ops' \in 0..MaxOps, RegistrySound', issued' = issued,
           cn.token \in Tokenish(issued),
           job.pc # "idle" => job.op \in 1..MaxOps /\ job.conn \in Connections,
           job.token = NoToken, caller[g].token = NoToken,
           job.held # NoToken => job.pc = "prepared",
           \/ job.held = NoToken /\ cn.fallback \in {connection[c].fallback, NoToken}
           \/ job.held = connection[c].fallback /\ cn.fallback = NoToken,
           \A t \in DOMAIN registrations' :
              /\ t \in DOMAIN registrations
              /\ registrations'[t].parent = registrations[t].parent
              /\ t \in {caller[g].held, connection[c].fallback} => t \in {job.held, cn.fallback}
    PROVE  HolderInv'
<1>1. /\ issued \in Nat /\ NoToken \notin Nat
      /\ DOMAIN registrations \subseteq 1..issued
      /\ connection[c].fallback \in Tokenish(issued)
  BY HolderFacts
<1>2. HandsOver(issued, caller[g].token, caller[g].held, connection[c].fallback,
                job.token, job.held, cn.fallback)
  BY DEF HandsOver
<1>3. job.token # issued + 1 /\ cn.fallback # issued + 1
  BY <1>1 DEF Tokenish
<1>4. ASSUME NEW t \in DOMAIN registrations'
      PROVE  StaysOrLeaves(registrations, registrations', issued, t,
                           caller[g].token, caller[g].held, connection[c].fallback,
                           job.token, job.held, cn.fallback)
  <2>1. t # NoToken
    BY <1>1
  <2> QED
    BY <2>1 DEF StaysOrLeaves
<1>5. /\ issued' \in {issued, issued + 1}
      /\ cn.token \in Tokenish(issued')
      /\ job.token # NoToken => job.pc = "calling" /\ job.result # "skip"
  OBVIOUS
<1> QED
  BY <1>2, <1>3, <1>4, <1>5, Passed

\* What takeFallbackToken takes and leaves behind.
LEMMA TakenIs ==
    ASSUME NEW cn \in ConnectionStates, NEW q
    PROVE  /\ Emptied(cn) \in ConnectionStates
           /\ Emptied(cn).fallback = NoToken
           /\ Emptied(cn).token = cn.token
           /\ Take(cn, q) \in {cn.fallback, NoToken}
  BY DEF Emptied, Take, ConnectionStates

LEMMA PrepareKeeps ==
    ASSUME HolderInv, NEW g \in Callers, Prepare(g)
    PROVE  HolderInv'
<1> DEFINE job == caller[g]
           c == job.conn
           cn == connection[c]
           taken == Take(cn, job.query)
           new == [job EXCEPT !.pc = "prepared", !.held = taken]
<1>1. /\ job.pc = "skipped"
      /\ registrations' = Without(registrations, {cn.fallback} \ {taken})
      /\ connection' = [connection EXCEPT ![c] = Emptied(cn)]
      /\ caller' = [caller EXCEPT ![g].pc = "prepared", ![g].held = taken]
      /\ issued' = issued /\ ops' = ops
  BY DEF Prepare
<1>2. /\ job \in Jobs /\ job.op \in 1..MaxOps /\ c \in Connections
      /\ job.token = NoToken /\ job.held = NoToken
      /\ cn \in ConnectionStates
      /\ cn.token \in Tokenish(issued) /\ cn.fallback \in Tokenish(issued)
      /\ issued \in Nat /\ NoToken \notin Nat /\ ops \in 0..MaxOps
      /\ DOMAIN registrations \subseteq 1..issued
  BY <1>1, HolderFacts
<1>3. /\ Emptied(cn) \in ConnectionStates
      /\ Emptied(cn).fallback = NoToken
      /\ Emptied(cn).token = cn.token
      /\ taken \in {cn.fallback, NoToken}
  BY <1>2, TakenIs
<1>4. caller' = [caller EXCEPT ![g] = new]
  BY <1>1
<1>5. /\ RegistrySound'
      /\ \A t \in DOMAIN registrations' :
            /\ t \in DOMAIN registrations \ ({cn.fallback} \ {taken})
            /\ registrations'[t].parent = registrations[t].parent
  <2> HIDE DEF taken, cn
  <2> QED
    BY <1>1, WithoutKeeps
<1> HIDE DEF taken, cn
<1>6. /\ new \in Jobs /\ new.pc = "prepared" /\ new.held = taken
      /\ new.token = NoToken /\ new.op = job.op /\ new.conn = c
  <2>1. taken \in Nat \cup {NoToken}
    BY <1>2, <1>3 DEF Tokenish
  <2> QED
    BY <1>2, <2>1 DEF Jobs
<1> HIDE DEF new
<1>7. \/ new.held = NoToken /\ Emptied(cn).fallback \in {cn.fallback, NoToken}
      \/ new.held = cn.fallback /\ Emptied(cn).fallback = NoToken
  BY <1>3, <1>6
<1>8. \A t \in DOMAIN registrations' :
          /\ t \in DOMAIN registrations
          /\ registrations'[t].parent = registrations[t].parent
          /\ t \in {job.held, cn.fallback} => t \in {new.held, Emptied(cn).fallback}
  BY <1>2, <1>3, <1>5, <1>6
<1>9. /\ Emptied(cn).token \in Tokenish(issued)
      /\ new.pc # "idle" => new.op \in 1..MaxOps /\ new.conn \in Connections
      /\ ops' \in 0..MaxOps
  BY <1>1, <1>2, <1>3, <1>6
<1> QED
  BY ZenonT(40), <1>1, <1>2, <1>3, <1>4, <1>5, <1>6, <1>7, <1>8, <1>9, FewerKeeps DEF cn

LEMMA PrepareFirstKeeps ==
    ASSUME HolderInv, NEW g \in Callers, NEW c \in Connections, NEW tra \in Transactions,
           NEW method \in {"exec", "query"}, NEW q \in Queries, NEW mode \in Modes,
           PrepareFirst(g, c, tra, method, q, mode)
    PROVE  HolderInv'
<1> DEFINE cn == connection[c]
           taken == Take(cn, q)
           job == NewJob(c, tra, method, q, mode)
           new == [job EXCEPT !.pc = "prepared", !.held = taken]
<1>1. /\ caller[g].pc = "idle"
      /\ ops < MaxOps
      /\ registrations' = Without(registrations, {cn.fallback} \ {taken})
      /\ connection' = [connection EXCEPT ![c] = Emptied(cn)]
      /\ caller' = [caller EXCEPT ![g] = new]
      /\ ops' = ops + 1
      /\ issued' = issued
  BY DEF PrepareFirst
<1>2. /\ caller[g].token = NoToken /\ caller[g].held = NoToken
      /\ cn \in ConnectionStates
      /\ cn.token \in Tokenish(issued) /\ cn.fallback \in Tokenish(issued)
      /\ issued \in Nat /\ NoToken \notin Nat /\ ops \in 0..MaxOps
      /\ DOMAIN registrations \subseteq 1..issued
  BY <1>1, HolderFacts
<1>3. /\ Emptied(cn) \in ConnectionStates
      /\ Emptied(cn).fallback = NoToken
      /\ Emptied(cn).token = cn.token
      /\ taken \in {cn.fallback, NoToken}
  BY <1>2, TakenIs
<1>4. /\ job \in Jobs /\ job.conn = c /\ job.op = ops + 1 /\ job.token = NoToken
      /\ ops + 1 \in 1..MaxOps /\ ops' \in 0..MaxOps
  BY <1>1, <1>2, NewJobIs, MaxOpsAssumption
<1>5. /\ RegistrySound'
      /\ \A t \in DOMAIN registrations' :
            /\ t \in DOMAIN registrations \ ({cn.fallback} \ {taken})
            /\ registrations'[t].parent = registrations[t].parent
  <2> HIDE DEF taken, cn
  <2> QED
    BY <1>1, WithoutKeeps
<1> HIDE DEF taken, cn, job
<1>6. /\ new \in Jobs /\ new.pc = "prepared" /\ new.held = taken
      /\ new.token = NoToken /\ new.op = ops + 1 /\ new.conn = c
  <2>1. taken \in Nat \cup {NoToken}
    BY <1>2, <1>3 DEF Tokenish
  <2> QED
    BY <1>4, <2>1 DEF Jobs
<1> HIDE DEF new
<1>7. \/ new.held = NoToken /\ Emptied(cn).fallback \in {cn.fallback, NoToken}
      \/ new.held = cn.fallback /\ Emptied(cn).fallback = NoToken
  BY <1>3, <1>6
<1>8. \A t \in DOMAIN registrations' :
          /\ t \in DOMAIN registrations
          /\ registrations'[t].parent = registrations[t].parent
          /\ t \in {caller[g].held, cn.fallback} => t \in {new.held, Emptied(cn).fallback}
  BY <1>2, <1>3, <1>5, <1>6
<1>9. /\ Emptied(cn).token \in Tokenish(issued)
      /\ new.pc # "idle" => new.op \in 1..MaxOps /\ new.conn \in Connections
  BY <1>2, <1>3, <1>4, <1>6
<1> QED
  BY <1>1, <1>2, <1>3, <1>4, <1>5, <1>6, <1>7, <1>8, <1>9, FewerKeeps DEF cn

LEMMA PrepareFailsKeeps ==
    ASSUME HolderInv, NEW g \in Callers, PrepareFails(g)
    PROVE  HolderInv'
<1> DEFINE c == caller[g].conn
           cn == connection[c]
<1>1. /\ caller[g].pc = "skipped"
      /\ registrations' = Without(registrations, {cn.fallback})
      /\ connection' = [connection EXCEPT ![c] = Emptied(cn)]
      /\ caller' = [caller EXCEPT ![g] = Idle]
      /\ issued' = issued /\ ops' = ops
  BY DEF PrepareFails
<1>2. /\ c \in Connections
      /\ caller[g].token = NoToken /\ caller[g].held = NoToken
      /\ cn \in ConnectionStates
      /\ cn.token \in Tokenish(issued)
      /\ issued \in Nat /\ NoToken \notin Nat /\ ops \in 0..MaxOps
      /\ DOMAIN registrations \subseteq 1..issued
  BY <1>1, HolderFacts
<1>3. /\ Emptied(cn) \in ConnectionStates
      /\ Emptied(cn).fallback = NoToken
      /\ Emptied(cn).token = cn.token
  BY <1>2, TakenIs
<1>4. /\ RegistrySound'
      /\ \A t \in DOMAIN registrations' :
            /\ t \in DOMAIN registrations \ {cn.fallback}
            /\ registrations'[t].parent = registrations[t].parent
  BY <1>1, WithoutKeeps
<1>5. \A t \in DOMAIN registrations' :
          /\ t \in DOMAIN registrations
          /\ registrations'[t].parent = registrations[t].parent
          /\ t \in {caller[g].held, cn.fallback} => t \in {Idle.held, Emptied(cn).fallback}
  BY <1>2, <1>4
<1>6. ops' \in 0..MaxOps /\ Emptied(cn).token \in Tokenish(issued)
  BY <1>1, <1>2, <1>3
<1>7. /\ Idle \in Jobs /\ Idle.pc = "idle" /\ Idle.token = NoToken /\ Idle.held = NoToken
      /\ Emptied(cn).fallback \in {cn.fallback, NoToken}
  BY <1>3, IdleIs
<1> QED
  BY <1>1, <1>2, <1>3, <1>4, <1>5, <1>6, <1>7, FewerKeeps

\* The caller gives up, or closes its statement or its rows.
LEMMA LeavesKeeps ==
    ASSUME HolderInv, NEW g \in Callers,
           caller[g].pc \in {"skipped", "prepared", "rows"},
           caller' = [caller EXCEPT ![g] = Idle],
           \E n \in {connection[caller[g].conn].rows, connection[caller[g].conn].rows - 1} :
              connection' = [connection EXCEPT ![caller[g].conn].rows = n],
           \/ registrations' = registrations /\ caller[g].pc # "prepared"
           \/ registrations' = Without(registrations, {caller[g].held}),
           issued' = issued, ops' = ops
    PROVE  HolderInv'
<1> DEFINE c == caller[g].conn
<1>1. /\ c \in Connections /\ connection[c] \in ConnectionStates
      /\ caller[g].token = NoToken
      /\ caller[g].held # NoToken => caller[g].pc = "prepared"
      /\ connection[c].token \in Tokenish(issued)
      /\ issued \in Nat /\ NoToken \notin Nat /\ ops \in 0..MaxOps
      /\ DOMAIN registrations \subseteq 1..issued
  BY HolderFacts
<1>2. PICK n \in {connection[c].rows, connection[c].rows - 1} :
         connection' = [connection EXCEPT ![c].rows = n]
  OBVIOUS
<1> DEFINE cn == [connection[c] EXCEPT !.rows = n]
<1>3. /\ cn \in ConnectionStates
      /\ cn.token = connection[c].token /\ cn.fallback = connection[c].fallback
  <2>1. n \in Int
    BY <1>1, <1>2 DEF ConnectionStates
  <2> QED
    BY <1>1, <2>1 DEF ConnectionStates
<1>4. connection' = [connection EXCEPT ![c] = cn]
  BY <1>2
<1> HIDE DEF cn
<1>5. /\ RegistrySound'
      /\ \A t \in DOMAIN registrations' :
            /\ t \in DOMAIN registrations
            /\ registrations'[t].parent = registrations[t].parent
            /\ t # caller[g].held
  <2>1. CASE registrations' = registrations /\ caller[g].pc # "prepared"
    <3>1. RegistrySound'
      BY <2>1 DEF HolderInv, RegistrySound, Bounded
    <3>2. caller[g].held = NoToken
      BY <1>1, <2>1
    <3> QED
      BY <1>1, <2>1, <3>1, <3>2
  <2>2. CASE registrations' = Without(registrations, {caller[g].held})
    BY <2>2, WithoutKeeps
  <2> QED
    BY <2>1, <2>2
<1>6. \A t \in DOMAIN registrations' :
          /\ t \in DOMAIN registrations
          /\ registrations'[t].parent = registrations[t].parent
          /\ t \in {caller[g].held, connection[c].fallback} => t \in {Idle.held, cn.fallback}
  BY <1>3, <1>5
<1>7. /\ Idle \in Jobs /\ Idle.pc = "idle" /\ Idle.token = NoToken /\ Idle.held = NoToken
      /\ cn.fallback \in {connection[c].fallback, NoToken}
      /\ ops' \in 0..MaxOps /\ cn.token \in Tokenish(issued)
  BY <1>1, <1>3, IdleIs
<1> QED
  BY <1>1, <1>3, <1>4, <1>5, <1>6, <1>7, FewerKeeps

LEMMA ClientLeavesKeeps ==
    ASSUME HolderInv, NEW g \in Callers, GiveUpSkipped(g) \/ CloseStatement(g) \/ CloseRows(g)
    PROVE  HolderInv'
<1> DEFINE c == caller[g].conn
<1>1. /\ caller[g].pc \in {"skipped", "prepared", "rows"}
      /\ caller' = [caller EXCEPT ![g] = Idle]
      /\ issued' = issued /\ ops' = ops
      /\ connection' = connection \/ connection' = [connection EXCEPT ![c] = Released(@)]
      /\ \/ registrations' = registrations /\ caller[g].pc # "prepared"
         \/ registrations' = Without(registrations, {caller[g].held})
  <2>1. CASE GiveUpSkipped(g)
    BY <2>1 DEF GiveUpSkipped, regVars
  <2>2. CASE CloseStatement(g)
    BY <2>2 DEF CloseStatement
  <2>3. CASE CloseRows(g)
    BY <2>3 DEF CloseRows, regVars
  <2> QED
    BY <2>1, <2>2, <2>3
<1>2. c \in Connections /\ connection[c] \in ConnectionStates /\ connection \in [Connections -> ConnectionStates]
  BY <1>1, HolderFacts DEF HolderInv, ClientTyped
<1>3. connection = [connection EXCEPT ![c].rows = connection[c].rows]
  <2>1. [connection[c] EXCEPT !.rows = connection[c].rows] = connection[c]
    BY <1>2 DEF ConnectionStates
  <2> QED
    BY <1>2, <2>1
<1>4. [connection EXCEPT ![c] = Released(@)] = [connection EXCEPT ![c].rows = connection[c].rows - 1]
  BY DEF Released
<1> QED
  BY <1>1, <1>3, <1>4, LeavesKeeps

LEMMA CursorEndsKeeps ==
    ASSUME HolderInv, NEW g \in Callers, CursorEnds(g)
    PROVE  HolderInv'
<1> DEFINE c == caller[g].conn
           new == [caller[g] EXCEPT !.cursor = FALSE]
<1>1. /\ caller[g].pc = "rows"
      /\ caller' = [caller EXCEPT ![g] = new]
      /\ connection' = connection
      /\ registrations' = registrations /\ issued' = issued /\ ops' = ops
  BY DEF CursorEnds, regVars
<1>2. /\ caller[g] \in Jobs /\ caller[g].op \in 1..MaxOps /\ c \in Connections
      /\ caller[g].token = NoToken /\ caller[g].held = NoToken
      /\ connection[c] \in ConnectionStates
      /\ connection[c].token \in Tokenish(issued)
      /\ ops \in 0..MaxOps
      /\ connection \in [Connections -> ConnectionStates]
      /\ DOMAIN registrations \subseteq 1..issued
      /\ issued \in Nat /\ NoToken \notin Nat
  BY <1>1, HolderFacts DEF HolderInv, ClientTyped
<1>3. /\ new \in Jobs /\ new.pc = "rows" /\ new.op = caller[g].op /\ new.conn = c
      /\ new.token = NoToken /\ new.held = NoToken
  BY <1>1, <1>2 DEF Jobs
<1> HIDE DEF new
<1>4. connection' = [connection EXCEPT ![c] = connection[c]]
  BY <1>1, <1>2
<1>5. RegistrySound'
  BY <1>1 DEF HolderInv, RegistrySound, Bounded
<1>6. \A t \in DOMAIN registrations' :
          /\ t \in DOMAIN registrations
          /\ registrations'[t].parent = registrations[t].parent
          /\ t \in {caller[g].held, connection[c].fallback} => t \in {new.held, connection[c].fallback}
  BY <1>1, <1>2
<1>7. /\ new.pc # "idle" => new.op \in 1..MaxOps /\ new.conn \in Connections
      /\ ops' \in 0..MaxOps
  BY <1>1, <1>2, <1>3
<1> QED
  BY <1>1, <1>2, <1>3, <1>4, <1>5, <1>6, <1>7, FewerKeeps

\* Only the registry changes, by losing scopes, or nothing at all.
LEMMA RegistryShrinks ==
    ASSUME HolderInv, UNCHANGED <<caller, connection, ops, issued>>,
           Small(registrations', issued), Within(registrations', registrations)
    PROVE  HolderInv'
<1>1. RegistrySound'
  BY DEF HolderInv, RegistrySound, Small, Bounded
<1>2. Decided(registrations', caller, connection)
  BY DEF HolderInv, Decided, Within
<1>3. /\ ClientTyped' /\ CallersHold' /\ Exclusive(caller', connection')
      /\ Decided(registrations', caller', connection')
  BY <1>2 DEF HolderInv, ClientTyped, CallersHold
<1> QED
  BY <1>1, <1>3 DEF HolderInv

LEMMA CloseConnectionKeeps ==
    ASSUME HolderInv, NEW c \in Connections, CloseConnection(c)
    PROVE  HolderInv'
<1> DEFINE fb == connection[c].fallback
           F == <<"fallback", c>>
           a(p) == At(caller, connection, p)
           b(p) == At(caller', connection', p)
<1>1. /\ registrations' = Without(registrations, {fb})
      /\ connection' = [connection EXCEPT ![c] = NewConnection]
      /\ caller' = caller /\ issued' = issued /\ ops' = ops
  BY DEF CloseConnection
<1>2. /\ issued \in Nat /\ NoToken \notin Nat
      /\ DOMAIN registrations \subseteq 1..issued
      /\ connection \in [Connections -> ConnectionStates]
      /\ \A p \in Places : a(p) \in Tokenish(issued)
      /\ Exclusive(caller, connection) /\ Decided(registrations, caller, connection)
      /\ \A d \in Connections : connection[d].token \in Tokenish(issued)
  BY HolderFacts DEF HolderInv, ClientTyped
<1>3. /\ NewConnection \in ConnectionStates
      /\ NewConnection.fallback = NoToken /\ NewConnection.token = NoToken
  BY DEF NewConnection, ConnectionStates
<1>4. /\ connection' \in [Connections -> ConnectionStates]
      /\ \A d \in Connections : connection'[d] = IF d = c THEN NewConnection ELSE connection[d]
  BY <1>1, <1>2, <1>3
<1>5. F \in Places /\ a(F) = fb /\ b(F) = NoToken
  <2>1. F \in Places
    BY PlacesAre
  <2>2. a(F) = fb /\ b(F) = connection'[c].fallback
    BY DEF At
  <2> QED
    BY <1>3, <1>4, <2>1, <2>2
<1>6. ASSUME NEW p \in Places, p # F
      PROVE  b(p) = a(p)
  <2>1. ASSUME NEW h \in Callers, p = <<"token", h>> \/ p = <<"held", h>>
        PROVE  b(p) = a(p)
    BY <1>1, <2>1 DEF At
  <2>2. ASSUME NEW d \in Connections, p = <<"fallback", d>>
        PROVE  b(p) = a(p)
    <3>1. d # c
      BY <1>6, <2>2
    <3>2. a(p) = connection[d].fallback /\ b(p) = connection'[d].fallback
      BY <2>2 DEF At
    <3> QED
      BY <1>4, <3>1, <3>2
  <2> QED
    BY <2>1, <2>2, PlacesAre
<1>7. /\ RegistrySound'
      /\ \A t \in DOMAIN registrations' :
            /\ t \in DOMAIN registrations \ {fb}
            /\ registrations'[t].parent = registrations[t].parent
  BY <1>1, WithoutKeeps
<1> HIDE DEF F, a, b
<1>8. ASSUME NEW t \in DOMAIN registrations', Kept(caller, connection, t)
      PROVE  Kept(caller', connection', t)
  <2>1. PICK p \in Places : a(p) = t
    BY <1>8 DEF Kept, a
  <2>2. p # F
    BY <1>5, <1>7, <1>8, <2>1
  <2> QED
    BY <1>6, <2>1, <2>2 DEF Kept, b
<1>9. HandedOver(issued, caller, connection, caller', connection', registrations, registrations', F)
  <2>1. \A p \in Places \ {F} : At(caller', connection', p) \in {At(caller, connection, p), NoToken}
    BY <1>6 DEF a, b
  <2>2. At(caller', connection', F) \in {At(caller, connection, F), NoToken, issued + 1}
    BY <1>5 DEF b
  <2>3. \A t \in DOMAIN registrations' :
           /\ t \in DOMAIN registrations
           /\ registrations'[t].parent = registrations[t].parent
           /\ Kept(caller, connection, t) => Kept(caller', connection', t)
    BY <1>7, <1>8
  <2> QED
    BY <2>1, <2>2, <2>3, Zenon DEF HandedOver
<1>10. \A p \in Places : At(caller, connection, p) \in Tokenish(issued)
  BY <1>2 DEF a
<1>11. Exclusive(caller', connection') /\ Decided(registrations', caller', connection')
  BY <1>2, <1>5, <1>9, <1>10, Handover
<1>12. \A p \in Places : At(caller', connection', p) \in Tokenish(issued')
  BY <1>1, <1>2, <1>5, <1>6 DEF a, b, Tokenish
<1>13. \A d \in Connections : connection'[d].token \in Tokenish(issued')
  BY <1>1, <1>2, <1>3, <1>4 DEF Tokenish
<1>14. ClientTyped' /\ CallersHold'
  BY <1>1, <1>4, <1>12, <1>13 DEF HolderInv, ClientTyped, CallersHold
<1> QED
  BY <1>7, <1>11, <1>14 DEF HolderInv

-----------------------------------------------------------------------------
(* The steps of everybody else. *)

LEMMA LookedUpWithin ==
    ASSUME NEW n \in Nat, NEW r, Small(r, n), NEW T
    PROVE  Small(LookedUp(r, T), n) /\ Within(LookedUp(r, T), r)
  BY WithoutWithin DEF LookedUp

LEMMA FlushShrinks ==
    ASSUME HolderInv, NEW ts, NEW fs, NEW looked, FlushOf(ts, fs, looked)
    PROVE  Small(registrations', issued) /\ Within(registrations', registrations)
<1>1. issued \in Nat /\ Small(registrations, issued)
  BY HolderFacts
<1>2. PICK T : registrations' = LookedUp(Without(registrations, T), looked)
  BY DEF FlushOf
<1>3. /\ Small(Without(registrations, T), issued)
      /\ Within(Without(registrations, T), registrations)
  BY <1>1, WithoutWithin
<1>4. /\ Small(registrations', issued)
      /\ Within(registrations', Without(registrations, T))
  BY <1>1, <1>2, <1>3, LookedUpWithin
<1> QED
  BY <1>3, <1>4 DEF Within

\* The consumer never adds a scope, and never changes the client span of one.
LEMMA ConsumerShrinks ==
    ASSUME HolderInv, EventReceived \/ Flush \/ Tick \/ ConsumerEnds
    PROVE  Small(registrations', issued) /\ Within(registrations', registrations) /\ issued' = issued
<1>1. issued \in Nat /\ Small(registrations, issued) /\ MaxPending \in Nat
  BY HolderFacts, MaxPendingAssumption
<1>2. Within(registrations, registrations)
  BY DEF Within
<1>3. \A T : /\ Small(Without(registrations, T), issued)
             /\ Within(Without(registrations, T), registrations)
             /\ Small(LookedUp(registrations, T), issued)
             /\ Within(LookedUp(registrations, T), registrations)
  BY <1>1, WithoutWithin, LookedUpWithin
<1>4. CASE Flush
  BY <1>4, FlushShrinks DEF Flush, regFlags
<1>5. CASE Tick
  BY <1>5, FlushShrinks DEF Tick, regFlags
<1>6. CASE ConsumerEnds
  <2>1. registrations' = <<>> /\ issued' = issued
    BY <1>6 DEF ConsumerEnds
  <2>2. DOMAIN <<>> = {} /\ Cardinality({}) = 0
    BY FS_EmptySet
  <2> QED
    BY <1>1, <2>1, <2>2 DEF Small, IsRegistry, Within
<1>7. CASE EventReceived
  <2> DEFINE m == Head(stream)
  <2>1. CASE GapReceived(m)
    BY <1>3, <2>1 DEF GapReceived, Receive, regFlags, Invalidate, Drop
  <2>2. CASE MarkerStarted(m) \/ StartJoinsTree(m) \/ FinishOutsideTrees(m) \/ FinishInTree(m)
    <3>1. registrations' = registrations /\ issued' = issued
      BY <2>2 DEF MarkerStarted, StartJoinsTree, FinishOutsideTrees, FinishInTree, Started, Ended,
                  Receive, regFlags
    <3> QED
      BY <1>1, <1>2, <3>1
  <2>3. CASE MarkerUnmatched(m) \/ Unidentified(m)
    <3>1. PICK more : InvalidateAttachment(m.attachment, more)
      BY <2>3 DEF MarkerUnmatched, Unidentified
    <3>2. issued' = issued
      BY <2>3 DEF MarkerUnmatched, Unidentified, Receive, regFlags
    <3>3. \E T : registrations' = Without(registrations, T)
      BY <3>1 DEF InvalidateAttachment, Drop
    <3> QED
      BY <1>3, <3>2, <3>3
  <2>4. CASE MarkerFinished(m)
    BY <1>3, <2>4 DEF MarkerFinished, Receive, regFlags
  <2>5. CASE StartOutsideTrees(m)
    <3>1. registrations' = LookedUpByClaim(m) /\ issued' = issued
      BY <2>5 DEF StartOutsideTrees, Started, Receive, regFlags
    <3> QED
      BY <1>1, <1>2, <1>3, <3>1 DEF LookedUpByClaim
  <2>6. CASE StartDropsTree(m)
    BY <1>3, <2>6 DEF StartDropsTree, Started, Receive, regFlags, Drop
  <2>7. CASE FinishRoot(m)
    BY <2>7, FlushShrinks DEF FinishRoot, Ended, Receive, regFlags
  <2> QED
    BY <1>7, <2>1, <2>2, <2>3, <2>4, <2>5, <2>6, <2>7 DEF EventReceived
<1> QED
  BY <1>4, <1>5, <1>6, <1>7

LEMMA ElapseKeeps ==
    ASSUME HolderInv, NEW t \in DOMAIN registrations, ScopeElapses(t)
    PROVE  HolderInv'
<1> DEFINE sc == [registrations[t] EXCEPT !.expired = TRUE]
<1>1. /\ registrations' = [registrations EXCEPT ![t] = sc]
      /\ UNCHANGED <<caller, connection, ops, issued>>
  BY DEF ScopeElapses, Elapse, clientVars
<1>2. issued \in Nat /\ Small(registrations, issued)
  BY HolderFacts
<1>3. sc \in Scope /\ sc.parent = registrations[t].parent
  BY <1>2 DEF Small, IsRegistry, Scope
<1> HIDE DEF sc
<1>4. Small(registrations', issued) /\ Within(registrations', registrations)
  BY <1>1, <1>2, <1>3 DEF Small, IsRegistry, Within
<1> QED
  BY <1>1, <1>4, RegistryShrinks

-----------------------------------------------------------------------------
(* The theorem. *)

LEMMA HolderInit == Init => HolderInv
<1> SUFFICES ASSUME Init PROVE HolderInv
  OBVIOUS
<1>1. /\ registrations = <<>> /\ issued = 0 /\ ops = 0
      /\ connection = [c \in Connections |-> NewConnection]
      /\ caller = [g \in Callers |-> Idle]
  BY DEF Init, ClientInit
<1>2. DOMAIN registrations = {} /\ Cardinality({}) = 0
  BY <1>1, FS_EmptySet
<1>3. /\ NewConnection \in ConnectionStates
      /\ NewConnection.fallback = NoToken /\ NewConnection.token = NoToken
  BY DEF NewConnection, ConnectionStates
<1>4. \A p \in Places : At(caller, connection, p) = NoToken
  <2>1. ASSUME NEW g \in Callers, NEW p \in {<<"token", g>>, <<"held", g>>}
        PROVE  At(caller, connection, p) = NoToken
    <3>1. caller[g] = Idle
      BY <1>1
    <3> QED
      BY <3>1, <2>1, IdleIs DEF At
  <2>2. ASSUME NEW c \in Connections
        PROVE  At(caller, connection, <<"fallback", c>>) = NoToken
    <3>1. connection[c] = NewConnection
      BY <1>1
    <3> QED
      BY <3>1, <1>3 DEF At
  <2>3. ASSUME NEW p \in Places
        PROVE  At(caller, connection, p) = NoToken
    <3>1. CASE \E g \in Callers : p \in {<<"token", g>>, <<"held", g>>}
      BY <2>1, <3>1
    <3>2. CASE \E c \in Connections : p = <<"fallback", c>>
      BY <2>2, <3>2
    <3> QED
      BY <3>1, <3>2, PlacesAre
  <2> QED
    BY <2>3
<1>5. RegistrySound
  BY <1>1, <1>2, MaxPendingAssumption DEF RegistrySound, IsRegistry, Bounded
<1>6. ClientTyped
  BY <1>1, <1>3, <1>4, IdleIs, MaxOpsAssumption DEF ClientTyped, Tokenish
<1>7. CallersHold
  BY <1>1, IdleIs DEF CallersHold
<1>8. Exclusive(caller, connection) /\ Decided(registrations, caller, connection)
  BY <1>2, <1>4 DEF Exclusive, Decided
<1> QED
  BY <1>5, <1>6, <1>7, <1>8 DEF HolderInv

LEMMA ClientKeeps ==
    ASSUME HolderInv, ClientNext
    PROVE  HolderInv'
<1>1. ASSUME NEW g \in Callers, ClientStep(g)
      PROVE  HolderInv'
  <2>1. CASE \E c \in Connections, tra \in Transactions, method \in {"exec", "query"},
                q \in Queries, mode \in Modes :
                \/ DirectCall(g, c, tra, method, q, mode)
                \/ PrepareFirst(g, c, tra, method, q, mode)
    BY <2>1, DirectCallKeeps, PrepareFirstKeeps
  <2>2. CASE StatementCall(g)
    BY <2>2, StatementCallKeeps
  <2>3. CASE Return(g)
    BY <2>3, ReturnKeeps
  <2>4. CASE Prepare(g)
    BY <2>4, PrepareKeeps
  <2>5. CASE PrepareFails(g)
    BY <2>5, PrepareFailsKeeps
  <2>6. CASE GiveUpSkipped(g) \/ CloseStatement(g) \/ CloseRows(g)
    BY <2>6, ClientLeavesKeeps
  <2>7. CASE CursorEnds(g)
    BY <2>7, CursorEndsKeeps
  <2> QED
    BY <1>1, <2>1, <2>2, <2>3, <2>4, <2>5, <2>6, <2>7 DEF ClientStep
<1>2. ASSUME NEW c \in Connections, CloseConnection(c)
      PROVE  HolderInv'
  BY <1>2, CloseConnectionKeeps
<1> QED
  BY <1>1, <1>2 DEF ClientNext

LEMMA HolderStep == HolderInv /\ [Next]_vars => HolderInv'
<1> SUFFICES ASSUME HolderInv, [Next]_vars PROVE HolderInv'
  OBVIOUS
<1>0. Small(registrations, issued) /\ Within(registrations, registrations)
  BY HolderFacts DEF Within
<1>1. CASE ClientNext
  BY <1>1, ClientKeeps
<1>2. CASE ConsumerNext
  <2>1. UNCHANGED <<caller, connection, ops>>
    BY <1>2 DEF ConsumerNext, clientVars
  <2> QED
    BY <1>2, <2>1, ConsumerShrinks, RegistryShrinks DEF ConsumerNext
<1>3. CASE StrayRecord \/ StreamEnds \/ ChannelOverflows \/ ShutdownBegins \/ UNCHANGED vars
  <2>1. UNCHANGED <<caller, connection, ops, issued, registrations>>
    BY <1>3 DEF StrayRecord, StreamEnds, ChannelOverflows, ShutdownBegins, BeginShutdown,
                vars, regVars, clientVars
  <2> QED
    BY <1>0, <2>1, RegistryShrinks
<1>4. ASSUME NEW t \in DOMAIN registrations, ScopeElapses(t)
      PROVE  HolderInv'
  BY <1>4, ElapseKeeps
<1> QED
  BY <1>1, <1>2, <1>3, <1>4 DEF Next

\* The places a registered scope's token is in, counted.
LEMMA HoldersCounted == HolderInv => OneHolder
<1> SUFFICES ASSUME HolderInv, NEW t \in DOMAIN registrations
             PROVE  Cardinality({g \in Callers : caller[g].token = t})
                    + Cardinality({g \in Callers : caller[g].held = t})
                    + Cardinality({c \in Connections : connection[c].fallback = t})
                    = IF registrations[t].parent = NoSpan THEN 1 ELSE 0
  BY DEF OneHolder
<1> DEFINE A == {g \in Callers : caller[g].token = t}
           B == {g \in Callers : caller[g].held = t}
           C == {c \in Connections : connection[c].fallback = t}
           T(g) == <<"token", g>>
           H(g) == <<"held", g>>
           F(c) == <<"fallback", c>>
           at(p) == At(caller, connection, p)
<1>1. t # NoToken
  BY HolderFacts
<1>2. /\ \A g : at(T(g)) = caller[g].token /\ at(H(g)) = caller[g].held
      /\ \A c : at(F(c)) = connection[c].fallback
  BY DEF At
<1>3. /\ \A g \in Callers : T(g) \in Places /\ H(g) \in Places
      /\ \A c \in Connections : F(c) \in Places
      /\ \A p \in Places : \/ \E g \in Callers : p = T(g) \/ p = H(g)
                           \/ \E c \in Connections : p = F(c)
      /\ \A x, y : /\ T(x) # H(y) /\ T(x) # F(y) /\ H(x) # F(y)
                   /\ T(x) = T(y) => x = y
                   /\ H(x) = H(y) => x = y
                   /\ F(x) = F(y) => x = y
  BY PlacesAre
<1> HIDE DEF T, H, F, at
<1>4. \A p, q \in Places : at(p) = t /\ at(q) = t => p = q
  BY <1>1 DEF HolderInv, Exclusive, at
<1>5. registrations[t].parent = NoSpan <=> \E p \in Places : at(p) = t
  BY DEF HolderInv, Decided, Kept, at
<1>6. CASE registrations[t].parent # NoSpan
  <2>1. A = {} /\ B = {} /\ C = {}
    BY <1>2, <1>3, <1>5, <1>6
  <2>2. Cardinality(A) = 0 /\ Cardinality(B) = 0 /\ Cardinality(C) = 0
    <3> HIDE DEF A, B, C
    <3> QED
      BY <2>1, FS_EmptySet
  <2> QED
    BY <1>6, <2>2
<1>7. CASE registrations[t].parent = NoSpan
  <2>1. PICK p \in Places : at(p) = t
    BY <1>5, <1>7
  <2>2. /\ \A g \in Callers : caller[g].token = t <=> p = T(g)
        /\ \A g \in Callers : caller[g].held = t <=> p = H(g)
        /\ \A c \in Connections : connection[c].fallback = t <=> p = F(c)
    BY <1>2, <1>3, <1>4, <2>1
  <2> HIDE DEF A, B, C
  <2>3. ASSUME NEW g \in Callers, p = T(g)
        PROVE  Cardinality(A) + Cardinality(B) + Cardinality(C) = 1
    <3>1. A = {g}
      BY <1>3, <2>2, <2>3 DEF A
    <3>2. B = {}
      BY <1>3, <2>2, <2>3 DEF B
    <3>3. C = {}
      BY <1>3, <2>2, <2>3 DEF C
    <3>4. Cardinality(A) = 1
      BY <3>1, FS_Singleton
    <3>5. Cardinality(B) = 0
      BY <3>2, FS_EmptySet
    <3>6. Cardinality(C) = 0
      BY <3>3, FS_EmptySet
    <3> QED
      BY <3>4, <3>5, <3>6
  <2>4. ASSUME NEW g \in Callers, p = H(g)
        PROVE  Cardinality(A) + Cardinality(B) + Cardinality(C) = 1
    <3>1. A = {}
      BY <1>3, <2>2, <2>4 DEF A
    <3>2. B = {g}
      BY <1>3, <2>2, <2>4 DEF B
    <3>3. C = {}
      BY <1>3, <2>2, <2>4 DEF C
    <3>4. Cardinality(A) = 0
      BY <3>1, FS_EmptySet
    <3>5. Cardinality(B) = 1
      BY <3>2, FS_Singleton
    <3>6. Cardinality(C) = 0
      BY <3>3, FS_EmptySet
    <3> QED
      BY <3>4, <3>5, <3>6
  <2>5. ASSUME NEW c \in Connections, p = F(c)
        PROVE  Cardinality(A) + Cardinality(B) + Cardinality(C) = 1
    <3>1. A = {}
      BY <1>3, <2>2, <2>5 DEF A
    <3>2. B = {}
      BY <1>3, <2>2, <2>5 DEF B
    <3>3. C = {c}
      BY <1>3, <2>2, <2>5 DEF C
    <3>4. Cardinality(A) = 0
      BY <3>1, FS_EmptySet
    <3>5. Cardinality(B) = 0
      BY <3>2, FS_EmptySet
    <3>6. Cardinality(C) = 1
      BY <3>3, FS_Singleton
    <3> QED
      BY <3>4, <3>5, <3>6
  <2>6. Cardinality(A) + Cardinality(B) + Cardinality(C) = 1
    BY <1>3, <2>3, <2>4, <2>5
  <2> QED
    BY <1>7, <2>6 DEF A, B, C
<1> QED
  BY <1>6, <1>7

THEOREM HolderInvariant == Spec => []HolderInv
  BY HolderInit, HolderStep, PTL DEF Spec

\* Whatever goroutines share connections, skip, fail, prepare and give up, and
\* whatever the consumer drops meanwhile: the token of a scope that is still
\* undecided is known in exactly one place, and the token of a bound one nowhere
\* (serverScope, preserveFallbackToken, takeFallbackToken, finish).
THEOREM TokensHaveOneHolder == Spec => []OneHolder
<1>1. HolderInv => OneHolder
  BY HoldersCounted
<1> QED
  BY <1>1, HolderInvariant, PTL

\* The registry keeps its limit in the composed system, too: serverScope goes
\* through Register's purge and refusal, and nobody else adds a scope.
THEOREM PathIsBounded == Spec => []Bounded
<1>1. HolderInv => Bounded
  BY DEF HolderInv, RegistrySound
<1> QED
  BY <1>1, HolderInvariant, PTL

-----------------------------------------------------------------------------
(* Rows and tokens, counted. *)

\* The rows a call has open on the connection c, and the scopes it may still
\* register: a skipped call and a prepared statement have a call to come.
RowsOf(job, c) == IF job.pc = "rows" /\ job.conn = c THEN 1 ELSE 0

ScopesOf(job) ==
    IF job.pc \in {"skipped", "prepared"} \/ (job.pc = "calling" /\ job.result = "skip") THEN 1 ELSE 0

Reading(cs, c) == {g \in Callers : RowsOf(cs[g], c) = 1}

ToRegister(cs) == {g \in Callers : ScopesOf(cs[g]) = 1}

CallsCounted ==
    /\ clientSpans \subseteq 1..ops
    /\ \A g \in Callers : caller[g].op <= ops
    /\ \A c \in Connections : connection[c].rows = Cardinality(Reading(caller, c))
    /\ issued + Cardinality(ToRegister(caller)) <= 2 * ops

LEMMA OneApart ==
    ASSUME NEW S, IsFiniteSet(S), NEW T, NEW g, \A h : h # g => (h \in T <=> h \in S)
    PROVE  /\ Cardinality(S) \in Nat /\ Cardinality(T) \in Nat
           /\ Cardinality(T) = Cardinality(S) + (IF g \in T THEN 1 ELSE 0) - (IF g \in S THEN 1 ELSE 0)
<1> DEFINE R == S \ {g}
<1>1. IsFiniteSet(R) /\ g \notin R
  BY FS_RemoveElement
<1>2. ASSUME NEW Q, \A h : h # g => (h \in Q <=> h \in S)
      PROVE  Cardinality(Q) = Cardinality(R) + IF g \in Q THEN 1 ELSE 0
  <2>1. Cardinality(R) \in Nat /\ Cardinality(R \cup {g}) = Cardinality(R) + 1
    <3> HIDE DEF R
    <3> QED
      BY <1>1, FS_AddElement, FS_CardinalityType
  <2>2. CASE g \in Q
    <3>1. Q = R \cup {g}
      BY <1>2, <2>2
    <3> QED
      BY <2>1, <2>2, <3>1
  <2>3. CASE g \notin Q
    <3>1. Q = R
      BY <1>2, <2>3
    <3> QED
      BY <2>1, <2>3, <3>1
  <2> QED
    BY <2>2, <2>3
<1>3. Cardinality(S) = Cardinality(R) + IF g \in S THEN 1 ELSE 0
  BY <1>2
<1>4. Cardinality(T) = Cardinality(R) + IF g \in T THEN 1 ELSE 0
  BY <1>2
<1>5. Cardinality(R) \in Nat
  BY <1>1, FS_CardinalityType
<1> QED
  BY <1>3, <1>4, <1>5

\* One caller moves.
LEMMA CountsMove ==
    ASSUME HolderInv, NEW g \in Callers, NEW job, caller' = [caller EXCEPT ![g] = job]
    PROVE  /\ \A c : /\ Cardinality(Reading(caller, c)) \in Nat
                     /\ Cardinality(Reading(caller', c))
                          = Cardinality(Reading(caller, c)) + RowsOf(job, c) - RowsOf(caller[g], c)
           /\ Cardinality(ToRegister(caller)) \in Nat
           /\ Cardinality(ToRegister(caller')) \in Nat
           /\ Cardinality(ToRegister(caller'))
                = Cardinality(ToRegister(caller)) + ScopesOf(job) - ScopesOf(caller[g])
<1>1. \A h \in Callers : caller'[h] = IF h = g THEN job ELSE caller[h]
  BY DEF HolderInv, ClientTyped
<1>2. ASSUME NEW c
      PROVE  /\ Cardinality(Reading(caller, c)) \in Nat
             /\ Cardinality(Reading(caller', c))
                  = Cardinality(Reading(caller, c)) + RowsOf(job, c) - RowsOf(caller[g], c)
  <2> DEFINE S == Reading(caller, c)
             T == Reading(caller', c)
  <2>1. IsFiniteSet(S)
    BY CallersAssumption, FS_Subset DEF Reading
  <2>2. \A h : h # g => (h \in T <=> h \in S)
    BY <1>1 DEF Reading
  <2>3. (g \in T <=> RowsOf(job, c) = 1) /\ (g \in S <=> RowsOf(caller[g], c) = 1)
    BY <1>1 DEF Reading
  <2>4. RowsOf(job, c) \in {0, 1} /\ RowsOf(caller[g], c) \in {0, 1}
    BY DEF RowsOf
  <2> HIDE DEF S, T
  <2>5. /\ Cardinality(S) \in Nat
        /\ Cardinality(T) = Cardinality(S) + (IF g \in T THEN 1 ELSE 0) - (IF g \in S THEN 1 ELSE 0)
    BY <2>1, <2>2, OneApart
  <2> QED
    BY <2>3, <2>4, <2>5 DEF S, T
<1>3. /\ Cardinality(ToRegister(caller)) \in Nat
      /\ Cardinality(ToRegister(caller')) \in Nat
      /\ Cardinality(ToRegister(caller'))
           = Cardinality(ToRegister(caller)) + ScopesOf(job) - ScopesOf(caller[g])
  <2> DEFINE S == ToRegister(caller)
             T == ToRegister(caller')
  <2>1. IsFiniteSet(S)
    BY CallersAssumption, FS_Subset DEF ToRegister
  <2>2. \A h : h # g => (h \in T <=> h \in S)
    BY <1>1 DEF ToRegister
  <2>3. (g \in T <=> ScopesOf(job) = 1) /\ (g \in S <=> ScopesOf(caller[g]) = 1)
    BY <1>1 DEF ToRegister
  <2>4. ScopesOf(job) \in {0, 1} /\ ScopesOf(caller[g]) \in {0, 1}
    BY DEF ScopesOf
  <2> HIDE DEF S, T
  <2>5. /\ Cardinality(S) \in Nat /\ Cardinality(T) \in Nat
        /\ Cardinality(T) = Cardinality(S) + (IF g \in T THEN 1 ELSE 0) - (IF g \in S THEN 1 ELSE 0)
    BY <2>1, <2>2, OneApart
  <2> QED
    BY <2>3, <2>4, <2>5 DEF S, T
<1> QED
  BY <1>2, <1>3

LEMMA StillEnough ==
    ASSUME NEW n \in Nat, NEW n1 \in Nat, NEW o \in Nat, NEW d \in Nat, NEW i \in Nat, NEW j \in Nat,
           NEW x \in Nat, NEW y \in Nat,
           n + i <= 2 * o, j = i + x - y, n1 + x <= n + y + 2 * d
    PROVE  n1 + j <= 2 * (o + d)
  OBVIOUS

LEMMA CallerCounts ==
    ASSUME HolderInv, CallsCounted, NEW g \in Callers, NEW job,
           caller' = [caller EXCEPT ![g] = job],
           issued' \in {issued, issued + 1}, job.op \in Nat, job.op <= ops', clientSpans' \subseteq 1..ops',
           \A c \in Connections :
              connection'[c].rows = connection[c].rows + RowsOf(job, c) - RowsOf(caller[g], c),
           \/ ops' = ops /\ issued' + ScopesOf(job) <= issued + ScopesOf(caller[g])
           \/ ops' = ops + 1 /\ issued' + ScopesOf(job) <= issued + ScopesOf(caller[g]) + 2
    PROVE  CallsCounted'
<1>1. ops \in Nat /\ issued \in Nat /\ \A h \in Callers : caller[h].op \in Nat
  BY HolderFacts DEF Jobs
<1>2. \A h \in Callers : caller'[h].op <= ops'
  <2>1. \A h \in Callers : caller'[h] = IF h = g THEN job ELSE caller[h]
    BY DEF HolderInv, ClientTyped
  <2>2. \A h \in Callers : caller[h].op <= ops'
    BY <1>1 DEF CallsCounted
  <2> QED
    BY <2>1, <2>2
<1>3. ASSUME NEW c \in Connections
      PROVE  connection'[c].rows = Cardinality(Reading(caller', c))
  <2>1. connection[c].rows = Cardinality(Reading(caller, c))
    BY DEF CallsCounted
  <2>2. Cardinality(Reading(caller', c))
          = Cardinality(Reading(caller, c)) + RowsOf(job, c) - RowsOf(caller[g], c)
    BY CountsMove
  <2>3. connection'[c].rows = connection[c].rows + RowsOf(job, c) - RowsOf(caller[g], c)
    OBVIOUS
  <2> QED
    BY <2>1, <2>2, <2>3
<1>4. issued' + Cardinality(ToRegister(caller')) <= 2 * ops'
  <2> DEFINE i == Cardinality(ToRegister(caller))
             j == Cardinality(ToRegister(caller'))
             x == ScopesOf(job)
             y == ScopesOf(caller[g])
  <2>1. /\ i \in Nat /\ j \in Nat /\ j = i + x - y
        /\ issued + i <= 2 * ops
    BY CountsMove DEF CallsCounted
  <2>2. x \in Nat /\ y \in Nat
    BY DEF ScopesOf
  <2>3. issued' \in Nat /\ 2 * ops \in Nat
    BY <1>1
  <2>4. \/ ops' = ops /\ issued' + x <= issued + y
        \/ ops' = ops + 1 /\ issued' + x <= issued + y + 2
    OBVIOUS
  <2> HIDE DEF i, j, x, y
  <2>5. CASE ops' = ops /\ issued' + x <= issued + y
    <3>1. issued' + j <= issued + i
      BY <1>1, <2>1, <2>2, <2>3, <2>5
    <3> QED
      BY <1>1, <2>1, <2>3, <2>5, <3>1 DEF j
  <2>6. CASE ops' = ops + 1 /\ issued' + x <= issued + y + 2
    <3>1. issued' + x <= issued + y + 2 * 1
      BY <2>6
    <3>2. issued' + j <= 2 * (ops + 1)
      BY <1>1, <2>1, <2>2, <2>3, <3>1, StillEnough
    <3> QED
      BY <2>6, <3>2 DEF j
  <2> QED
    BY <2>4, <2>5, <2>6
<1> QED
  BY <1>2, <1>3, <1>4 DEF CallsCounted

\* serverScope leaves the number of open rows alone.
LEMMA ScopeKeepsRows ==
    ASSUME NEW cn \in ConnectionStates, NEW mode, NEW markerOk \in BOOLEAN, NEW q
    PROVE  /\ ServerScope(cn, mode, markerOk).connection.rows = cn.rows
           /\ Preserved(ServerScope(cn, mode, markerOk), q).connection.rows = cn.rows
<1> DEFINE emptied == [cn EXCEPT !.fallback = NoToken]
           s == ServerScope(cn, mode, markerOk)
<1>1. emptied.rows = cn.rows /\ [emptied EXCEPT !.token = issued + 1].rows = cn.rows
  BY DEF ConnectionStates
<1>2. \E r, i, t : \E c \in {emptied, [emptied EXCEPT !.token = issued + 1]} :
         s = [registrations |-> r, issued |-> i, token |-> t, connection |-> c]
  BY DEF ServerScope
<1> HIDE DEF emptied, s
<1>3. ASSUME NEW r, NEW i, NEW t, NEW c, c.rows = cn.rows, s = [registrations |-> r, issued |-> i, token |-> t, connection |-> c]
      PROVE  s.connection.rows = cn.rows /\ Preserved(s, q).connection.rows = cn.rows
  BY <1>3 DEF Preserved
<1>4. s.connection.rows = cn.rows /\ Preserved(s, q).connection.rows = cn.rows
  <2>1. PICK r, i, t : \E c \in {emptied, [emptied EXCEPT !.token = issued + 1]} :
           s = [registrations |-> r, issued |-> i, token |-> t, connection |-> c]
    BY <1>2
  <2>2. PICK c \in {emptied, [emptied EXCEPT !.token = issued + 1]} :
           s = [registrations |-> r, issued |-> i, token |-> t, connection |-> c]
    BY <2>1
  <2>3. c.rows = cn.rows
    BY <1>1
  <2> QED
    BY <1>3, <2>2, <2>3
<1> QED
  BY <1>4 DEF s

\* Only the connection c has changed.
LEMMA OthersKeepRows ==
    ASSUME HolderInv, NEW c \in Connections, NEW cn, connection' = [connection EXCEPT ![c] = cn]
    PROVE  \A d \in Connections : connection'[d].rows = IF d = c THEN cn.rows ELSE connection[d].rows
  BY DEF HolderInv, ClientTyped

LEMMA CountFacts ==
    ASSUME HolderInv, CallsCounted
    PROVE  /\ ops \in Nat /\ issued \in Nat
           /\ clientSpans \subseteq 1..ops
           /\ \A g \in Callers : /\ caller[g] \in Jobs /\ caller[g].op \in Nat /\ caller[g].op <= ops
                                 /\ caller[g].pc # "idle" => caller[g].op \in 1..ops /\ caller[g].conn \in Connections
           /\ \A c \in Connections : connection[c] \in ConnectionStates /\ connection[c].rows \in Int
<1>1. \A g \in Callers : caller[g].op \in Nat /\ caller[g].op <= ops
  BY HolderFacts DEF Jobs, CallsCounted
<1>2. ops \in Nat /\ \A c \in Connections : connection[c].rows \in Int
  BY HolderFacts DEF ConnectionStates
<1> QED
  BY <1>1, <1>2, HolderFacts DEF CallsCounted

LEMMA SubmitCounts ==
    ASSUME HolderInv, CallsCounted, NEW g \in Callers, NEW job \in Jobs, NEW s, NEW markerOk, NEW result,
           Submit(g, job, s, result, markerOk),
           job.conn \in Connections, job.op <= ops', s.issued \in {issued, issued + 1},
           s.connection.rows = connection[job.conn].rows,
           \/ caller[g].pc = "idle" /\ ops' = ops + 1
           \/ caller[g].pc = "prepared" /\ ops' = ops /\ result # "skip"
    PROVE  CallsCounted'
<1> DEFINE new == [job EXCEPT !.pc = "calling", !.token = s.token, !.held = NoToken, !.result = result]
<1>1. /\ caller' = [caller EXCEPT ![g] = new]
      /\ connection' = [connection EXCEPT ![job.conn] = s.connection]
      /\ issued' = s.issued /\ clientSpans' = clientSpans
  BY DEF Submit
<1>2. new.pc = "calling" /\ new.result = result /\ new.op = job.op /\ job.op \in Nat
  BY DEF Jobs
<1> HIDE DEF new
<1>3. ops \in Nat /\ issued \in Nat /\ clientSpans \subseteq 1..ops
  BY CountFacts
<1>4. ASSUME NEW c \in Connections
      PROVE  connection'[c].rows = connection[c].rows + RowsOf(new, c) - RowsOf(caller[g], c)
  <2>1. RowsOf(new, c) = 0 /\ RowsOf(caller[g], c) = 0
    BY <1>2 DEF RowsOf
  <2>2. connection'[c].rows = connection[c].rows /\ connection[c].rows \in Int
    BY <1>1, OthersKeepRows, CountFacts
  <2> QED
    BY <2>1, <2>2
<1>5. \/ ops' = ops /\ issued' + ScopesOf(new) <= issued + ScopesOf(caller[g])
      \/ ops' = ops + 1 /\ issued' + ScopesOf(new) <= issued + ScopesOf(caller[g]) + 2
  <2>1. CASE caller[g].pc = "idle" /\ ops' = ops + 1
    <3>1. ScopesOf(caller[g]) = 0 /\ ScopesOf(new) \in {0, 1}
      BY <2>1 DEF ScopesOf
    <3> QED
      BY <1>1, <1>3, <2>1, <3>1
  <2>2. CASE caller[g].pc = "prepared" /\ ops' = ops /\ result # "skip"
    <3>1. ScopesOf(caller[g]) = 1 /\ ScopesOf(new) = 0
      BY <1>2, <2>2 DEF ScopesOf
    <3> QED
      BY <1>1, <1>3, <2>2, <3>1
  <2> QED
    BY <2>1, <2>2
<1>6. clientSpans' \subseteq 1..ops' /\ issued' \in {issued, issued + 1}
  BY <1>1, <1>3
<1> QED
  BY <1>1, <1>2, <1>4, <1>5, <1>6, CallerCounts

LEMMA DirectCallCounts ==
    ASSUME HolderInv, CallsCounted, NEW g \in Callers, NEW c \in Connections, NEW tra \in Transactions,
           NEW method \in {"exec", "query"}, NEW q \in Queries, NEW mode \in Modes,
           DirectCall(g, c, tra, method, q, mode)
    PROVE  CallsCounted'
<1> DEFINE job == NewJob(c, tra, method, q, mode)
           cn == connection[c]
<1>1. PICK result \in Results(TRUE), markerOk \in BOOLEAN :
         /\ caller[g].pc = "idle"
         /\ ops' = ops + 1
         /\ Submit(g, job, IF result = "skip" THEN Preserved(ServerScope(cn, mode, markerOk), q)
                           ELSE ServerScope(cn, mode, markerOk), result, markerOk)
  BY DEF DirectCall
<1> DEFINE scope == ServerScope(cn, mode, markerOk)
           s == IF result = "skip" THEN Preserved(scope, q) ELSE scope
<1>2. ops \in Nat /\ job \in Jobs /\ job.conn = c /\ job.op = ops + 1
  BY CountFacts, NewJobIs
<1>3. ScopeFor(cn, scope) /\ cn \in ConnectionStates
  BY HolderFacts, ServerScopeIs DEF HolderInv
<1>4. s.connection.rows = cn.rows
  BY <1>3, ScopeKeepsRows
<1> HIDE DEF job, scope
<1>5. s.issued \in {issued, issued + 1}
  <2>1. Preserved(scope, q).issued = scope.issued
    BY <1>3 DEF Preserved, ScopeFor
  <2> QED
    BY <1>3, <2>1 DEF ScopeFor
<1>6. Submit(g, job, s, result, markerOk)
  BY <1>1 DEF job, scope
<1> HIDE DEF s, cn
<1>7. s.connection.rows = connection[job.conn].rows /\ job.op <= ops'
  BY <1>1, <1>2, <1>4 DEF cn
<1> QED
  BY <1>1, <1>2, <1>5, <1>6, <1>7, SubmitCounts

LEMMA StatementCallCounts ==
    ASSUME HolderInv, CallsCounted, NEW g \in Callers, StatementCall(g)
    PROVE  CallsCounted'
<1>1. PICK result \in Results(FALSE), markerOk \in BOOLEAN,
           mode \in {caller[g].mode} \cup (Modes \cap {"disabled"}) :
         LET job == [caller[g] EXCEPT !.mode = mode]
         IN  /\ job.pc = "prepared"
             /\ Submit(g, job, StatementScope(job, connection[job.conn], markerOk), result, markerOk)
             /\ UNCHANGED ops
  BY DEF StatementCall
<1> DEFINE job == [caller[g] EXCEPT !.mode = mode]
           cn == connection[job.conn]
           s == StatementScope(job, cn, markerOk)
<1>2. /\ caller[g] \in Jobs /\ result # "skip"
      /\ caller[g].mode \in {"traced", "unsampled", "disabled"}
  BY HolderFacts DEF Results, Jobs
<1>3. /\ job \in Jobs /\ job.pc = caller[g].pc /\ job.conn = caller[g].conn /\ job.op = caller[g].op
  BY <1>2 DEF Jobs
<1>4. caller[g].pc = "prepared" /\ job.conn \in Connections /\ job.op <= ops /\ ops' = ops
  BY <1>1, <1>3, CountFacts
<1> HIDE DEF job
<1>5. cn \in ConnectionStates /\ cn.token \in Tokenish(issued) /\ cn.fallback \in Tokenish(issued)
  BY <1>4, HolderFacts
<1> HIDE DEF cn
<1>6. s.connection.rows = cn.rows /\ s.issued \in {issued, issued + 1}
  <2>1. CASE job.held = NoToken
    <3>1. s = ServerScope(cn, job.mode, markerOk)
      BY <2>1 DEF StatementScope
    <3>2. ScopeFor(cn, ServerScope(cn, job.mode, markerOk))
      BY <1>5, ServerScopeIs DEF HolderInv
    <3>3. ServerScope(cn, job.mode, markerOk).connection.rows = cn.rows
      BY <1>5, ScopeKeepsRows
    <3> QED
      BY <3>1, <3>2, <3>3 DEF ScopeFor
  <2>2. CASE job.held # NoToken
    BY <2>2 DEF StatementScope
  <2> QED
    BY <2>1, <2>2
<1>7. Submit(g, job, s, result, markerOk)
  BY <1>1 DEF job, cn
<1> HIDE DEF s
<1>8. s.connection.rows = connection[job.conn].rows /\ job.op <= ops'
  BY <1>4, <1>6 DEF cn
<1> QED
  BY <1>2, <1>3, <1>4, <1>6, <1>7, <1>8, SubmitCounts

LEMMA ReturnCounts ==
    ASSUME HolderInv, CallsCounted, NEW g \in Callers, Return(g)
    PROVE  CallsCounted'
<1> DEFINE job == caller[g]
           opens == job.method = "query" /\ job.result = "ok"
           rows == [job EXCEPT !.pc = "rows", !.token = NoToken, !.cursor = TRUE]
           skipped == [job EXCEPT !.pc = "skipped", !.result = "ok"]
           new == CASE opens -> rows [] job.result = "skip" -> skipped [] OTHER -> Idle
           cn == [connection[job.conn] EXCEPT !.rows = @ + 1]
<1>1. /\ job.pc = "calling"
      /\ connection' = IF opens THEN [connection EXCEPT ![job.conn] = cn] ELSE connection
      /\ caller' = [caller EXCEPT ![g] = new]
      /\ clientSpans' = clientSpans \/ clientSpans' = clientSpans \cup {job.op}
      /\ issued' = issued /\ ops' = ops
  BY DEF Return
<1>2. /\ job \in Jobs /\ job.op \in 1..ops /\ job.conn \in Connections
      /\ ops \in Nat /\ issued \in Nat /\ clientSpans \subseteq 1..ops
  BY <1>1, CountFacts
<1>3. /\ rows.pc = "rows" /\ rows.conn = job.conn /\ rows.op = job.op
      /\ skipped.pc = "skipped" /\ skipped.op = job.op
      /\ Idle.pc = "idle" /\ Idle.op = 0
  BY <1>2 DEF Jobs, Idle, NoOp
<1>4. cn.rows = connection[job.conn].rows + 1
  BY <1>2, CountFacts DEF ConnectionStates
<1> HIDE DEF rows, skipped, opens, cn
<1>5. \/ opens /\ new = rows
      \/ ~ opens /\ job.result = "skip" /\ new = skipped
      \/ ~ opens /\ job.result # "skip" /\ new = Idle
  <2>1. new = CASE opens -> rows [] job.result = "skip" -> skipped [] OTHER -> Idle
    OBVIOUS
  <2>2. ~ (opens /\ job.result = "skip")
    BY DEF opens
  <2> HIDE DEF new, job
  <2>3. CASE opens
    BY <2>1, <2>2, <2>3
  <2>4. CASE ~ opens
    BY <2>1, <2>4
  <2> QED
    BY <2>3, <2>4
<1>6. opens => job.result = "ok"
  BY DEF opens
<1> HIDE DEF new, job
<1>7. new.op \in Nat /\ new.op <= ops
  BY <1>2, <1>3, <1>5
<1>8. ASSUME NEW c \in Connections
      PROVE  connection'[c].rows = connection[c].rows + RowsOf(new, c) - RowsOf(caller[g], c)
  <2>1. RowsOf(job, c) = 0 /\ connection[c].rows \in Int
    BY <1>1, CountFacts DEF RowsOf
  <2>2. CASE opens
    <3>1. new.pc = "rows" /\ new.conn = job.conn
      BY <1>3, <1>5, <2>2
    <3>2. RowsOf(new, c) = IF c = job.conn THEN 1 ELSE 0
      BY <3>1 DEF RowsOf
    <3>3. connection'[c].rows = IF c = job.conn THEN cn.rows ELSE connection[c].rows
      <4>1. connection' = [connection EXCEPT ![job.conn] = cn]
        BY <1>1, <2>2
      <4>2. \A d \in Connections : d \in DOMAIN connection
        BY DEF HolderInv, ClientTyped
      <4> QED
        BY <1>2, <4>1, <4>2
    <3> QED
      BY <1>4, <2>1, <3>2, <3>3 DEF job
  <2>3. CASE ~ opens
    <3>1. RowsOf(new, c) = 0
      BY <1>3, <1>5, <2>3 DEF RowsOf
    <3> QED
      BY <1>1, <2>1, <2>3, <3>1 DEF job
  <2> QED
    BY <2>2, <2>3
<1>9. ScopesOf(new) <= ScopesOf(job) /\ ScopesOf(new) \in Nat /\ ScopesOf(job) \in Nat
  BY <1>1, <1>3, <1>5, <1>6 DEF ScopesOf
<1>10. issued' + ScopesOf(new) <= issued + ScopesOf(caller[g])
  BY <1>1, <1>2, <1>9 DEF job
<1>11. clientSpans' \subseteq 1..ops' /\ issued' \in {issued, issued + 1} /\ new.op <= ops'
  BY <1>1, <1>2, <1>7
<1> QED
  BY <1>1, <1>7, <1>8, <1>10, <1>11, CallerCounts

\* A caller moves, and neither opens rows nor has more scopes to register.
QuietMove(g, job) ==
    /\ caller' = [caller EXCEPT ![g] = job]
    /\ issued' = issued
    /\ clientSpans' = clientSpans
    /\ job.op \in Nat
    /\ job.op <= ops'
    /\ \A c \in Connections : connection'[c].rows = connection[c].rows
    /\ \A c \in Connections : RowsOf(job, c) = RowsOf(caller[g], c)
    /\ \/ ops' = ops /\ ScopesOf(job) <= ScopesOf(caller[g])
       \/ ops' = ops + 1

LEMMA QuietCounts ==
    ASSUME HolderInv, CallsCounted, NEW g \in Callers, NEW job, QuietMove(g, job)
    PROVE  CallsCounted'
<1>1. ops \in Nat /\ issued \in Nat /\ clientSpans \subseteq 1..ops
  BY CountFacts
<1>2. ASSUME NEW c \in Connections
      PROVE  connection'[c].rows = connection[c].rows + RowsOf(job, c) - RowsOf(caller[g], c)
  <2>1. connection[c].rows \in Int /\ RowsOf(job, c) \in Int
    BY CountFacts DEF RowsOf
  <2>2. connection'[c].rows = connection[c].rows /\ RowsOf(job, c) = RowsOf(caller[g], c)
    BY DEF QuietMove
  <2> QED
    BY <2>1, <2>2
<1>3. ScopesOf(job) \in {0, 1} /\ ScopesOf(caller[g]) \in {0, 1}
  BY DEF ScopesOf
<1>4. \/ ops' = ops /\ issued' + ScopesOf(job) <= issued + ScopesOf(caller[g])
      \/ ops' = ops + 1 /\ issued' + ScopesOf(job) <= issued + ScopesOf(caller[g]) + 2
  BY <1>1, <1>3 DEF QuietMove
<1>5. clientSpans' \subseteq 1..ops' /\ issued' \in {issued, issued + 1}
  BY <1>1 DEF QuietMove
<1>6. caller' = [caller EXCEPT ![g] = job] /\ job.op \in Nat /\ job.op <= ops'
  BY DEF QuietMove
<1> QED
  BY <1>2, <1>4, <1>5, <1>6, CallerCounts

LEMMA PreparesCounts ==
    ASSUME HolderInv, CallsCounted, NEW g \in Callers,
           \/ Prepare(g) \/ PrepareFails(g)
           \/ \E c \in Connections, tra \in Transactions, method \in {"exec", "query"},
                 q \in Queries, mode \in Modes : PrepareFirst(g, c, tra, method, q, mode)
    PROVE  CallsCounted'
<1>1. ASSUME NEW c \in Connections, connection' = [connection EXCEPT ![c] = Emptied(connection[c])]
      PROVE  \A d \in Connections : connection'[d].rows = connection[d].rows
  <2>1. Emptied(connection[c]).rows = connection[c].rows
    BY CountFacts DEF Emptied, ConnectionStates
  <2> QED
    BY <1>1, <2>1, OthersKeepRows
<1>2. CASE Prepare(g)
  <2> DEFINE job == caller[g]
             taken == Take(connection[job.conn], job.query)
             new == [job EXCEPT !.pc = "prepared", !.held = taken]
  <2>1. /\ job.pc = "skipped"
        /\ connection' = [connection EXCEPT ![job.conn] = Emptied(connection[job.conn])]
        /\ caller' = [caller EXCEPT ![g] = new]
        /\ issued' = issued /\ ops' = ops /\ clientSpans' = clientSpans
    BY <1>2 DEF Prepare
  <2>2. job \in Jobs /\ job.conn \in Connections /\ job.op \in Nat /\ job.op <= ops
    BY <2>1, CountFacts
  <2>3. new.pc = "prepared" /\ new.op = job.op
    BY <2>2 DEF Jobs
  <2> HIDE DEF new
  <2>4. \A c \in Connections : connection'[c].rows = connection[c].rows /\ RowsOf(new, c) = RowsOf(job, c)
    BY <1>1, <2>1, <2>2, <2>3 DEF RowsOf
  <2>5. ScopesOf(new) <= ScopesOf(job)
    BY <2>1, <2>3 DEF ScopesOf
  <2>6. QuietMove(g, new)
    BY <2>1, <2>2, <2>3, <2>4, <2>5 DEF QuietMove
  <2> QED
    BY <2>6, QuietCounts
<1>3. CASE PrepareFails(g)
  <2> DEFINE c == caller[g].conn
  <2>1. /\ caller[g].pc = "skipped"
        /\ connection' = [connection EXCEPT ![c] = Emptied(connection[c])]
        /\ caller' = [caller EXCEPT ![g] = Idle]
        /\ issued' = issued /\ ops' = ops /\ clientSpans' = clientSpans
    BY <1>3 DEF PrepareFails
  <2>2. c \in Connections /\ ops \in Nat
    BY <2>1, CountFacts
  <2>3. Idle.pc = "idle" /\ Idle.op = 0
    BY DEF Idle, NoOp
  <2>4. \A d \in Connections : connection'[d].rows = connection[d].rows /\ RowsOf(Idle, d) = RowsOf(caller[g], d)
    BY <1>1, <2>1, <2>2, <2>3 DEF RowsOf
  <2>5. ScopesOf(Idle) <= ScopesOf(caller[g])
    BY <2>1, <2>3 DEF ScopesOf
  <2>6. Idle.op \in Nat /\ Idle.op <= ops'
    BY <2>1, <2>2, <2>3
  <2> HIDE DEF c
  <2>7. QuietMove(g, Idle)
    BY <2>1, <2>4, <2>5, <2>6 DEF QuietMove
  <2> QED
    BY <2>7, QuietCounts
<1>4. ASSUME NEW c \in Connections, NEW tra \in Transactions, NEW method \in {"exec", "query"},
             NEW q \in Queries, NEW mode \in Modes, PrepareFirst(g, c, tra, method, q, mode)
      PROVE  CallsCounted'
  <2> DEFINE job == NewJob(c, tra, method, q, mode)
             taken == Take(connection[c], q)
             new == [job EXCEPT !.pc = "prepared", !.held = taken]
  <2>1. /\ caller[g].pc = "idle"
        /\ connection' = [connection EXCEPT ![c] = Emptied(connection[c])]
        /\ caller' = [caller EXCEPT ![g] = new]
        /\ issued' = issued /\ ops' = ops + 1 /\ clientSpans' = clientSpans
    BY <1>4 DEF PrepareFirst
  <2>2. ops \in Nat /\ job \in Jobs /\ job.op = ops + 1
    BY CountFacts, NewJobIs
  <2> HIDE DEF job
  <2>3. new.pc = "prepared" /\ new.op = ops + 1
    BY <2>2 DEF Jobs
  <2> HIDE DEF new
  <2>4. \A d \in Connections : connection'[d].rows = connection[d].rows /\ RowsOf(new, d) = RowsOf(caller[g], d)
    BY <1>1, <2>1, <2>3 DEF RowsOf
  <2>5. new.op \in Nat /\ new.op <= ops'
    BY <2>1, <2>2, <2>3
  <2>6. QuietMove(g, new)
    BY <2>1, <2>4, <2>5 DEF QuietMove
  <2> QED
    BY <2>6, QuietCounts
<1> QED
  BY <1>2, <1>3, <1>4

LEMMA LeavesCounts ==
    ASSUME HolderInv, CallsCounted, NEW g \in Callers,
           GiveUpSkipped(g) \/ CloseStatement(g) \/ CursorEnds(g) \/ CloseRows(g)
    PROVE  CallsCounted'
<1> DEFINE c == caller[g].conn
<1>1. Idle.pc = "idle" /\ Idle.op = 0
  BY DEF Idle, NoOp
<1>2. ops \in Nat /\ issued \in Nat /\ clientSpans \subseteq 1..ops
  BY CountFacts
<1>3. CASE GiveUpSkipped(g) \/ CloseStatement(g)
  <2>1. /\ caller[g].pc \in {"skipped", "prepared"}
        /\ caller' = [caller EXCEPT ![g] = Idle]
        /\ connection' = connection /\ issued' = issued /\ ops' = ops /\ clientSpans' = clientSpans
    BY <1>3 DEF GiveUpSkipped, CloseStatement, regVars
  <2>2. \A d \in Connections : connection'[d].rows = connection[d].rows /\ RowsOf(Idle, d) = RowsOf(caller[g], d)
    BY <1>1, <2>1 DEF RowsOf
  <2>3. ScopesOf(Idle) <= ScopesOf(caller[g])
    BY <1>1, <2>1 DEF ScopesOf
  <2>4. Idle.op \in Nat /\ Idle.op <= ops'
    BY <1>1, <1>2, <2>1
  <2>5. QuietMove(g, Idle)
    BY <2>1, <2>2, <2>3, <2>4 DEF QuietMove
  <2> QED
    BY <2>5, QuietCounts
<1>4. CASE CursorEnds(g)
  <2> DEFINE new == [caller[g] EXCEPT !.cursor = FALSE]
  <2>1. /\ caller[g].pc = "rows"
        /\ caller' = [caller EXCEPT ![g] = new]
        /\ connection' = connection /\ issued' = issued /\ ops' = ops /\ clientSpans' = clientSpans
    BY <1>4 DEF CursorEnds, regVars
  <2>2. caller[g] \in Jobs /\ caller[g].op \in Nat /\ caller[g].op <= ops
    BY CountFacts
  <2>3. new.pc = "rows" /\ new.conn = c /\ new.op = caller[g].op
    BY <2>1, <2>2 DEF Jobs
  <2> HIDE DEF new
  <2>4. \A d \in Connections : connection'[d].rows = connection[d].rows /\ RowsOf(new, d) = RowsOf(caller[g], d)
    BY <2>1, <2>3 DEF RowsOf
  <2>5. ScopesOf(new) <= ScopesOf(caller[g])
    BY <2>1, <2>3 DEF ScopesOf
  <2>6. QuietMove(g, new)
    BY <2>1, <2>2, <2>3, <2>4, <2>5 DEF QuietMove
  <2> QED
    BY <2>6, QuietCounts
<1>5. CASE CloseRows(g)
  <2> DEFINE cn == Released(connection[c])
  <2>1. /\ caller[g].pc = "rows"
        /\ caller' = [caller EXCEPT ![g] = Idle]
        /\ connection' = [connection EXCEPT ![c] = cn]
        /\ issued' = issued /\ ops' = ops /\ clientSpans' = clientSpans
    <3>1. connection' = [connection EXCEPT ![c] = Released(@)]
      BY <1>5 DEF CloseRows
    <3> QED
      BY <1>5, <3>1 DEF CloseRows, regVars
  <2>2. c \in Connections
    BY <2>1, CountFacts
  <2>3. cn.rows = connection[c].rows - 1
    BY <2>2, CountFacts DEF Released, ConnectionStates
  <2> HIDE DEF cn, c
  <2>4. ASSUME NEW d \in Connections
        PROVE  connection'[d].rows = connection[d].rows + RowsOf(Idle, d) - RowsOf(caller[g], d)
    <3>1. RowsOf(Idle, d) = 0 /\ RowsOf(caller[g], d) = IF d = c THEN 1 ELSE 0
      BY <1>1, <2>1 DEF RowsOf, c
    <3>2. connection'[d].rows = IF d = c THEN cn.rows ELSE connection[d].rows
      BY <2>1, <2>2 DEF HolderInv, ClientTyped
    <3>3. connection[d].rows \in Int
      BY CountFacts
    <3> QED
      BY <2>3, <3>1, <3>2, <3>3
  <2> USE DEF c
  <2>5. ScopesOf(Idle) = 0 /\ ScopesOf(caller[g]) = 0
    BY <1>1, <2>1 DEF ScopesOf
  <2>6. issued' + ScopesOf(Idle) <= issued + ScopesOf(caller[g])
    BY <1>2, <2>1, <2>5
  <2>7. Idle.op \in Nat /\ Idle.op <= ops' /\ clientSpans' \subseteq 1..ops' /\ issued' \in {issued, issued + 1}
    BY <1>1, <1>2, <2>1
  <2> QED
    BY <2>1, <2>4, <2>6, <2>7, CallerCounts
<1> QED
  BY <1>3, <1>4, <1>5

LEMMA CloseConnectionCounts ==
    ASSUME HolderInv, CallsCounted, NEW c \in Connections, CloseConnection(c)
    PROVE  CallsCounted'
<1>1. /\ connection' = [connection EXCEPT ![c] = NewConnection]
      /\ \A g \in Callers : caller[g].conn # c
      /\ UNCHANGED <<caller, ops, clientSpans, issued>>
  BY DEF CloseConnection
<1>2. connection[c].rows = 0
  <2>1. Reading(caller, c) = {}
    BY <1>1 DEF Reading, RowsOf
  <2>2. Cardinality(Reading(caller, c)) = 0
    BY <2>1, FS_EmptySet
  <2> QED
    BY <2>2 DEF CallsCounted
<1>3. \A d \in Connections : connection'[d].rows = connection[d].rows
  <2>1. NewConnection.rows = 0
    BY DEF NewConnection
  <2> QED
    BY <1>1, <1>2, <2>1, OthersKeepRows
<1> QED
  BY <1>1, <1>3 DEF CallsCounted

-----------------------------------------------------------------------------
\* The registry's flags.
FlagsTyped ==
    /\ running \in BOOLEAN
    /\ stopping \in BOOLEAN
    /\ consumer \in {"none", "active", "done"}

ClientTypes == FlagsTyped /\ CallsCounted

LEMMA FlagsKeep ==
    ASSUME FlagsTyped, [Next]_vars
    PROVE  FlagsTyped'
<1> USE DEF FlagsTyped
<1>1. CASE ClientNext
  <2>1. ASSUME NEW g \in Callers, ClientStep(g)
        PROVE  UNCHANGED <<running, stopping, consumer>>
    <3>1. ASSUME NEW job, NEW s, NEW result, NEW markerOk, Submit(g, job, s, result, markerOk)
          PROVE  UNCHANGED <<running, stopping, consumer>>
      BY <3>1 DEF Submit
    <3>2. ASSUME NEW c \in Connections, NEW tra \in Transactions, NEW method \in {"exec", "query"},
                 NEW q \in Queries, NEW mode \in Modes, DirectCall(g, c, tra, method, q, mode)
          PROVE  UNCHANGED <<running, stopping, consumer>>
      BY <3>1, <3>2 DEF DirectCall
    <3>3. ASSUME NEW c \in Connections, NEW tra \in Transactions, NEW method \in {"exec", "query"},
                 NEW q \in Queries, NEW mode \in Modes, PrepareFirst(g, c, tra, method, q, mode)
          PROVE  UNCHANGED <<running, stopping, consumer>>
      BY <3>3 DEF PrepareFirst, regVars
    <3>4. CASE StatementCall(g)
      BY <3>1, <3>4 DEF StatementCall
    <3>5. CASE Return(g)
      BY <3>5 DEF Return, regVars
    <3>6. CASE Prepare(g) \/ PrepareFails(g) \/ GiveUpSkipped(g) \/ CloseStatement(g)
      BY <3>6 DEF Prepare, PrepareFails, GiveUpSkipped, CloseStatement, regVars
    <3>7. CASE CursorEnds(g) \/ CloseRows(g)
      BY <3>7 DEF CursorEnds, CloseRows, regVars
    <3> QED
      BY <2>1, <3>2, <3>3, <3>4, <3>5, <3>6, <3>7 DEF ClientStep
  <2>2. ASSUME NEW c \in Connections, CloseConnection(c)
        PROVE  UNCHANGED <<running, stopping, consumer>>
    BY <2>2 DEF CloseConnection
  <2> QED
    BY <1>1, <2>1, <2>2 DEF ClientNext
<1>2. CASE ConsumerNext
  <2>1. ASSUME NEW m, Receive
        PROVE  UNCHANGED <<running, stopping, consumer>>
    BY <2>1 DEF Receive, regFlags
  <2>2. CASE EventReceived
    <3>1. Receive
      BY <2>2 DEF EventReceived, GapReceived, MarkerStarted, MarkerUnmatched, MarkerFinished, Unidentified,
                  StartOutsideTrees, StartDropsTree, StartJoinsTree, Started, FinishOutsideTrees,
                  FinishInTree, FinishRoot, Ended
    <3> QED
      BY <3>1 DEF Receive, regFlags
  <2>3. CASE Flush \/ Tick
    BY <2>3 DEF Flush, Tick, regFlags
  <2>4. CASE ConsumerEnds
    BY <2>4 DEF ConsumerEnds
  <2> QED
    BY <1>2, <2>2, <2>3, <2>4 DEF ConsumerNext
<1>3. CASE StrayRecord \/ StreamEnds \/ ChannelOverflows \/ ShutdownBegins \/ UNCHANGED vars
  BY <1>3 DEF StrayRecord, StreamEnds, ChannelOverflows, ShutdownBegins, BeginShutdown, vars, regVars
<1>4. CASE \E t \in DOMAIN registrations : ScopeElapses(t)
  BY <1>4 DEF ScopeElapses, Elapse
<1> QED
  BY <1>1, <1>2, <1>3, <1>4 DEF Next

LEMMA ClientTypesStep == HolderInv /\ ClientTypes /\ [Next]_vars => ClientTypes'
<1> SUFFICES ASSUME HolderInv, ClientTypes, [Next]_vars PROVE ClientTypes'
  OBVIOUS
<1>1. CallsCounted /\ FlagsTyped
  BY DEF ClientTypes
<1>2. ASSUME NEW g \in Callers, ClientStep(g)
      PROVE  CallsCounted'
  <2>1. CASE \E c \in Connections, tra \in Transactions, method \in {"exec", "query"},
                q \in Queries, mode \in Modes : DirectCall(g, c, tra, method, q, mode)
    BY <1>1, <2>1, DirectCallCounts
  <2>2. CASE StatementCall(g)
    BY <1>1, <2>2, StatementCallCounts
  <2>3. CASE Return(g)
    BY <1>1, <2>3, ReturnCounts
  <2>4. CASE \/ Prepare(g) \/ PrepareFails(g)
             \/ \E c \in Connections, tra \in Transactions, method \in {"exec", "query"},
                   q \in Queries, mode \in Modes : PrepareFirst(g, c, tra, method, q, mode)
    BY <1>1, <2>4, PreparesCounts
  <2>5. CASE GiveUpSkipped(g) \/ CloseStatement(g) \/ CursorEnds(g) \/ CloseRows(g)
    BY <1>1, <2>5, LeavesCounts
  <2> QED
    BY <1>2, <2>1, <2>2, <2>3, <2>4, <2>5 DEF ClientStep
<1>3. ASSUME ClientNext PROVE CallsCounted'
  <2>1. ASSUME NEW c \in Connections, CloseConnection(c)
        PROVE  CallsCounted'
    BY <1>1, <2>1, CloseConnectionCounts
  <2> QED
    BY <1>2, <1>3, <2>1 DEF ClientNext
<1>4. ASSUME ~ ClientNext PROVE CallsCounted'
  <2>1. UNCHANGED <<caller, connection, ops, clientSpans, issued>>
    <3>1. CASE ConsumerNext
      <4>1. UNCHANGED clientVars
        BY <3>1 DEF ConsumerNext
      <4>2. issued' = issued
        BY <3>1, ConsumerShrinks DEF ConsumerNext
      <4> QED
        BY <4>1, <4>2 DEF clientVars
    <3>2. CASE StrayRecord \/ StreamEnds \/ ChannelOverflows \/ ShutdownBegins \/ UNCHANGED vars
      BY <3>2 DEF StrayRecord, StreamEnds, ChannelOverflows, ShutdownBegins, BeginShutdown, vars, regVars,
                  clientVars
    <3>3. CASE \E t \in DOMAIN registrations : ScopeElapses(t)
      BY <3>3 DEF ScopeElapses, Elapse, clientVars
    <3> QED
      BY <1>4, <3>1, <3>2, <3>3 DEF Next
  <2>2. ToRegister(caller') = ToRegister(caller) /\ \A c : Reading(caller', c) = Reading(caller, c)
    BY <2>1
  <2> QED
    BY <1>1, <2>1, <2>2 DEF CallsCounted
<1>5. CallsCounted'
  BY <1>3, <1>4
<1>6. FlagsTyped'
  BY <1>1, FlagsKeep
<1> QED
  BY <1>5, <1>6 DEF ClientTypes

LEMMA ClientTypesStart == Init => ClientTypes
<1> SUFFICES ASSUME Init PROVE ClientTypes
  OBVIOUS
<1>1. /\ issued = 0 /\ ops = 0 /\ clientSpans = {}
      /\ connection = [c \in Connections |-> NewConnection]
      /\ caller = [g \in Callers |-> Idle]
  BY DEF Init, ClientInit
<1>2. Idle.pc = "idle" /\ Idle.op = 0 /\ NewConnection.rows = 0
  BY DEF Idle, NoOp, NewConnection
<1>3. ToRegister(caller) = {} /\ \A c : Reading(caller, c) = {}
  BY <1>1, <1>2 DEF ToRegister, ScopesOf, Reading, RowsOf
<1>4. Cardinality(ToRegister(caller)) = 0 /\ \A c : Cardinality(Reading(caller, c)) = 0
  BY <1>3, FS_EmptySet
<1>5. CallsCounted
  BY <1>1, <1>2, <1>4 DEF CallsCounted
<1>6. FlagsTyped
  BY DEF FlagsTyped, Init
<1> QED
  BY <1>5, <1>6 DEF ClientTypes

\* The client's half of the types: rows are counted as often as they are open.
LEMMA ClientTypesMean ==
    ASSUME HolderInv, ClientTypes
    PROVE  /\ RegTypeOK
           /\ ops \in 0..MaxOps
           /\ clientSpans \subseteq 1..ops
           /\ \A c \in Connections :
                 /\ connection[c].rows \in 0..Cardinality(Callers)
                 /\ {connection[c].token, connection[c].fallback} \subseteq (1..issued) \cup {NoToken}
           /\ \A g \in Callers :
                 /\ caller[g].pc \in {"idle", "calling", "skipped", "prepared", "rows"}
                 /\ caller[g].op \in 0..ops
                 /\ {caller[g].token, caller[g].held} \subseteq (1..issued) \cup {NoToken}
<1>1. CallsCounted /\ FlagsTyped
  BY DEF ClientTypes
<1>2. issued \in Nat /\ ops \in 0..MaxOps /\ MaxOps \in Nat /\ clientSpans \subseteq 1..ops
  BY <1>1, HolderFacts, CountFacts, MaxOpsAssumption
<1>3. issued \in 0..MaxTokens
  <2>1. issued <= 2 * ops
    <3>1. IsFiniteSet(ToRegister(caller))
      BY CallersAssumption, FS_Subset DEF ToRegister
    <3>2. Cardinality(ToRegister(caller)) \in Nat
      BY <3>1, FS_CardinalityType
    <3> QED
      BY <1>1, <1>2, <3>2 DEF CallsCounted
  <2> QED
    BY <1>2, <2>1, TokensSuffice, MaxTokensAssumption
<1>4. RegTypeOK
  BY <1>1, <1>3, HolderFacts DEF RegTypeOK, FlagsTyped, Small, IsRegistry
<1>5. ASSUME NEW c \in Connections
      PROVE  connection[c].rows \in 0..Cardinality(Callers)
  <2>1. Reading(caller, c) \in SUBSET Callers
    BY DEF Reading
  <2>2. /\ IsFiniteSet(Reading(caller, c))
        /\ Cardinality(Reading(caller, c)) <= Cardinality(Callers)
    BY <2>1, CallersAssumption, FS_Subset
  <2>3. Cardinality(Reading(caller, c)) \in Nat /\ Cardinality(Callers) \in Nat
    BY <2>2, CallersAssumption, FS_CardinalityType
  <2> QED
    BY <1>1, <2>2, <2>3 DEF CallsCounted
<1>6. \A c \in Connections :
         {connection[c].token, connection[c].fallback} \subseteq (1..issued) \cup {NoToken}
  BY HolderFacts DEF Tokenish
<1>7. ASSUME NEW g \in Callers
      PROVE  /\ caller[g].pc \in {"idle", "calling", "skipped", "prepared", "rows"}
             /\ caller[g].op \in 0..ops
             /\ {caller[g].token, caller[g].held} \subseteq (1..issued) \cup {NoToken}
  <2>1. caller[g].pc \in {"idle", "calling", "skipped", "prepared", "rows"}
    BY HolderFacts DEF Jobs
  <2>2. caller[g].op \in 0..ops
    BY <1>1, <1>2, CountFacts
  <2>3. {caller[g].token, caller[g].held} \subseteq (1..issued) \cup {NoToken}
    BY HolderFacts DEF Tokenish
  <2> QED
    BY <2>1, <2>2, <2>3
<1> QED
  BY <1>2, <1>4, <1>5, <1>6, <1>7

-----------------------------------------------------------------------------
(* Client spans. *)

\* A call in one of these places has still to end its span, or not to have one.
Unended == {"calling", "skipped", "prepared"}

\* A call works on an operation of its own, and its client span ends once.
OpsOnce ==
    /\ \A g, h \in Callers :
          g # h /\ caller[g].pc # "idle" /\ caller[h].pc # "idle" => caller[g].op # caller[h].op
    /\ \A g \in Callers : caller[g].pc \in Unended => caller[g].op \notin clientSpans

\* The scopes of r are bound to spans of S, or to none yet.
BoundIn(r, S) == \A t \in DOMAIN r : r[t].parent \in S \cup {NoSpan}

SpansInv == OpsOnce /\ BoundIn(registrations, clientSpans)

\* A caller starts an operation, goes on with it, or leaves it.
Proceeds(g, job) ==
    /\ caller' = [caller EXCEPT ![g] = job]
    /\ \/ job.pc = "idle"
       \/ caller[g].pc = "idle" /\ job.op = ops + 1
       \/ caller[g].pc # "idle" /\ job.op = caller[g].op
    /\ \/ clientSpans' = clientSpans /\ (job.pc \in Unended => caller[g].pc \in Unended \cup {"idle"})
       \/ /\ caller[g].pc = "calling"
          /\ job.pc \notin Unended
          /\ clientSpans' = clientSpans \cup {caller[g].op}

\* Its span ends with the operation, if it does.
Ending(g) ==
    \/ clientSpans' = clientSpans
    \/ /\ caller[g].op \in 1..MaxOps \ clientSpans
       /\ clientSpans' = clientSpans \cup {caller[g].op}

LEMMA ProceedsKeeps ==
    ASSUME HolderInv, CallsCounted, OpsOnce, NEW g \in Callers, NEW job, Proceeds(g, job)
    PROVE  OpsOnce' /\ Ending(g)
<1>1. \A h \in Callers : caller'[h] = IF h = g THEN job ELSE caller[h]
  BY DEF HolderInv, ClientTyped, Proceeds
<1>2. /\ ops \in Nat /\ clientSpans \subseteq 1..ops
      /\ \A h \in Callers : caller[h].op \in Nat /\ caller[h].op <= ops
  BY CountFacts
<1>3. ops + 1 \notin clientSpans /\ \A h \in Callers : caller[h].op # ops + 1
  BY <1>2
<1>4. ASSUME NEW h \in Callers, h # g, job.pc # "idle", caller[h].pc # "idle"
      PROVE  caller[h].op # job.op
  BY <1>3, <1>4 DEF Proceeds, OpsOnce
<1>5. \A h, i \in Callers :
         h # i /\ caller'[h].pc # "idle" /\ caller'[i].pc # "idle" => caller'[h].op # caller'[i].op
  BY <1>1, <1>4 DEF OpsOnce
<1>6. ASSUME NEW h \in Callers, caller'[h].pc \in Unended
      PROVE  caller'[h].op \notin clientSpans'
  <2>1. "idle" \notin Unended /\ "calling" \in Unended
    BY DEF Unended
  <2>2. CASE h = g
    <3>1. job.pc \in Unended /\ caller'[h].op = job.op
      BY <1>1, <1>6, <2>2
    <3>2. clientSpans' = clientSpans /\ caller[g].pc \in Unended \cup {"idle"}
      BY <3>1 DEF Proceeds
    <3>3. caller[g].pc \in Unended => caller[g].op \notin clientSpans
      BY DEF OpsOnce
    <3> QED
      BY <1>3, <2>1, <3>1, <3>2, <3>3 DEF Proceeds
  <2>3. CASE h # g
    <3>1. caller'[h] = caller[h] /\ caller[h].op \notin clientSpans
      BY <1>1, <1>6, <2>3 DEF OpsOnce
    <3>2. caller[g].pc = "calling" => caller[h].op # caller[g].op
      BY <1>6, <2>1, <2>3, <3>1 DEF OpsOnce
    <3> QED
      BY <3>1, <3>2 DEF Proceeds
  <2> QED
    BY <2>2, <2>3
<1>7. Ending(g)
  <2>1. "calling" \in Unended /\ "calling" # "idle"
    BY DEF Unended
  <2>2. caller[g].pc = "calling" => caller[g].op \in 1..MaxOps /\ caller[g].op \notin clientSpans
    BY <2>1, HolderFacts DEF OpsOnce
  <2> QED
    BY <2>2 DEF Proceeds, Ending
<1> QED
  BY <1>5, <1>6, <1>7 DEF OpsOnce

\* The scopes of r1 were in r, or are not bound.
Unbinding(r1, r) ==
    \A t \in DOMAIN r1 : r1[t].parent = NoSpan \/ (t \in DOMAIN r /\ r1[t].parent = r[t].parent)

LEMMA UnbindingKeeps ==
    ASSUME NEW r1, NEW r, NEW S, Unbinding(r1, r), BoundIn(r, S)
    PROVE  BoundIn(r1, S)
  BY DEF Unbinding, BoundIn

LEMMA WithoutUnbinding ==
    ASSUME NEW r, NEW T
    PROVE  Unbinding(Without(r, T), r)
  BY DEF Unbinding, Without

\* One scope is bound, to a span that ends now; the others are left as they were.
BindsAt(t, o) ==
    /\ o \in clientSpans' \ clientSpans
    /\ \A u \in DOMAIN registrations' :
          \/ u = t /\ registrations'[u].parent = o
          \/ u # t /\ u \in DOMAIN registrations /\ registrations'[u].parent = registrations[u].parent

Binding == Unbinding(registrations', registrations) \/ \E t, o : BindsAt(t, o)

\* What a client step does to the spans.
Spanning(g) == (\E job : Proceeds(g, job)) /\ BoundIn(registrations', clientSpans') /\ Binding

LEMMA SubmitSpans ==
    ASSUME HolderInv, SpansInv, NEW g \in Callers, NEW job \in Jobs, NEW s, NEW markerOk, NEW result,
           Submit(g, job, s, result, markerOk), Unbinding(s.registrations, registrations),
           \/ caller[g].pc = "idle" /\ job.op = ops + 1
           \/ caller[g].pc = "prepared" /\ job.op = caller[g].op
    PROVE  Spanning(g)
<1> DEFINE new == [job EXCEPT !.pc = "calling", !.token = s.token, !.held = NoToken, !.result = result]
<1>1. /\ caller' = [caller EXCEPT ![g] = new]
      /\ registrations' = s.registrations /\ clientSpans' = clientSpans
  BY DEF Submit
<1>2. new.op = job.op
  BY DEF Jobs
<1> HIDE DEF new
<1>3. Proceeds(g, new)
  BY <1>1, <1>2 DEF Proceeds, Unended
<1>4. BoundIn(registrations', clientSpans')
  BY <1>1, UnbindingKeeps DEF SpansInv
<1>5. Binding
  BY <1>1 DEF Binding
<1> QED
  BY <1>3, <1>4, <1>5 DEF Spanning

LEMMA ScopeUnbinding ==
    ASSUME NEW cn, NEW s, NEW q, ScopeFor(cn, s)
    PROVE  Unbinding(s.registrations, registrations) /\ Unbinding(Preserved(s, q).registrations, registrations)
<1>1. Unbinding(s.registrations, registrations)
  BY DEF ScopeFor, Unbinding, Within
<1>2. Preserved(s, q).registrations = s.registrations
  BY DEF ScopeFor, Preserved
<1> QED
  BY <1>1, <1>2

LEMMA DirectCallSpans ==
    ASSUME HolderInv, SpansInv, NEW g \in Callers, NEW c \in Connections, NEW tra \in Transactions,
           NEW method \in {"exec", "query"}, NEW q \in Queries, NEW mode \in Modes,
           DirectCall(g, c, tra, method, q, mode)
    PROVE  Spanning(g)
<1> DEFINE job == NewJob(c, tra, method, q, mode)
           cn == connection[c]
<1>1. PICK result \in Results(TRUE), markerOk \in BOOLEAN :
         /\ caller[g].pc = "idle"
         /\ Submit(g, job, IF result = "skip" THEN Preserved(ServerScope(cn, mode, markerOk), q)
                           ELSE ServerScope(cn, mode, markerOk), result, markerOk)
  BY DEF DirectCall
<1> DEFINE scope == ServerScope(cn, mode, markerOk)
           s == IF result = "skip" THEN Preserved(scope, q) ELSE scope
<1>2. job \in Jobs /\ job.op = ops + 1
  BY HolderFacts, NewJobIs
<1>3. ScopeFor(cn, scope)
  BY HolderFacts, ServerScopeIs DEF HolderInv
<1> HIDE DEF job, scope
<1>4. Unbinding(s.registrations, registrations)
  BY <1>3, ScopeUnbinding
<1>5. Submit(g, job, s, result, markerOk)
  BY <1>1 DEF job, scope
<1> HIDE DEF s, cn
<1> QED
  BY <1>1, <1>2, <1>4, <1>5, SubmitSpans

LEMMA StatementCallSpans ==
    ASSUME HolderInv, SpansInv, NEW g \in Callers, StatementCall(g)
    PROVE  Spanning(g)
<1>1. PICK result \in Results(FALSE), markerOk \in BOOLEAN,
           mode \in {caller[g].mode} \cup (Modes \cap {"disabled"}) :
         LET job == [caller[g] EXCEPT !.mode = mode]
         IN  /\ job.pc = "prepared"
             /\ Submit(g, job, StatementScope(job, connection[job.conn], markerOk), result, markerOk)
  BY DEF StatementCall
<1> DEFINE job == [caller[g] EXCEPT !.mode = mode]
           cn == connection[job.conn]
           s == StatementScope(job, cn, markerOk)
<1>2. caller[g] \in Jobs /\ caller[g].mode \in {"traced", "unsampled", "disabled"}
  BY HolderFacts DEF Jobs
<1>3. job \in Jobs /\ job.pc = caller[g].pc /\ job.conn = caller[g].conn /\ job.op = caller[g].op
  BY <1>2 DEF Jobs
<1>4. caller[g].pc = "prepared" /\ job.conn \in Connections
  BY <1>1, <1>3, HolderFacts
<1> HIDE DEF job
<1>5. cn \in ConnectionStates /\ cn.token \in Tokenish(issued) /\ cn.fallback \in Tokenish(issued)
  BY <1>4, HolderFacts
<1> HIDE DEF cn
<1>6. Unbinding(s.registrations, registrations)
  <2>1. CASE job.held = NoToken
    <3>1. s = ServerScope(cn, job.mode, markerOk)
      BY <2>1 DEF StatementScope
    <3>2. ScopeFor(cn, ServerScope(cn, job.mode, markerOk))
      BY <1>5, ServerScopeIs DEF HolderInv
    <3> QED
      BY <3>1, <3>2, ScopeUnbinding
  <2>2. CASE job.held # NoToken
    <3>1. s.registrations \in {registrations, Without(registrations, {job.held})}
      BY <2>2 DEF StatementScope
    <3> QED
      BY <3>1, WithoutUnbinding DEF Unbinding
  <2> QED
    BY <2>1, <2>2
<1>7. Submit(g, job, s, result, markerOk)
  BY <1>1 DEF job, cn
<1> HIDE DEF s
<1> QED
  BY <1>3, <1>4, <1>6, <1>7, SubmitSpans

LEMMA ReturnSpans ==
    ASSUME HolderInv, SpansInv, NEW g \in Callers, Return(g)
    PROVE  Spanning(g)
<1> DEFINE job == caller[g]
           opens == job.method = "query" /\ job.result = "ok"
           rows == [job EXCEPT !.pc = "rows", !.token = NoToken, !.cursor = TRUE]
           skipped == [job EXCEPT !.pc = "skipped", !.result = "ok"]
           new == CASE opens -> rows [] job.result = "skip" -> skipped [] OTHER -> Idle
<1>1. PICK recorded \in Recorded(job) :
      /\ job.pc = "calling"
      /\ registrations' = Finished(job, recorded)
      /\ caller' = [caller EXCEPT ![g] = new]
      /\ clientSpans' = IF job.result = "ok" /\ recorded THEN clientSpans \cup {job.op} ELSE clientSpans
  BY DEF Return
<1>2. job \in Jobs /\ job.op \in Spans
  BY <1>1, HolderFacts, OpsAreSpans
<1>3. /\ rows.pc = "rows" /\ rows.op = job.op
      /\ skipped.pc = "skipped" /\ skipped.op = job.op
      /\ Idle.pc = "idle"
  BY <1>2 DEF Jobs, Idle, NoOp
<1>4. \/ job.result # "skip" /\ new \in {rows, Idle}
      \/ job.result = "skip" /\ new = skipped
  <2>1. new = CASE opens -> rows [] job.result = "skip" -> skipped [] OTHER -> Idle
    OBVIOUS
  <2>2. ~ (opens /\ job.result = "skip")
    BY DEF opens
  <2> HIDE DEF new, job, rows, skipped, opens
  <2>3. CASE opens
    BY <2>1, <2>2, <2>3
  <2>4. CASE ~ opens
    BY <2>1, <2>4
  <2> QED
    BY <2>3, <2>4
<1> HIDE DEF rows, skipped, new
<1>5. Proceeds(g, new)
  <2>1. CASE new = skipped
    <3>1. clientSpans' = clientSpans
      BY <1>1, <1>3, <1>4, <2>1
    <3> QED
      BY <1>1, <1>3, <2>1, <3>1 DEF Proceeds, Unended
  <2>2. CASE new \in {rows, Idle}
    BY <1>1, <1>3, <2>2 DEF Proceeds, Unended
  <2> QED
    BY <1>4, <2>1, <2>2
<1>6. BoundIn(registrations', clientSpans') /\ Binding
  <2>1. BoundIn(registrations, clientSpans')
    BY <1>1 DEF SpansInv, BoundIn
  <2>2. CASE job.token # NoToken /\ job.result = "ok" /\ recorded
    <3>1. /\ registrations' = Bound(registrations, job.token, job.op)
          /\ job.op \in clientSpans'
      BY <1>1, <2>2 DEF Finished
    <3>2. \A t \in DOMAIN registrations : registrations[t] \in Scope
      BY HolderFacts DEF Small, IsRegistry
    <3>3. BoundIn(registrations', clientSpans')
      BY <1>2, <2>1, <3>1, <3>2 DEF Bound, With, BoundIn, Scope
    <3>4. job.op \in clientSpans' \ clientSpans
      BY <1>1, <3>1 DEF SpansInv, OpsOnce, Unended
    <3>5. CASE job.token \in DOMAIN registrations
      <4> DEFINE r1 == registrations'
      <4>1. r1 = With(registrations, job.token, [registrations[job.token] EXCEPT !.parent = job.op])
        BY <1>2, <3>1, <3>5 DEF Bound
      <4> HIDE DEF r1
      <4>2. \A u \in DOMAIN r1 :
               \/ u = job.token /\ r1[u].parent = job.op
               \/ u # job.token /\ u \in DOMAIN registrations /\ r1[u].parent = registrations[u].parent
        BY <1>2, <3>2, <3>5, <4>1 DEF With, Scope
      <4>3. BindsAt(job.token, job.op)
        BY <3>4, <4>2 DEF BindsAt, r1
      <4> QED
        BY <3>3, <4>3 DEF Binding
    <3>6. CASE job.token \notin DOMAIN registrations
      <4>1. registrations' = registrations
        BY <3>1, <3>6 DEF Bound
      <4> QED
        BY <3>3, <4>1 DEF Binding, Unbinding
    <3> QED
      BY <3>5, <3>6
  <2>3. CASE ~ (job.token # NoToken /\ job.result = "ok" /\ recorded)
    <3>1. registrations' \in {registrations, Without(registrations, {job.token})}
      BY <1>1, <2>3 DEF Finished
    <3>2. Unbinding(registrations', registrations)
      BY <3>1, WithoutUnbinding DEF Unbinding
    <3> QED
      BY <2>1, <3>2, UnbindingKeeps DEF Binding
  <2> QED
    BY <2>2, <2>3
<1> QED
  BY <1>5, <1>6 DEF Spanning

\* No span ends, and scopes are only discarded.
LEMMA QuietSpans ==
    ASSUME SpansInv, NEW g \in Callers, NEW job, Proceeds(g, job), clientSpans' = clientSpans,
           NEW T, registrations' \in {registrations, Without(registrations, T)}
    PROVE  Spanning(g)
<1>1. Unbinding(registrations', registrations)
  BY WithoutUnbinding DEF Unbinding
<1>2. BoundIn(registrations', clientSpans')
  BY <1>1, UnbindingKeeps DEF SpansInv
<1> QED
  BY <1>1, <1>2 DEF Spanning, Binding

LEMMA PrepareSpans ==
    ASSUME HolderInv, SpansInv, NEW g \in Callers,
           \/ Prepare(g) \/ PrepareFails(g)
           \/ \E c \in Connections, tra \in Transactions, method \in {"exec", "query"},
                 q \in Queries, mode \in Modes : PrepareFirst(g, c, tra, method, q, mode)
    PROVE  Spanning(g)
<1>1. Idle.pc = "idle"
  BY IdleIs
<1>2. CASE Prepare(g)
  <2> DEFINE job == caller[g]
             cn == connection[job.conn]
             new == [job EXCEPT !.pc = "prepared", !.held = Take(cn, job.query)]
             T == {cn.fallback} \ {Take(cn, job.query)}
  <2>1. /\ job.pc = "skipped" /\ job \in Jobs
        /\ caller' = [caller EXCEPT ![g] = new]
        /\ clientSpans' = clientSpans
        /\ registrations' = Without(registrations, T)
    BY <1>2, HolderFacts DEF Prepare
  <2>2. new.op = job.op
    BY <2>1 DEF Jobs
  <2> HIDE DEF new, T
  <2>3. Proceeds(g, new)
    BY <2>1, <2>2 DEF Proceeds, Unended
  <2> QED
    BY <2>1, <2>3, QuietSpans
<1>3. CASE PrepareFails(g)
  <2> DEFINE T == {connection[caller[g].conn].fallback}
  <2>1. /\ caller' = [caller EXCEPT ![g] = Idle]
        /\ clientSpans' = clientSpans
        /\ registrations' = Without(registrations, T)
    BY <1>3 DEF PrepareFails
  <2> HIDE DEF T
  <2>2. Proceeds(g, Idle)
    BY <1>1, <2>1 DEF Proceeds, Unended
  <2> QED
    BY <2>1, <2>2, QuietSpans
<1>4. ASSUME NEW c \in Connections, NEW tra \in Transactions, NEW method \in {"exec", "query"},
             NEW q \in Queries, NEW mode \in Modes, PrepareFirst(g, c, tra, method, q, mode)
      PROVE  Spanning(g)
  <2> DEFINE job == NewJob(c, tra, method, q, mode)
             cn == connection[c]
             new == [job EXCEPT !.pc = "prepared", !.held = Take(cn, q)]
             T == {cn.fallback} \ {Take(cn, q)}
  <2>1. /\ caller[g].pc = "idle"
        /\ caller' = [caller EXCEPT ![g] = new]
        /\ clientSpans' = clientSpans
        /\ registrations' = Without(registrations, T)
    BY <1>4 DEF PrepareFirst
  <2>2. job \in Jobs /\ job.op = ops + 1
    BY HolderFacts, NewJobIs
  <2> HIDE DEF job
  <2>3. new.op = ops + 1
    BY <2>2 DEF Jobs
  <2> HIDE DEF new, T
  <2>4. Proceeds(g, new)
    BY <2>1, <2>3 DEF Proceeds, Unended
  <2> QED
    BY <2>1, <2>4, QuietSpans
<1> QED
  BY <1>2, <1>3, <1>4

LEMMA LeavesSpans ==
    ASSUME HolderInv, SpansInv, NEW g \in Callers,
           GiveUpSkipped(g) \/ CloseStatement(g) \/ CursorEnds(g) \/ CloseRows(g)
    PROVE  Spanning(g)
<1>1. Idle.pc = "idle"
  BY IdleIs
<1>2. CASE GiveUpSkipped(g) \/ CloseStatement(g) \/ CloseRows(g)
  <2> DEFINE T == {caller[g].held}
  <2>1. /\ caller' = [caller EXCEPT ![g] = Idle]
        /\ clientSpans' = clientSpans
        /\ registrations' \in {registrations, Without(registrations, T)}
    BY <1>2 DEF GiveUpSkipped, CloseStatement, CloseRows, regVars
  <2> HIDE DEF T
  <2>2. Proceeds(g, Idle)
    BY <1>1, <2>1 DEF Proceeds, Unended
  <2> QED
    BY <2>1, <2>2, QuietSpans
<1>3. CASE CursorEnds(g)
  <2> DEFINE new == [caller[g] EXCEPT !.cursor = FALSE]
  <2>1. /\ caller[g].pc = "rows" /\ caller[g] \in Jobs
        /\ caller' = [caller EXCEPT ![g] = new]
        /\ clientSpans' = clientSpans /\ registrations' = registrations
    BY <1>3, HolderFacts DEF CursorEnds, regVars
  <2>2. new.pc = "rows" /\ new.op = caller[g].op
    BY <2>1 DEF Jobs
  <2> HIDE DEF new
  <2>3. Proceeds(g, new)
    BY <2>1, <2>2 DEF Proceeds, Unended
  <2> QED
    BY <2>1, <2>3, QuietSpans
<1> QED
  BY <1>2, <1>3

LEMMA ClientStepSpans ==
    ASSUME HolderInv, SpansInv, NEW g \in Callers, ClientStep(g)
    PROVE  Spanning(g)
<1>1. ASSUME NEW c \in Connections, NEW tra \in Transactions, NEW method \in {"exec", "query"},
             NEW q \in Queries, NEW mode \in Modes, DirectCall(g, c, tra, method, q, mode)
      PROVE  Spanning(g)
  BY <1>1, DirectCallSpans
<1>2. CASE StatementCall(g)
  BY <1>2, StatementCallSpans
<1>3. CASE Return(g)
  BY <1>3, ReturnSpans
<1>4. CASE \/ Prepare(g) \/ PrepareFails(g)
           \/ \E c \in Connections, tra \in Transactions, method \in {"exec", "query"},
                 q \in Queries, mode \in Modes : PrepareFirst(g, c, tra, method, q, mode)
  BY <1>4, PrepareSpans
<1>5. CASE GiveUpSkipped(g) \/ CloseStatement(g) \/ CursorEnds(g) \/ CloseRows(g)
  BY <1>5, LeavesSpans
<1> QED
  BY <1>1, <1>2, <1>3, <1>4, <1>5 DEF ClientStep

LEMMA SpansStep ==
    ASSUME HolderInv, CallsCounted, SpansInv, [Next]_vars
    PROVE  /\ SpansInv' /\ Binding
           /\ clientSpans' = clientSpans \/ (UNCHANGED consumerVars /\ \E g \in Callers : Ending(g))
<1>1. ASSUME NEW g \in Callers, ClientStep(g)
      PROVE  SpansInv' /\ Binding /\ Ending(g)
  <2>1. Spanning(g)
    BY <1>1, ClientStepSpans
  <2>2. PICK job : Proceeds(g, job)
    BY <2>1 DEF Spanning
  <2>3. OpsOnce' /\ Ending(g)
    BY <2>2, ProceedsKeeps DEF SpansInv
  <2> QED
    BY <2>1, <2>3 DEF Spanning, SpansInv
<1>2. ASSUME UNCHANGED <<caller, clientSpans>>, Unbinding(registrations', registrations)
      PROVE  SpansInv' /\ Binding
  <2>1. OpsOnce'
    BY <1>2 DEF SpansInv, OpsOnce
  <2>2. BoundIn(registrations', clientSpans')
    BY <1>2, UnbindingKeeps DEF SpansInv
  <2> QED
    BY <1>2, <2>1, <2>2 DEF SpansInv, Binding
<1>3. CASE ClientNext
  <2>1. CASE \E g \in Callers : ClientStep(g)
    BY <1>1, <1>3, <2>1 DEF ClientNext
  <2>2. CASE \E c \in Connections : CloseConnection(c)
    <3>1. UNCHANGED <<caller, clientSpans>> /\ \E T : registrations' = Without(registrations, T)
      BY <2>2 DEF CloseConnection
    <3> QED
      BY <1>2, <3>1, WithoutUnbinding
  <2> QED
    BY <1>3, <2>1, <2>2 DEF ClientNext
<1>4. CASE ConsumerNext
  <2>1. Within(registrations', registrations)
    BY <1>4, ConsumerShrinks DEF ConsumerNext
  <2>2. UNCHANGED <<caller, clientSpans>>
    BY <1>4 DEF ConsumerNext, clientVars
  <2> QED
    BY <1>2, <2>1, <2>2 DEF Unbinding, Within
<1>5. CASE StrayRecord \/ StreamEnds \/ ChannelOverflows \/ ShutdownBegins \/ UNCHANGED vars
  <2>1. UNCHANGED <<caller, clientSpans, registrations>>
    BY <1>5 DEF StrayRecord, StreamEnds, ChannelOverflows, ShutdownBegins, BeginShutdown, vars, regVars,
                clientVars
  <2> QED
    BY <1>2, <2>1 DEF Unbinding
<1>6. CASE \E t \in DOMAIN registrations : ScopeElapses(t)
  <2>1. PICK t \in DOMAIN registrations : ScopeElapses(t)
    BY <1>6
  <2>2. /\ registrations' = [registrations EXCEPT ![t].expired = TRUE]
        /\ UNCHANGED <<caller, clientSpans>>
    BY <2>1 DEF ScopeElapses, Elapse, clientVars
  <2>3. \A u \in DOMAIN registrations : registrations[u] \in Scope
    BY HolderFacts DEF Small, IsRegistry
  <2>4. DOMAIN registrations' = DOMAIN registrations
        /\ \A u \in DOMAIN registrations : registrations'[u].parent = registrations[u].parent
    BY <2>2, <2>3 DEF Scope
  <2> QED
    BY <1>2, <2>2, <2>4 DEF Unbinding
<1> QED
  BY <1>3, <1>4, <1>5, <1>6 DEF Next

LEMMA SpansStart == Init => SpansInv
<1> SUFFICES ASSUME Init PROVE SpansInv
  OBVIOUS
<1>1. /\ clientSpans = {} /\ DOMAIN registrations = {}
      /\ caller = [g \in Callers |-> Idle]
  BY DEF Init, ClientInit
<1>2. Idle.pc = "idle"
  BY IdleIs
<1> QED
  BY <1>1, <1>2 DEF SpansInv, OpsOnce, BoundIn, Unended
-----------------------------------------------------------------------------
(* Overlapping cursors. *)

\* A call that finds no rows open on its connection gets a scope: Register
\* admits it, and its marker succeeds.
CallsScoped ==
    \A g \in Callers :
        caller[g].pc # "calling" /\ caller'[g].pc = "calling" =>
            caller'[g].token # NoToken \/ connection[caller'[g].conn].rows > 0

\* No call was ever skipped, and no token waits for a second call.
NothingSkipped(cs, cn) ==
    /\ \A g \in Callers : cs[g].held = NoToken /\ cs[g].pc # "skipped" /\ cs[g].result # "skip"
    /\ \A c \in Connections : cn[c].fallback = NoToken

\* A connection remembers a token of its own.
OwnTokens(cn) ==
    \A c, d \in Connections : cn[c].token = cn[d].token /\ cn[c].token # NoToken => c = d

\* A call runs alone on its connection.
Alone(cs) ==
    \A g, h \in Callers :
        cs[g].pc = "calling" /\ cs[h].pc = "calling" /\ cs[g].conn = cs[h].conn => g = h

\* The token of the running call is the one the connection remembers; a call
\* beside open rows has none, and the one remembered is discarded.
Suppresses(job, r, cn) ==
    IF cn[job.conn].rows = 0
    THEN job.token # NoToken /\ job.token = cn[job.conn].token
    ELSE job.token = NoToken /\ cn[job.conn].token \notin DOMAIN r

\* The scope the connection remembers is that of its one cursor.
CursorScope(r, cs, cn, c) ==
    /\ cn[c].rows > 1 => cn[c].token \notin DOMAIN r
    /\ cn[c].rows > 0 /\ cn[c].token \in DOMAIN r =>
          \E g \in Callers : cs[g].pc = "rows" /\ cs[g].conn = c /\ cs[g].op = r[cn[c].token].parent

Overlapping(r, cs, cn) ==
    /\ NothingSkipped(cs, cn)
    /\ OwnTokens(cn)
    /\ Alone(cs)
    /\ \A g \in Callers : cs[g].pc = "calling" => Suppresses(cs[g], r, cn)
    /\ \A c \in Connections : CursorScope(r, cs, cn, c)

OverlapInv == Overlapping(registrations, caller, connection)

\* The registry alone moves.
LEMMA FewerOverlap ==
    ASSUME NEW r1, NEW r, NEW cs, NEW cn, Within(r1, r), Overlapping(r, cs, cn)
    PROVE  Overlapping(r1, cs, cn)
<1>1. \A g \in Callers : cs[g].pc = "calling" => Suppresses(cs[g], r1, cn)
  BY DEF Overlapping, Within, Suppresses
<1>2. \A c \in Connections : CursorScope(r1, cs, cn, c)
  BY DEF Overlapping, Within, CursorScope
<1> QED
  BY <1>1, <1>2 DEF Overlapping

\* A caller moves between the calls.
LEMMA BetweenCalls ==
    ASSUME HolderInv, OverlapInv, NEW g \in Callers, NEW job, NEW cn,
           caller' = [caller EXCEPT ![g] = job],
           caller[g].pc # "calling", job.pc \notin {"calling", "skipped"},
           job.held = NoToken, job.result # "skip",
           caller[g].pc = "rows" => job.pc = "rows" /\ job.conn = caller[g].conn /\ job.op = caller[g].op,
           Within(registrations', registrations),
           \A c \in Connections :
              connection'[c].rows = connection[c].rows /\ connection'[c].token = connection[c].token
              /\ connection'[c].fallback = NoToken
    PROVE  OverlapInv'
<1>1. \A h \in Callers : caller'[h] = IF h = g THEN job ELSE caller[h]
  BY DEF HolderInv, ClientTyped
<1>2. NothingSkipped(caller', connection') /\ OwnTokens(connection') /\ Alone(caller')
  BY <1>1 DEF OverlapInv, Overlapping, NothingSkipped, OwnTokens, Alone
<1>3. ASSUME NEW h \in Callers, caller'[h].pc = "calling"
      PROVE  Suppresses(caller'[h], registrations', connection')
  <2>1. h # g /\ caller'[h] = caller[h]
    BY <1>1, <1>3
  <2>2. Suppresses(caller[h], registrations, connection)
    BY <1>3, <2>1 DEF OverlapInv, Overlapping
  <2>3. caller[h].conn \in Connections
    BY <1>3, <2>1, HolderFacts
  <2> QED
    BY <2>1, <2>2, <2>3 DEF Suppresses, Within
<1>4. ASSUME NEW c \in Connections
      PROVE  CursorScope(registrations', caller', connection', c)
  <2>1. CursorScope(registrations, caller, connection, c)
    BY DEF OverlapInv, Overlapping
  <2>2. ASSUME connection[c].rows > 0, connection[c].token \in DOMAIN registrations'
        PROVE  \E h \in Callers : /\ caller'[h].pc = "rows" /\ caller'[h].conn = c
                                  /\ caller'[h].op = registrations'[connection[c].token].parent
    <3>1. /\ connection[c].token \in DOMAIN registrations
          /\ registrations'[connection[c].token].parent = registrations[connection[c].token].parent
      BY <2>2 DEF Within
    <3>2. PICK h \in Callers : /\ caller[h].pc = "rows" /\ caller[h].conn = c
                               /\ caller[h].op = registrations[connection[c].token].parent
      BY <2>1, <2>2, <3>1 DEF CursorScope
    <3> QED
      BY <1>1, <3>1, <3>2
  <2> QED
    BY <2>1, <2>2 DEF CursorScope, Within
<1> QED
  BY <1>2, <1>3, <1>4 DEF OverlapInv, Overlapping

\* serverScope beside open rows discards the token the connection remembers;
\* otherwise the connection remembers the token it hands out.
LEMMA ScopeRemembered ==
    ASSUME RegistrySound, NEW cn \in ConnectionStates, NEW mode, NEW markerOk \in BOOLEAN
    PROVE  LET s == ServerScope(cn, mode, markerOk)
           IN  IF cn.rows > 0
               THEN /\ s.token = NoToken /\ s.connection.token = cn.token
                    /\ cn.token \notin DOMAIN s.registrations
               ELSE s.token # NoToken => s.connection.token = s.token
<1> DEFINE emptied == [cn EXCEPT !.fallback = NoToken]
           s == ServerScope(cn, mode, markerOk)
<1>1. emptied.token = cn.token /\ [emptied EXCEPT !.token = issued + 1].token = issued + 1
  BY DEF ConnectionStates
<1>2. CASE cn.rows > 0
  <2>1. s = [registrations |-> Without(registrations, {cn.fallback, cn.token}),
             issued |-> issued, token |-> NoToken, connection |-> emptied]
    BY <1>2 DEF ServerScope, Overlaps
  <2>2. cn.token \notin DOMAIN Without(registrations, {cn.fallback, cn.token})
    BY DEF Without
  <2> HIDE DEF emptied, s
  <2>3. s.token = NoToken /\ s.connection = emptied
        /\ s.registrations = Without(registrations, {cn.fallback, cn.token})
    BY <2>1
  <2> QED
    BY <1>1, <1>2, <2>2, <2>3 DEF s
<1>3. CASE ~ (cn.rows > 0)
  <2>1. \/ s.token = NoToken
        \/ s.token = issued + 1 /\ s.connection = [emptied EXCEPT !.token = issued + 1]
    BY <1>3 DEF ServerScope, Overlaps
  <2> HIDE DEF emptied, s
  <2>2. s.token # NoToken => s.connection.token = s.token
    BY <1>1, <2>1
  <2> QED
    BY <1>3, <2>2 DEF s
<1> QED
  BY <1>2, <1>3

LEMMA SubmitOverlaps ==
    ASSUME HolderInv, CallsCounted, OverlapInv, NEW g \in Callers, NEW job \in Jobs, NEW s, NEW markerOk,
           NEW result, Submit(g, job, s, result, markerOk), result # "skip",
           job.conn \in Connections, caller[g].pc \notin {"calling", "rows"},
           ScopeFor(connection[job.conn], s),
           s.connection.rows = connection[job.conn].rows,
           IF connection[job.conn].rows > 0
           THEN /\ s.token = NoToken /\ s.connection.token = connection[job.conn].token
                /\ connection[job.conn].token \notin DOMAIN s.registrations
           ELSE s.token # NoToken => s.connection.token = s.token,
           CallsScoped
    PROVE  OverlapInv'
<1> DEFINE a == job.conn
           new == [job EXCEPT !.pc = "calling", !.token = s.token, !.held = NoToken, !.result = result]
<1>1. /\ caller' = [caller EXCEPT ![g] = new]
      /\ connection' = [connection EXCEPT ![a] = s.connection]
      /\ registrations' = s.registrations
      /\ Free(a)
  BY DEF Submit
<1>2. /\ new.pc = "calling" /\ new.conn = a /\ new.token = s.token /\ new.held = NoToken
      /\ new.result = result
  BY DEF Jobs
<1> HIDE DEF new, a
<1>3. \A h \in Callers : caller'[h] = IF h = g THEN new ELSE caller[h]
  BY <1>1 DEF HolderInv, ClientTyped
<1>4. \A c \in Connections : connection'[c] = IF c = a THEN s.connection ELSE connection[c]
  BY <1>1 DEF HolderInv, ClientTyped
<1>5. /\ a \in Connections /\ issued \in Nat /\ NoToken \notin Nat
      /\ \A c \in Connections : connection[c].token \in (1..issued) \cup {NoToken} /\ connection[c].rows \in Nat
      /\ DOMAIN registrations \subseteq 1..issued
  <2>1. \A c \in Connections : connection[c].rows \in Nat
    <3>1. \A c : IsFiniteSet(Reading(caller, c))
      BY CallersAssumption, FS_Subset DEF Reading
    <3> QED
      BY <3>1, FS_CardinalityType DEF CallsCounted
  <2> QED
    BY <2>1, HolderFacts DEF a, Tokenish
<1>6. \/ /\ connection[a].rows > 0 /\ s.token = NoToken /\ s.connection.token = connection[a].token
         /\ connection[a].token \notin DOMAIN registrations'
         /\ Within(registrations', registrations)
      \/ /\ connection[a].rows = 0 /\ s.token = issued + 1 /\ s.connection.token = issued + 1
         /\ \A t \in DOMAIN registrations' :
               \/ t = issued + 1
               \/ /\ t \in DOMAIN registrations
                  /\ registrations'[t].parent = registrations[t].parent
  <2>1. CASE connection[a].rows > 0
    BY <1>1, <1>5, <2>1 DEF ScopeFor, a
  <2>2. CASE ~ (connection[a].rows > 0)
    <3>1. connection[a].rows = 0
      BY <1>5, <2>2
    <3>2. s.token # NoToken
      BY <1>2, <1>3, <2>2 DEF CallsScoped
    <3> QED
      BY <1>1, <2>2, <3>1, <3>2 DEF ScopeFor, a
  <2> QED
    BY <2>1, <2>2
<1>7. s.connection.rows = connection[a].rows /\ s.connection.fallback = NoToken
  BY DEF ScopeFor, a
<1>8. NothingSkipped(caller', connection')
  BY <1>2, <1>3, <1>4, <1>7 DEF OverlapInv, Overlapping, NothingSkipped
<1>9. OwnTokens(connection')
  <2>1. issued + 1 \notin 1..issued
    BY <1>5
  <2> QED
    BY <1>4, <1>5, <1>6, <2>1 DEF OverlapInv, Overlapping, OwnTokens
<1>10. Alone(caller')
  BY <1>1, <1>2, <1>3 DEF OverlapInv, Overlapping, Alone, Free
<1>11. ASSUME NEW h \in Callers, caller'[h].pc = "calling"
       PROVE  Suppresses(caller'[h], registrations', connection')
  <2>1. CASE h = g
    <3>1. caller'[h] = new /\ connection'[new.conn] = s.connection
      BY <1>2, <1>3, <1>4, <1>5, <2>1
    <3>2. connection[a].rows > 0 => connection[a].rows # 0
      BY <1>5
    <3>3. issued + 1 # NoToken
      BY <1>5
    <3> QED
      BY <1>2, <1>6, <1>7, <3>1, <3>2, <3>3 DEF Suppresses
  <2>2. CASE h # g
    <3>1. caller'[h] = caller[h] /\ caller[h].conn # a /\ caller[h].conn \in Connections
      BY <1>1, <1>3, <1>11, <2>2, HolderFacts DEF Free
    <3>2. Suppresses(caller[h], registrations, connection)
      BY <1>11, <3>1 DEF OverlapInv, Overlapping
    <3>3. connection'[caller[h].conn] = connection[caller[h].conn]
      BY <1>4, <3>1
    <3>4. connection[caller[h].conn].token # issued + 1
      BY <1>5, <3>1
    <3> QED
      BY <1>6, <3>1, <3>2, <3>3, <3>4 DEF Suppresses, Within
  <2> QED
    BY <2>1, <2>2
<1>12. ASSUME NEW c \in Connections
       PROVE  CursorScope(registrations', caller', connection', c)
  <2>1. CursorScope(registrations, caller, connection, c)
    BY DEF OverlapInv, Overlapping
  <2>2. CASE c = a
    <3>1. connection'[c] = s.connection
      BY <1>4, <2>2
    <3>2. connection'[c].rows > 0 => connection'[c].token \notin DOMAIN registrations'
      BY <1>6, <1>7, <2>2, <3>1
    <3>3. connection'[c].rows \in Nat
      BY <1>5, <1>7, <3>1
    <3> QED
      BY <3>2, <3>3 DEF CursorScope
  <2>3. CASE c # a
    <3>1. connection'[c] = connection[c] /\ connection[c].token # issued + 1
      BY <1>4, <1>5, <2>3
    <3>2. connection[c].token \in DOMAIN registrations' =>
             /\ connection[c].token \in DOMAIN registrations
             /\ registrations'[connection[c].token].parent = registrations[connection[c].token].parent
      BY <1>6, <3>1 DEF Within
    <3>3. \A h \in Callers : caller[h].pc = "rows" => caller'[h] = caller[h]
      BY <1>3
    <3> QED
      BY <2>1, <3>1, <3>2, <3>3 DEF CursorScope
  <2> QED
    BY <2>2, <2>3
<1> QED
  BY <1>8, <1>9, <1>10, <1>11, <1>12 DEF OverlapInv, Overlapping

LEMMA DirectCallOverlaps ==
    ASSUME HolderInv, CallsCounted, OverlapInv, ~ Skips, CallsScoped,
           NEW g \in Callers, NEW c \in Connections, NEW tra \in Transactions,
           NEW method \in {"exec", "query"}, NEW q \in Queries, NEW mode \in Modes,
           DirectCall(g, c, tra, method, q, mode)
    PROVE  OverlapInv'
<1> DEFINE job == NewJob(c, tra, method, q, mode)
           cn == connection[c]
<1>1. PICK result \in Results(TRUE), markerOk \in BOOLEAN :
         /\ caller[g].pc = "idle"
         /\ Submit(g, job, IF result = "skip" THEN Preserved(ServerScope(cn, mode, markerOk), q)
                           ELSE ServerScope(cn, mode, markerOk), result, markerOk)
  BY DEF DirectCall
<1> DEFINE scope == ServerScope(cn, mode, markerOk)
<1>2. result # "skip"
  BY DEF Results
<1>3. job \in Jobs /\ job.conn = c
  BY HolderFacts, NewJobIs
<1>4. ScopeFor(cn, scope) /\ scope.connection.rows = cn.rows
  BY HolderFacts, ServerScopeIs, ScopeKeepsRows DEF HolderInv
<1>5. IF cn.rows > 0
      THEN /\ scope.token = NoToken /\ scope.connection.token = cn.token
           /\ cn.token \notin DOMAIN scope.registrations
      ELSE scope.token # NoToken => scope.connection.token = scope.token
  BY HolderFacts, ScopeRemembered DEF HolderInv
<1> HIDE DEF job, scope
<1>6. Submit(g, job, scope, result, markerOk)
  BY <1>1, <1>2 DEF job, scope
<1> QED
  BY <1>1, <1>2, <1>3, <1>4, <1>5, <1>6, SubmitOverlaps

LEMMA StatementCallOverlaps ==
    ASSUME HolderInv, CallsCounted, OverlapInv, CallsScoped, NEW g \in Callers, StatementCall(g)
    PROVE  OverlapInv'
<1>1. PICK result \in Results(FALSE), markerOk \in BOOLEAN,
           mode \in {caller[g].mode} \cup (Modes \cap {"disabled"}) :
         LET job == [caller[g] EXCEPT !.mode = mode]
         IN  /\ job.pc = "prepared"
             /\ Submit(g, job, StatementScope(job, connection[job.conn], markerOk), result, markerOk)
  BY DEF StatementCall
<1> DEFINE job == [caller[g] EXCEPT !.mode = mode]
           cn == connection[job.conn]
           scope == ServerScope(cn, job.mode, markerOk)
<1>2. caller[g] \in Jobs /\ caller[g].mode \in {"traced", "unsampled", "disabled"} /\ caller[g].held = NoToken
  BY HolderFacts DEF Jobs, OverlapInv, Overlapping, NothingSkipped
<1>3. job \in Jobs /\ job.pc = caller[g].pc /\ job.conn = caller[g].conn /\ job.held = NoToken
  BY <1>2 DEF Jobs
<1>4. caller[g].pc = "prepared" /\ job.conn \in Connections
  BY <1>1, <1>3, HolderFacts
<1>5. result # "skip"
  BY DEF Results
<1> HIDE DEF job
<1>6. ScopeFor(cn, scope) /\ scope.connection.rows = cn.rows
  BY <1>4, HolderFacts, ServerScopeIs, ScopeKeepsRows DEF HolderInv
<1>7. IF cn.rows > 0
      THEN /\ scope.token = NoToken /\ scope.connection.token = cn.token
           /\ cn.token \notin DOMAIN scope.registrations
      ELSE scope.token # NoToken => scope.connection.token = scope.token
  BY <1>4, HolderFacts, ScopeRemembered DEF HolderInv
<1>8. StatementScope(job, cn, markerOk) = scope
  BY <1>3 DEF StatementScope
<1>9. Submit(g, job, scope, result, markerOk)
  BY <1>1, <1>8 DEF job, cn
<1> HIDE DEF scope
<1> QED
  BY <1>3, <1>4, <1>5, <1>6, <1>7, <1>9, SubmitOverlaps

\* finish, for a call whose token the connection remembers: the scope is bound
\* to the operation, or gone.
LEMMA FinishedOwn ==
    ASSUME HolderInv, NEW g \in Callers, caller[g].pc = "calling", NEW recorded \in BOOLEAN,
           NEW r, r = Finished(caller[g], recorded)
    PROVE  /\ \A t \in DOMAIN r :
                 /\ t \in DOMAIN registrations
                 /\ t # caller[g].token => r[t].parent = registrations[t].parent
                 /\ t = caller[g].token => r[t].parent = caller[g].op
           /\ caller[g].token = NoToken => r = registrations
<1> DEFINE job == caller[g]
           tk == job.token
<1>1. /\ NoToken \notin Nat /\ DOMAIN registrations \subseteq Nat /\ job.op \in Spans
      /\ \A t \in DOMAIN registrations : registrations[t] \in Scope
  BY HolderFacts, OpsAreSpans DEF Small, IsRegistry
<1>2. CASE tk = NoToken
  BY <1>1, <1>2 DEF Finished
<1>3. CASE tk # NoToken /\ job.result = "ok" /\ recorded
  <2>1. r = Bound(registrations, tk, job.op)
    BY <1>3 DEF Finished
  <2>2. CASE tk \notin DOMAIN registrations
    BY <1>3, <2>1, <2>2 DEF Bound
  <2>3. CASE tk \in DOMAIN registrations
    <3> DEFINE sc == [registrations[tk] EXCEPT !.parent = job.op]
    <3>1. r = With(registrations, tk, sc)
      BY <1>1, <2>1, <2>3 DEF Bound
    <3>2. sc.parent = job.op
      BY <1>1, <2>3 DEF Scope
    <3> HIDE DEF sc, tk
    <3>3. DOMAIN r = DOMAIN registrations /\ \A u \in DOMAIN r : r[u] = IF u = tk THEN sc ELSE registrations[u]
      BY <2>3, <3>1 DEF With
    <3>4. tk # NoToken
      BY <1>3
    <3>5. ASSUME NEW t \in DOMAIN r
          PROVE  /\ t \in DOMAIN registrations
                 /\ t # tk => r[t].parent = registrations[t].parent
                 /\ t = tk => r[t].parent = job.op
      BY <3>2, <3>3
    <3> QED
      BY <3>4, <3>5 DEF tk
  <2> QED
    BY <2>2, <2>3
<1>4. CASE tk # NoToken /\ ~ (job.result = "ok" /\ recorded)
  <2>1. r = Without(registrations, {tk})
    BY <1>4 DEF Finished
  <2> QED
    BY <1>4, <2>1 DEF Without
<1> QED
  BY <1>2, <1>3, <1>4

LEMMA ReturnOverlaps ==
    ASSUME HolderInv, CallsCounted, OverlapInv, NEW g \in Callers, Return(g)
    PROVE  OverlapInv'
<1> DEFINE job == caller[g]
           a == job.conn
           opens == job.method = "query" /\ job.result = "ok"
           rows == [job EXCEPT !.pc = "rows", !.token = NoToken, !.cursor = TRUE]
           skipped == [job EXCEPT !.pc = "skipped", !.result = "ok"]
           new == CASE opens -> rows [] job.result = "skip" -> skipped [] OTHER -> Idle
           opened == [connection EXCEPT ![a].rows = @ + 1]
<1>1. PICK recorded \in Recorded(job) :
      /\ job.pc = "calling"
      /\ registrations' = Finished(job, recorded)
      /\ connection' = IF opens THEN opened ELSE connection
      /\ caller' = [caller EXCEPT ![g] = new]
  BY DEF Return
<1>2. /\ job \in Jobs /\ a \in Connections /\ job.held = NoToken /\ job.result # "skip"
      /\ recorded \in BOOLEAN
      /\ Suppresses(job, registrations, connection)
  <2>1. job.mode \in {"traced", "unsampled", "disabled"}
    BY HolderFacts DEF Jobs
  <2>2. recorded \in BOOLEAN
    BY <2>1 DEF Recorded
  <2> QED
    BY <1>1, <2>2, HolderFacts DEF OverlapInv, Overlapping, NothingSkipped
<1>3. /\ rows.pc = "rows" /\ rows.op = job.op /\ rows.conn = a /\ rows.held = NoToken /\ rows.result = job.result
      /\ Idle.pc = "idle" /\ Idle.held = NoToken /\ Idle.result = "ok"
  BY <1>2 DEF Jobs, Idle, NoOp
<1>4. new = IF opens THEN rows ELSE Idle
  BY <1>2
<1>5. /\ new.pc \in {"rows", "idle"} /\ new.held = NoToken /\ new.result # "skip"
      /\ opens => new.pc = "rows" /\ new.op = job.op /\ new.conn = a
  BY <1>2, <1>3, <1>4
<1>6. /\ \A c \in Connections : c # a => connection'[c] = connection[c]
      /\ connection'[a].token = connection[a].token /\ connection'[a].fallback = connection[a].fallback
      /\ connection'[a].rows = connection[a].rows + IF opens THEN 1 ELSE 0
      /\ connection[a].rows \in Nat
  <2>1. connection \in [Connections -> ConnectionStates]
    BY DEF HolderInv, ClientTyped
  <2>2. connection[a] \in ConnectionStates
    BY <1>2, <2>1
  <2>3. connection[a].rows \in Nat
    <3>1. \A c : IsFiniteSet(Reading(caller, c))
      BY CallersAssumption, FS_Subset DEF Reading
    <3> QED
      BY <1>2, <3>1, FS_CardinalityType DEF CallsCounted
  <2> HIDE DEF opens, job, a
  <2>4. CASE opens
    <3>1. connection' = opened
      BY <1>1, <2>4
    <3> QED
      BY <1>2, <2>1, <2>2, <2>3, <2>4, <3>1 DEF ConnectionStates
  <2>5. CASE ~ opens
    <3>1. connection' = connection
      BY <1>1, <2>5
    <3> QED
      BY <2>3, <2>5, <3>1
  <2> QED
    BY <2>4, <2>5
<1> HIDE DEF rows, skipped, new, opened
<1>7. \A h \in Callers : caller'[h] = IF h = g THEN new ELSE caller[h]
  BY <1>1 DEF HolderInv, ClientTyped
<1>8. /\ \A t \in DOMAIN registrations' :
            /\ t \in DOMAIN registrations
            /\ t # job.token => registrations'[t].parent = registrations[t].parent
            /\ t = job.token => registrations'[t].parent = job.op
      /\ job.token = NoToken => registrations' = registrations
  <2>1. /\ caller[g].pc = "calling" /\ recorded \in BOOLEAN
        /\ registrations' = Finished(caller[g], recorded)
    BY <1>1, <1>2
  <2> HIDE DEF job
  <2>2. \A r : r = Finished(caller[g], recorded) =>
           /\ \A t \in DOMAIN r :
                 /\ t \in DOMAIN registrations
                 /\ t # caller[g].token => r[t].parent = registrations[t].parent
                 /\ t = caller[g].token => r[t].parent = caller[g].op
           /\ caller[g].token = NoToken => r = registrations
    BY <2>1, FinishedOwn
  <2> QED
    BY <2>1, <2>2 DEF job
<1>9. \A h \in Callers : h # g /\ caller[h].pc = "calling" => caller[h].conn # a /\ caller[h].conn \in Connections
  BY <1>1, HolderFacts DEF OverlapInv, Overlapping, Alone
<1>10. NothingSkipped(caller', connection')
  BY <1>5, <1>6, <1>7 DEF OverlapInv, Overlapping, NothingSkipped
<1>11. \A c \in Connections : connection'[c].token = connection[c].token
  BY <1>6
<1>12. OwnTokens(connection')
  BY <1>11 DEF OverlapInv, Overlapping, OwnTokens
<1>13. Alone(caller')
  BY <1>5, <1>7 DEF OverlapInv, Overlapping, Alone
<1>14. ASSUME NEW h \in Callers, caller'[h].pc = "calling"
       PROVE  Suppresses(caller'[h], registrations', connection')
  <2>1. h # g /\ caller'[h] = caller[h] /\ caller[h].conn # a
        /\ connection'[caller[h].conn] = connection[caller[h].conn]
    BY <1>5, <1>6, <1>7, <1>9, <1>14
  <2>2. Suppresses(caller[h], registrations, connection)
    BY <1>14, <2>1 DEF OverlapInv, Overlapping
  <2> QED
    BY <1>8, <2>1, <2>2 DEF Suppresses
<1>15. ASSUME NEW c \in Connections
       PROVE  CursorScope(registrations', caller', connection', c)
  <2>1. CursorScope(registrations, caller, connection, c)
    BY DEF OverlapInv, Overlapping
  <2>2. CASE c # a
    <3>1. connection'[c] = connection[c]
      BY <1>6, <2>2
    <3>2. connection[c].token \in DOMAIN registrations => connection[c].token # job.token
      <4>1. connection[c].token \in DOMAIN registrations => connection[c].token # NoToken
        BY HolderFacts
      <4> QED
        BY <1>2, <2>2, <4>1 DEF Suppresses, OverlapInv, Overlapping, OwnTokens
    <3>3. connection[c].token \in DOMAIN registrations' =>
             /\ connection[c].token \in DOMAIN registrations
             /\ registrations'[connection[c].token].parent = registrations[connection[c].token].parent
      BY <1>8, <3>2
    <3>4. \A h \in Callers : caller[h].pc = "rows" => caller'[h] = caller[h]
      BY <1>1, <1>7
    <3> QED
      BY <2>1, <3>1, <3>3, <3>4 DEF CursorScope
  <2>3. CASE c = a /\ connection[a].rows = 0
    <3>1. job.token = connection[a].token
      BY <1>2, <2>3 DEF Suppresses
    <3>2. connection'[a].rows > 0 => opens
      BY <1>6, <2>3
    <3>3. ~ (connection'[a].rows > 1)
      BY <1>6, <2>3
    <3>4. opens => caller'[g].pc = "rows" /\ caller'[g].op = job.op /\ caller'[g].conn = a
      BY <1>5, <1>7
    <3> QED
      BY <1>6, <1>8, <2>3, <3>1, <3>2, <3>3, <3>4 DEF CursorScope
  <2>4. CASE c = a /\ connection[a].rows # 0
    <3>1. connection[a].token \notin DOMAIN registrations'
      BY <1>2, <1>8, <2>4 DEF Suppresses
    <3> QED
      BY <1>6, <2>4, <3>1 DEF CursorScope
  <2> QED
    BY <2>2, <2>3, <2>4
<1> QED
  BY <1>10, <1>12, <1>13, <1>14, <1>15 DEF OverlapInv, Overlapping

LEMMA CloseRowsOverlaps ==
    ASSUME HolderInv, OverlapInv, NEW g \in Callers, CloseRows(g)
    PROVE  OverlapInv'
<1> DEFINE a == caller[g].conn
<1>1. /\ caller[g].pc = "rows" /\ Free(a) /\ registrations' = registrations
      /\ connection' = [connection EXCEPT ![a] = Released(@)]
      /\ caller' = [caller EXCEPT ![g] = Idle]
  BY DEF CloseRows, regVars
<1>2. a \in Connections /\ connection[a] \in ConnectionStates
  BY <1>1, HolderFacts
<1>3. /\ Released(connection[a]).rows = connection[a].rows - 1
      /\ Released(connection[a]).token = connection[a].token
      /\ Released(connection[a]).fallback = connection[a].fallback
      /\ connection[a].rows \in Int
  BY <1>2 DEF Released, ConnectionStates
<1>4. \A h \in Callers : caller'[h] = IF h = g THEN Idle ELSE caller[h]
  BY <1>1 DEF HolderInv, ClientTyped
<1>5. \A c \in Connections : connection'[c] = IF c = a THEN Released(connection[a]) ELSE connection[c]
  BY <1>1 DEF HolderInv, ClientTyped
<1>6. Idle.pc = "idle" /\ Idle.held = NoToken /\ Idle.result = "ok"
  BY DEF Idle
<1> HIDE DEF a
<1>7. NothingSkipped(caller', connection') /\ OwnTokens(connection') /\ Alone(caller')
  BY <1>3, <1>4, <1>5, <1>6 DEF OverlapInv, Overlapping, NothingSkipped, OwnTokens, Alone
<1>8. ASSUME NEW h \in Callers, caller'[h].pc = "calling"
      PROVE  Suppresses(caller'[h], registrations', connection')
  <2>1. caller'[h] = caller[h] /\ caller[h].conn # a /\ caller[h].conn \in Connections
    BY <1>1, <1>4, <1>6, <1>8, HolderFacts DEF Free, a
  <2>2. connection'[caller[h].conn] = connection[caller[h].conn]
    BY <1>5, <2>1
  <2> QED
    BY <1>1, <1>8, <2>1, <2>2 DEF Suppresses, OverlapInv, Overlapping
<1>9. ASSUME NEW c \in Connections
      PROVE  CursorScope(registrations', caller', connection', c)
  <2>1. CursorScope(registrations, caller, connection, c)
    BY DEF OverlapInv, Overlapping
  <2>2. CASE c = a
    <3>1. connection'[c] = Released(connection[a])
      BY <1>5, <2>2
    <3>2. connection'[c].rows > 0 => connection[a].rows > 1
      BY <1>3, <3>1
    <3>3. connection'[c].rows > 0 => connection'[c].token \notin DOMAIN registrations'
      BY <1>1, <1>3, <2>1, <2>2, <3>1, <3>2 DEF CursorScope
    <3>4. connection'[c].rows > 1 => connection'[c].rows > 0
      BY <1>3, <3>1
    <3> QED
      BY <3>3, <3>4 DEF CursorScope
  <2>3. CASE c # a
    <3>1. connection'[c] = connection[c]
      BY <1>5, <2>3
    <3>2. \A h \in Callers : caller[h].pc = "rows" /\ caller[h].conn = c => caller'[h] = caller[h]
      BY <1>4, <2>3 DEF a
    <3> QED
      BY <1>1, <2>1, <3>1, <3>2 DEF CursorScope
  <2> QED
    BY <2>2, <2>3
<1> QED
  BY <1>7, <1>8, <1>9 DEF OverlapInv, Overlapping

LEMMA QuietOverlaps ==
    ASSUME HolderInv, OverlapInv, NEW g \in Callers,
           \/ Prepare(g) \/ PrepareFails(g) \/ GiveUpSkipped(g) \/ CloseStatement(g) \/ CursorEnds(g)
           \/ \E c \in Connections, tra \in Transactions, method \in {"exec", "query"},
                 q \in Queries, mode \in Modes : PrepareFirst(g, c, tra, method, q, mode)
    PROVE  OverlapInv'
<1>1. \A c \in Connections : connection[c] \in ConnectionStates /\ connection[c].fallback = NoToken
  BY HolderFacts DEF OverlapInv, Overlapping, NothingSkipped
<1>2. caller[g].pc # "skipped" /\ caller[g].held = NoToken /\ caller[g].result # "skip"
  BY DEF OverlapInv, Overlapping, NothingSkipped
<1>3. \A T : Within(Without(registrations, T), registrations) /\ Within(registrations, registrations)
  BY DEF Within, Without
<1>4. CASE Prepare(g) \/ PrepareFails(g) \/ GiveUpSkipped(g)
  BY <1>2, <1>4 DEF Prepare, PrepareFails, GiveUpSkipped
<1>5. CASE CloseStatement(g)
  <2>1. /\ caller[g].pc = "prepared" /\ caller' = [caller EXCEPT ![g] = Idle]
        /\ Within(registrations', registrations) /\ connection' = connection
    BY <1>3, <1>5 DEF CloseStatement
  <2>2. Idle.pc = "idle" /\ Idle.held = NoToken /\ Idle.result = "ok"
    BY DEF Idle
  <2> QED
    BY <1>1, <2>1, <2>2, BetweenCalls
<1>6. CASE CursorEnds(g)
  <2> DEFINE new == [caller[g] EXCEPT !.cursor = FALSE]
  <2>1. /\ caller[g].pc = "rows" /\ caller[g] \in Jobs
        /\ caller' = [caller EXCEPT ![g] = new]
        /\ connection' = connection /\ registrations' = registrations
    BY <1>6, HolderFacts DEF CursorEnds, regVars
  <2>2. /\ new.pc = "rows" /\ new.op = caller[g].op /\ new.conn = caller[g].conn
        /\ new.held = caller[g].held /\ new.result = caller[g].result
    BY <2>1 DEF Jobs
  <2> HIDE DEF new
  <2> QED
    BY <1>1, <1>2, <1>3, <2>1, <2>2, BetweenCalls
<1>7. ASSUME NEW c \in Connections, NEW tra \in Transactions, NEW method \in {"exec", "query"},
             NEW q \in Queries, NEW mode \in Modes, PrepareFirst(g, c, tra, method, q, mode)
      PROVE  OverlapInv'
  <2> DEFINE job == NewJob(c, tra, method, q, mode)
             cn == connection[c]
             new == [job EXCEPT !.pc = "prepared", !.held = Take(cn, q)]
             T == {cn.fallback} \ {Take(cn, q)}
  <2>1. /\ caller[g].pc = "idle"
        /\ caller' = [caller EXCEPT ![g] = new]
        /\ connection' = [connection EXCEPT ![c] = Emptied(cn)]
        /\ registrations' = Without(registrations, T)
    BY <1>7 DEF PrepareFirst
  <2>2. job \in Jobs /\ job.result = "ok"
    <3>1. job.result = "ok"
      BY DEF NewJob, Idle
    <3> QED
      BY <3>1, HolderFacts, NewJobIs
  <2>3. Take(cn, q) = NoToken
    BY <1>1 DEF Take
  <2> HIDE DEF job, T
  <2>4. new.pc = "prepared" /\ new.held = NoToken /\ new.result = "ok"
    BY <2>2, <2>3 DEF Jobs
  <2>5. /\ Emptied(cn).rows = cn.rows /\ Emptied(cn).token = cn.token /\ Emptied(cn).fallback = NoToken
    BY <1>1 DEF Emptied, ConnectionStates
  <2>6. \A d \in Connections : /\ connection'[d].rows = connection[d].rows
                               /\ connection'[d].token = connection[d].token
                               /\ connection'[d].fallback = NoToken
    BY <1>1, <2>1, <2>5 DEF HolderInv, ClientTyped
  <2> HIDE DEF new
  <2>7. Within(registrations', registrations)
    BY <1>3, <2>1
  <2> QED
    BY <2>1, <2>4, <2>6, <2>7, BetweenCalls
<1> QED
  BY <1>4, <1>5, <1>6, <1>7

LEMMA OverlapStart == Init => OverlapInv
<1> SUFFICES ASSUME Init PROVE OverlapInv
  OBVIOUS
<1>1. /\ DOMAIN registrations = {}
      /\ caller = [g \in Callers |-> Idle]
      /\ connection = [c \in Connections |-> NewConnection]
  BY DEF Init, ClientInit
<1>2. Idle.pc = "idle" /\ Idle.held = NoToken /\ Idle.result = "ok"
  BY DEF Idle
<1>3. NewConnection.rows = 0 /\ NewConnection.token = NoToken /\ NewConnection.fallback = NoToken
  BY DEF NewConnection
<1> QED
  BY <1>1, <1>2, <1>3 DEF OverlapInv, Overlapping, NothingSkipped, OwnTokens, Alone, CursorScope

LEMMA OverlapStep ==
    ASSUME HolderInv, CallsCounted, OverlapInv, ~ Skips, [CallsScoped]_vars, [Next]_vars
    PROVE  OverlapInv'
<1>1. ASSUME NEW g \in Callers, ClientStep(g), CallsScoped
      PROVE  OverlapInv'
  <2>1. ASSUME NEW c \in Connections, NEW tra \in Transactions, NEW method \in {"exec", "query"},
               NEW q \in Queries, NEW mode \in Modes, DirectCall(g, c, tra, method, q, mode)
        PROVE  OverlapInv'
    BY <1>1, <2>1, DirectCallOverlaps
  <2>2. CASE StatementCall(g)
    BY <1>1, <2>2, StatementCallOverlaps
  <2>3. CASE Return(g)
    BY <2>3, ReturnOverlaps
  <2>4. CASE CloseRows(g)
    BY <2>4, CloseRowsOverlaps
  <2>5. CASE \/ Prepare(g) \/ PrepareFails(g) \/ GiveUpSkipped(g) \/ CloseStatement(g) \/ CursorEnds(g)
             \/ \E c \in Connections, tra \in Transactions, method \in {"exec", "query"},
                   q \in Queries, mode \in Modes : PrepareFirst(g, c, tra, method, q, mode)
    BY <2>5, QuietOverlaps
  <2> QED
    BY <1>1, <2>1, <2>2, <2>3, <2>4, <2>5 DEF ClientStep
<1>2. ASSUME UNCHANGED <<caller, connection>>, Within(registrations', registrations)
      PROVE  OverlapInv'
  BY <1>2, FewerOverlap DEF OverlapInv
<1>3. ASSUME NEW c \in Connections, CloseConnection(c)
      PROVE  FALSE
  BY <1>3 DEF CloseConnection, OverlapInv, Overlapping, NothingSkipped
<1>4. CASE ClientNext
  <2>1. CASE vars' = vars
    <3>1. UNCHANGED <<caller, connection, registrations>>
      BY <2>1 DEF vars, regVars, clientVars
    <3> QED
      BY <1>2, <3>1 DEF Within
  <2>2. CASE vars' # vars
    BY <1>1, <1>3, <1>4, <2>2 DEF ClientNext
  <2> QED
    BY <2>1, <2>2
<1>5. CASE ConsumerNext
  <2>1. Within(registrations', registrations)
    BY <1>5, ConsumerShrinks DEF ConsumerNext
  <2>2. UNCHANGED <<caller, connection>>
    BY <1>5 DEF ConsumerNext, clientVars
  <2> QED
    BY <1>2, <2>1, <2>2
<1>6. CASE StrayRecord \/ StreamEnds \/ ChannelOverflows \/ ShutdownBegins \/ UNCHANGED vars
  <2>1. UNCHANGED <<caller, connection, registrations>>
    BY <1>6 DEF StrayRecord, StreamEnds, ChannelOverflows, ShutdownBegins, BeginShutdown, vars, regVars,
                clientVars
  <2> QED
    BY <1>2, <2>1 DEF Within
<1>7. CASE \E t \in DOMAIN registrations : ScopeElapses(t)
  <2>1. PICK t \in DOMAIN registrations : ScopeElapses(t)
    BY <1>7
  <2>2. /\ registrations' = [registrations EXCEPT ![t].expired = TRUE]
        /\ UNCHANGED <<caller, connection>>
    BY <2>1 DEF ScopeElapses, Elapse, clientVars
  <2>3. \A u \in DOMAIN registrations : registrations[u] \in Scope
    BY HolderFacts DEF Small, IsRegistry
  <2>4. DOMAIN registrations' = DOMAIN registrations
        /\ \A u \in DOMAIN registrations : registrations'[u].parent = registrations[u].parent
    BY <2>2, <2>3 DEF Scope
  <2> QED
    BY <1>2, <2>2, <2>4 DEF Within
<1> QED
  BY <1>4, <1>5, <1>6, <1>7 DEF Next

\* Where no call is skipped and every call that finds no rows open gets a scope:
\* what serverScope discards beside open rows is the scope of the connection's one
\* open cursor, or gone already, whatever else fails, expires, is damaged or dropped.
THEOREM CursorsSuppressed == ~ Skips /\ Spec /\ [][CallsScoped]_vars => []OverlapSuppressesCursor
<1>1. Init => HolderInv /\ ClientTypes /\ OverlapInv
  BY HolderInit, ClientTypesStart, OverlapStart
<1>2. ~ Skips /\ HolderInv /\ ClientTypes /\ OverlapInv /\ [Next]_vars /\ [CallsScoped]_vars
         => (HolderInv /\ ClientTypes /\ OverlapInv)'
  BY HolderStep, ClientTypesStep, OverlapStep DEF ClientTypes
<1>3. OverlapInv => OverlapSuppressesCursor
  BY DEF OverlapInv, Overlapping, CursorScope, OverlapSuppressesCursor
<1>4. CASE Skips
  BY <1>4, PTL
<1>5. CASE ~ Skips
  <2>1. HolderInv /\ ClientTypes /\ OverlapInv /\ [Next]_vars /\ [CallsScoped]_vars
           => (HolderInv /\ ClientTypes /\ OverlapInv)'
    BY <1>2, <1>5
  <2> QED
    BY <1>1, <1>3, <2>1, PTL DEF Spec
<1> QED
  BY <1>4, <1>5

\* Operations are all traced, no call is skipped, no marker fails, the session
\* does not end, and the registry has room for every operation.
Undisturbed ==
    /\ ~ Skips /\ ~ Unmarked /\ ~ Failures /\ ~ Ends
    /\ MaxOps <= MaxPending

\* The registry admits, and every scope is that of an operation.
Admitting ==
    /\ running
    /\ session = "open"
    /\ \A g \in Callers : caller[g].mode = "traced"
    /\ issued + Cardinality(ToRegister(caller)) <= ops

LEMMA StillRunning ==
    ASSUME ~ Ends, session = "open", [Next]_vars
    PROVE  UNCHANGED <<running, session>>
<1>1. ASSUME NEW rs, Write(rs)
      PROVE  session' = session
  BY <1>1 DEF Write
<1>2. CASE ClientNext
  <2>1. ASSUME NEW g \in Callers, ClientStep(g)
        PROVE  UNCHANGED <<running, session>>
    <3>1. ASSUME NEW job, NEW s, NEW result, NEW markerOk, Submit(g, job, s, result, markerOk)
          PROVE  UNCHANGED <<running, session>>
      BY <1>1, <3>1 DEF Submit
    <3>2. ASSUME NEW c \in Connections, NEW tra \in Transactions, NEW method \in {"exec", "query"},
                 NEW q \in Queries, NEW mode \in Modes, DirectCall(g, c, tra, method, q, mode)
          PROVE  UNCHANGED <<running, session>>
      BY <3>1, <3>2 DEF DirectCall
    <3>3. ASSUME NEW c \in Connections, NEW tra \in Transactions, NEW method \in {"exec", "query"},
                 NEW q \in Queries, NEW mode \in Modes, PrepareFirst(g, c, tra, method, q, mode)
          PROVE  UNCHANGED <<running, session>>
      BY <3>3 DEF PrepareFirst, streamVars
    <3>4. CASE StatementCall(g)
      BY <3>1, <3>4 DEF StatementCall
    <3>5. CASE Return(g)
      BY <1>1, <3>5 DEF Return
    <3>6. CASE Prepare(g) \/ PrepareFails(g) \/ GiveUpSkipped(g) \/ CloseStatement(g)
      BY <3>6 DEF Prepare, PrepareFails, GiveUpSkipped, CloseStatement, streamVars, regVars
    <3>7. CASE CursorEnds(g) \/ CloseRows(g)
      BY <1>1, <3>7 DEF CursorEnds, CloseRows, regVars
    <3> QED
      BY <2>1, <3>2, <3>3, <3>4, <3>5, <3>6, <3>7 DEF ClientStep
  <2>2. ASSUME NEW c \in Connections, CloseConnection(c)
        PROVE  UNCHANGED <<running, session>>
    BY <2>2 DEF CloseConnection, streamVars
  <2> QED
    BY <1>2, <2>1, <2>2 DEF ClientNext
<1>3. CASE ConsumerNext
  <2>1. ~ ConsumerEnds
    BY DEF ConsumerEnds
  <2>2. CASE Flush \/ Tick
    BY <2>2 DEF Flush, Tick, regFlags, streamVars
  <2>3. CASE EventReceived
    <3>1. Receive
      BY <2>3 DEF EventReceived, GapReceived, MarkerStarted, MarkerUnmatched, MarkerFinished, Unidentified,
                  StartOutsideTrees, StartDropsTree, StartJoinsTree, FinishOutsideTrees, FinishInTree,
                  FinishRoot, Started, Ended
    <3> QED
      BY <3>1 DEF Receive, regFlags
  <2> QED
    BY <1>3, <2>1, <2>2, <2>3 DEF ConsumerNext
<1>4. CASE StrayRecord \/ ChannelOverflows \/ UNCHANGED vars \/ \E t \in DOMAIN registrations : ScopeElapses(t)
  BY <1>1, <1>4 DEF StrayRecord, ChannelOverflows, EventDropped, ScopeElapses, Elapse, vars, regVars, streamVars
<1>5. ~ ShutdownBegins /\ ~ StreamEnds
  BY DEF ShutdownBegins, StreamEnds
<1> QED
  BY <1>2, <1>3, <1>4, <1>5 DEF Next

\* A caller goes on with a traced operation, and what it begins gets a scope.
Advances(g, job) ==
    /\ caller' = [caller EXCEPT ![g] = job]
    /\ job.mode = "traced"
    /\ \/ ops' = ops /\ issued' + ScopesOf(job) <= issued + ScopesOf(caller[g])
       \/ ops' = ops + 1 /\ issued' + ScopesOf(job) <= issued + ScopesOf(caller[g]) + 1
    /\ job.pc = "calling" => job.token # NoToken \/ connection[job.conn].rows > 0

LEMMA RoomLeft ==
    ASSUME NEW n \in Nat, NEW n1 \in Nat, NEW o \in Nat, NEW d \in Nat, NEW i \in Nat, NEW j \in Nat,
           NEW x \in Nat, NEW y \in Nat,
           n + i <= o, j = i + x - y, n1 + x <= n + y + d
    PROVE  n1 + j <= o + d
  OBVIOUS

LEMMA AdvancesKeeps ==
    ASSUME HolderInv, NEW g \in Callers, NEW job, Advances(g, job), issued' \in Nat,
           \A h \in Callers : caller[h].mode = "traced",
           issued + Cardinality(ToRegister(caller)) <= ops
    PROVE  /\ \A h \in Callers : caller'[h].mode = "traced"
           /\ issued' + Cardinality(ToRegister(caller')) <= ops'
           /\ CallsScoped
<1>1. \A h \in Callers : caller'[h] = IF h = g THEN job ELSE caller[h]
  BY DEF HolderInv, ClientTyped, Advances
<1>2. (\A h \in Callers : caller'[h].mode = "traced") /\ CallsScoped
  BY <1>1 DEF Advances, CallsScoped
<1>3. issued' + Cardinality(ToRegister(caller')) <= ops'
  <2> DEFINE i == Cardinality(ToRegister(caller))
             j == Cardinality(ToRegister(caller'))
             x == ScopesOf(job)
             y == ScopesOf(caller[g])
  <2>1. i \in Nat /\ j \in Nat /\ j = i + x - y /\ issued + i <= ops
    BY CountsMove DEF Advances
  <2>2. x \in Nat /\ y \in Nat /\ ops \in Nat /\ issued \in Nat
    BY HolderFacts DEF ScopesOf
  <2>3. \/ ops' = ops /\ issued' + x <= issued + y
        \/ ops' = ops + 1 /\ issued' + x <= issued + y + 1
    BY DEF Advances
  <2> HIDE DEF i, j, x, y
  <2>4. issued' + j <= ops'
    <3>1. issued' \in Nat /\ 0 \in Nat /\ 1 \in Nat
      OBVIOUS
    <3>2. CASE ops' = ops /\ issued' + x <= issued + y
      <4>1. issued' + x <= issued + y + 0
        <5>1. issued + y + 0 = issued + y
          BY <2>2
        <5> QED
          BY <3>2, <5>1
      <4>2. issued' + j <= ops + 0
        BY <2>1, <2>2, <3>1, <4>1, RoomLeft
      <4> QED
        BY <2>2, <3>2, <4>2
    <3>3. CASE ops' = ops + 1 /\ issued' + x <= issued + y + 1
      <4>1. issued' + j <= ops + 1
        BY <2>1, <2>2, <3>1, <3>3, RoomLeft
      <4> QED
        BY <3>3, <4>1
    <3> QED
      BY <2>3, <3>2, <3>3
  <2> QED
    BY <2>4 DEF j
<1> QED
  BY <1>2, <1>3

\* A traced call that finds no rows open and a registry with room gets a scope.
LEMMA RoomAdmits ==
    ASSUME HolderInv, running, issued < MaxPending, NEW cn, ~ (cn.rows > 0)
    PROVE  ServerScope(cn, "traced", TRUE).token # NoToken
<1> DEFINE kept == Without(registrations, {cn.fallback})
<1>1. /\ issued \in Nat /\ NoToken \notin Nat /\ Small(registrations, issued)
      /\ DOMAIN registrations \subseteq 1..issued
  BY HolderFacts
<1>2. Small(Purged(kept), issued)
  BY <1>1, WithoutWithin, PurgedWithin
<1>3. DOMAIN Purged(kept) \subseteq 1..issued
  BY <1>2 DEF Small, IsRegistry
<1>4. IsFiniteSet(1..issued) /\ Cardinality(1..issued) = issued
  BY <1>1, FS_Interval
<1>5. Cardinality(DOMAIN Purged(kept)) <= issued /\ Cardinality(DOMAIN Purged(kept)) \in Nat
  <2> DEFINE D == DOMAIN Purged(kept)
  <2> HIDE DEF D, kept
  <2>1. D \subseteq 1..issued
    BY <1>3 DEF D
  <2>2. IsFiniteSet(D) /\ Cardinality(D) <= issued /\ Cardinality(D) \in Nat
    BY <1>4, <2>1, FS_Subset, FS_CardinalityType
  <2> QED
    BY <2>2 DEF D
<1>6. Admits(kept, "traced")
  BY <1>1, <1>5, MaxPendingAssumption DEF Admits, Full
<1>7. issued + 1 # NoToken
  BY <1>1
<1> HIDE DEF kept
<1>8. ServerScope(cn, "traced", TRUE).token = issued + 1
  BY <1>6 DEF ServerScope, Overlaps, kept
<1> QED
  BY <1>7, <1>8

LEMMA TracedModes == ~ Unmarked => Modes = {"traced"}
  BY DEF Modes

LEMMA SubmitAdvances ==
    ASSUME HolderInv, NEW g \in Callers, NEW job \in Jobs, NEW s, NEW result,
           NEW cn, cn = connection[job.conn], NEW markerOk,
           Submit(g, job, s, result, markerOk), result # "skip", job.mode = "traced",
           ScopeFor(cn, s), ~ (cn.rows > 0) => s.token # NoToken,
           \/ caller[g].pc = "idle" /\ ops' = ops + 1
           \/ caller[g].pc = "prepared" /\ ops' = ops
    PROVE  \E new : Advances(g, new)
<1> DEFINE new == [job EXCEPT !.pc = "calling", !.token = s.token, !.held = NoToken, !.result = result]
<1>1. caller' = [caller EXCEPT ![g] = new] /\ issued' = s.issued
  BY DEF Submit
<1>2. new.pc = "calling" /\ new.result = result /\ new.token = s.token /\ new.conn = job.conn /\ new.mode = "traced"
  BY DEF Jobs
<1> HIDE DEF new
<1>3. ScopesOf(new) = 0
  BY <1>2 DEF ScopesOf
<1>4. issued \in Nat /\ issued' \in {issued, issued + 1}
  BY <1>1, HolderFacts DEF ScopeFor
<1>5. caller[g].pc = "idle" => ScopesOf(caller[g]) = 0
  BY DEF ScopesOf
<1>6. caller[g].pc = "prepared" => ScopesOf(caller[g]) = 1
  BY DEF ScopesOf
<1>7. \/ ops' = ops /\ issued' + ScopesOf(new) <= issued + ScopesOf(caller[g])
      \/ ops' = ops + 1 /\ issued' + ScopesOf(new) <= issued + ScopesOf(caller[g]) + 1
  BY <1>3, <1>4, <1>5, <1>6
<1>8. new.token # NoToken \/ connection[new.conn].rows > 0
  BY <1>2
<1> QED
  BY <1>1, <1>2, <1>7, <1>8 DEF Advances

LEMMA DirectCallAdvances ==
    ASSUME HolderInv, Undisturbed, Admitting, NEW g \in Callers, NEW c \in Connections,
           NEW tra \in Transactions, NEW method \in {"exec", "query"}, NEW q \in Queries, NEW mode \in Modes,
           DirectCall(g, c, tra, method, q, mode)
    PROVE  \E new : Advances(g, new)
<1> DEFINE job == NewJob(c, tra, method, q, mode)
           cn == connection[c]
<1>1. PICK result \in Results(TRUE), markerOk \in BOOLEAN :
         /\ caller[g].pc = "idle"
         /\ ops < MaxOps
         /\ ops' = ops + 1
         /\ Submit(g, job, IF result = "skip" THEN Preserved(ServerScope(cn, mode, markerOk), q)
                           ELSE ServerScope(cn, mode, markerOk), result, markerOk)
  BY DEF DirectCall
<1> DEFINE scope == ServerScope(cn, mode, markerOk)
<1>2. result # "skip" /\ mode = "traced" /\ markerOk = TRUE
  <2>1. markerOk
    BY <1>1 DEF Undisturbed, Submit
  <2> QED
    BY <2>1, TracedModes DEF Undisturbed, Results
<1>3. job \in Jobs /\ job.conn = c /\ job.mode = mode
  <2>1. job.mode = mode
    BY DEF NewJob, Idle
  <2> QED
    BY <2>1, HolderFacts, NewJobIs
<1>4. ScopeFor(cn, scope)
  BY HolderFacts, ServerScopeIs DEF HolderInv
<1>5. ~ (cn.rows > 0) => scope.token # NoToken
  <2>1. issued < MaxPending
    <3>1. Cardinality(ToRegister(caller)) \in Nat
      <4>1. IsFiniteSet(ToRegister(caller))
        BY CallersAssumption, FS_Subset DEF ToRegister
      <4> QED
        BY <4>1, FS_CardinalityType
    <3> QED
      BY <1>1, <3>1, HolderFacts, MaxOpsAssumption, MaxPendingAssumption DEF Admitting, Undisturbed
  <2>2. ~ (cn.rows > 0) => ServerScope(cn, "traced", TRUE).token # NoToken
    BY <2>1, RoomAdmits DEF Admitting
  <2> QED
    BY <1>2, <2>2
<1> HIDE DEF job, scope
<1>6. Submit(g, job, scope, result, markerOk)
  BY <1>1, <1>2 DEF job, scope
<1> HIDE DEF cn
<1>7. cn = connection[job.conn] /\ job.mode = "traced"
  BY <1>2, <1>3 DEF cn
<1> QED
  BY <1>1, <1>2, <1>3, <1>4, <1>5, <1>6, <1>7, SubmitAdvances

LEMMA StatementCallAdvances ==
    ASSUME HolderInv, OverlapInv, Undisturbed, Admitting, NEW g \in Callers, StatementCall(g)
    PROVE  \E new : Advances(g, new)
<1>1. PICK result \in Results(FALSE), markerOk \in BOOLEAN,
           mode \in {caller[g].mode} \cup (Modes \cap {"disabled"}) :
         LET job == [caller[g] EXCEPT !.mode = mode]
         IN  /\ job.pc = "prepared"
             /\ Submit(g, job, StatementScope(job, connection[job.conn], markerOk), result, markerOk)
             /\ UNCHANGED ops
  BY DEF StatementCall
<1> DEFINE job == [caller[g] EXCEPT !.mode = mode]
           cn == connection[job.conn]
           scope == ServerScope(cn, job.mode, markerOk)
<1>2. caller[g] \in Jobs /\ caller[g].held = NoToken /\ caller[g].mode = "traced" /\ mode = "traced"
  <2>1. Modes \cap {"disabled"} = {}
    BY TracedModes DEF Undisturbed
  <2> QED
    BY <2>1, HolderFacts DEF OverlapInv, Overlapping, NothingSkipped, Admitting
<1>3. /\ job \in Jobs /\ job.pc = caller[g].pc /\ job.conn = caller[g].conn /\ job.held = NoToken
      /\ job.mode = "traced"
  BY <1>2 DEF Jobs
<1>4. caller[g].pc = "prepared" /\ job.conn \in Connections
  BY <1>1, <1>3, HolderFacts
<1>5. result # "skip" /\ markerOk = TRUE
  <2>1. markerOk
    BY <1>1 DEF Undisturbed, Submit
  <2> QED
    BY <2>1 DEF Results
<1> HIDE DEF job
<1>6. ScopeFor(cn, scope)
  BY <1>4, HolderFacts, ServerScopeIs DEF HolderInv
<1>7. ~ (cn.rows > 0) => scope.token # NoToken
  <2>1. issued < MaxPending
    <3> DEFINE S == ToRegister(caller)
    <3>1. IsFiniteSet(S) /\ g \in S
      BY <1>4, CallersAssumption, FS_Subset DEF ToRegister, ScopesOf
    <3> HIDE DEF S
    <3>2. Cardinality(S) \in Nat /\ Cardinality(S) # 0
      BY <3>1, FS_CardinalityType, FS_EmptySet
    <3>3. issued + Cardinality(S) <= ops
      BY DEF Admitting, S
    <3> QED
      BY <3>2, <3>3, HolderFacts, MaxOpsAssumption, MaxPendingAssumption DEF Undisturbed
  <2>2. ~ (cn.rows > 0) => ServerScope(cn, "traced", TRUE).token # NoToken
    BY <2>1, RoomAdmits DEF Admitting
  <2> QED
    BY <1>3, <1>5, <2>2
<1>8. StatementScope(job, cn, markerOk) = scope
  BY <1>3 DEF StatementScope
<1>9. Submit(g, job, scope, result, markerOk) /\ ops' = ops
  BY <1>1, <1>8 DEF job, cn
<1> HIDE DEF scope, cn
<1>10. cn = connection[job.conn]
  BY DEF cn
<1> QED
  BY <1>3, <1>4, <1>5, <1>6, <1>7, <1>9, <1>10, SubmitAdvances

LEMMA OthersAdvance ==
    ASSUME HolderInv, OverlapInv, Undisturbed, Admitting, NEW g \in Callers,
           \/ Return(g) \/ CursorEnds(g) \/ CloseRows(g)
           \/ \E c \in Connections, tra \in Transactions, method \in {"exec", "query"},
                 q \in Queries, mode \in Modes : PrepareFirst(g, c, tra, method, q, mode)
    PROVE  \E new : Advances(g, new)
<1>0. issued \in Nat /\ caller[g] \in Jobs /\ caller[g].mode = "traced" /\ caller[g].result # "skip"
  BY HolderFacts DEF OverlapInv, Overlapping, NothingSkipped, Admitting
<1>1. ASSUME NEW new, caller' = [caller EXCEPT ![g] = new], new.mode = "traced",
             ops' = ops, issued' = issued, new.pc \in {"idle", "rows"}
      PROVE  Advances(g, new)
  <2>1. ScopesOf(new) = 0 /\ ScopesOf(caller[g]) \in {0, 1}
    BY <1>1 DEF ScopesOf
  <2> QED
    BY <1>0, <1>1, <2>1 DEF Advances
<1>2. Idle.mode = "traced" /\ Idle.pc = "idle"
  BY DEF Idle
<1>3. CASE Return(g)
  <2> DEFINE job == caller[g]
             opens == job.method = "query" /\ job.result = "ok"
             rows == [job EXCEPT !.pc = "rows", !.token = NoToken, !.cursor = TRUE]
             skipped == [job EXCEPT !.pc = "skipped", !.result = "ok"]
             new == CASE opens -> rows [] job.result = "skip" -> skipped [] OTHER -> Idle
  <2>1. caller' = [caller EXCEPT ![g] = new] /\ ops' = ops /\ issued' = issued
    BY <1>3 DEF Return
  <2>2. new = IF opens THEN rows ELSE Idle
    BY <1>0
  <2>3. rows.mode = "traced" /\ rows.pc = "rows"
    BY <1>0 DEF Jobs
  <2> HIDE DEF rows, new
  <2>4. new.mode = "traced" /\ new.pc \in {"idle", "rows"}
    BY <1>2, <2>2, <2>3
  <2> QED
    BY <1>1, <2>1, <2>4
<1>4. CASE CursorEnds(g)
  <2> DEFINE new == [caller[g] EXCEPT !.cursor = FALSE]
  <2>1. /\ caller[g].pc = "rows" /\ caller' = [caller EXCEPT ![g] = new] /\ ops' = ops /\ issued' = issued
    BY <1>4 DEF CursorEnds, regVars
  <2>2. new.pc = "rows" /\ new.mode = "traced"
    BY <1>0, <2>1 DEF Jobs
  <2> HIDE DEF new
  <2> QED
    BY <1>1, <2>1, <2>2
<1>5. CASE CloseRows(g)
  <2>1. caller' = [caller EXCEPT ![g] = Idle] /\ ops' = ops /\ issued' = issued
    BY <1>5 DEF CloseRows, regVars
  <2> QED
    BY <1>1, <1>2, <2>1
<1>6. ASSUME NEW c \in Connections, NEW tra \in Transactions, NEW method \in {"exec", "query"},
             NEW q \in Queries, NEW mode \in Modes, PrepareFirst(g, c, tra, method, q, mode)
      PROVE  \E new : Advances(g, new)
  <2> DEFINE job == NewJob(c, tra, method, q, mode)
             new == [job EXCEPT !.pc = "prepared", !.held = Take(connection[c], q)]
  <2>1. caller[g].pc = "idle" /\ caller' = [caller EXCEPT ![g] = new] /\ ops' = ops + 1 /\ issued' = issued
    BY <1>6 DEF PrepareFirst
  <2>2. job.mode = "traced" /\ job \in Jobs
    <3>1. job.mode = mode
      BY DEF NewJob, Idle
    <3> QED
      BY <3>1, TracedModes, HolderFacts, NewJobIs DEF Undisturbed
  <2> HIDE DEF job
  <2>3. new.mode = "traced" /\ new.pc = "prepared"
    BY <2>2 DEF Jobs
  <2> HIDE DEF new
  <2>4. ScopesOf(new) = 1 /\ ScopesOf(caller[g]) = 0
    BY <2>1, <2>3 DEF ScopesOf
  <2>5. Advances(g, new)
    BY <1>0, <2>1, <2>3, <2>4 DEF Advances
  <2> QED
    BY <2>5
<1> QED
  BY <1>1, <1>3, <1>4, <1>5, <1>6

LEMMA AdmittingStep ==
    ASSUME HolderInv, OverlapInv, Undisturbed, Admitting, [Next]_vars, HolderInv'
    PROVE  Admitting' /\ CallsScoped
<1>1. running' /\ session' = "open"
  BY StillRunning DEF Undisturbed, Admitting
<1>2. issued' \in Nat
  BY DEF HolderInv, RegistrySound
<1>3. ASSUME NEW g \in Callers, ClientStep(g)
      PROVE  \E new : Advances(g, new)
  <2>1. ASSUME NEW c \in Connections, NEW tra \in Transactions, NEW method \in {"exec", "query"},
               NEW q \in Queries, NEW mode \in Modes, DirectCall(g, c, tra, method, q, mode)
        PROVE  \E new : Advances(g, new)
    BY <2>1, DirectCallAdvances
  <2>2. CASE StatementCall(g)
    BY <2>2, StatementCallAdvances
  <2>3. CASE \/ Return(g) \/ CursorEnds(g) \/ CloseRows(g)
             \/ \E c \in Connections, tra \in Transactions, method \in {"exec", "query"},
                   q \in Queries, mode \in Modes : PrepareFirst(g, c, tra, method, q, mode)
    BY <2>3, OthersAdvance
  <2>4. ~ Prepare(g) /\ ~ PrepareFails(g) /\ ~ GiveUpSkipped(g) /\ ~ CloseStatement(g)
    BY DEF Prepare, PrepareFails, GiveUpSkipped, CloseStatement, OverlapInv, Overlapping, NothingSkipped, Undisturbed
  <2> QED
    BY <1>3, <2>1, <2>2, <2>3, <2>4 DEF ClientStep
<1>4. ASSUME UNCHANGED <<caller, issued, ops>>
      PROVE  Admitting' /\ CallsScoped
  BY <1>1, <1>4 DEF Admitting, CallsScoped
<1>5. CASE ClientNext
  <2>1. ASSUME NEW g \in Callers, ClientStep(g)
        PROVE  Admitting' /\ CallsScoped
    <3>1. PICK new : Advances(g, new)
      BY <1>3, <2>1
    <3>2. /\ \A h \in Callers : caller'[h].mode = "traced"
          /\ issued' + Cardinality(ToRegister(caller')) <= ops'
          /\ CallsScoped
      BY <1>2, <3>1, AdvancesKeeps DEF Admitting
    <3> QED
      BY <1>1, <3>2 DEF Admitting
  <2>2. ASSUME NEW c \in Connections, CloseConnection(c)
        PROVE  FALSE
    BY <2>2 DEF CloseConnection, OverlapInv, Overlapping, NothingSkipped
  <2> QED
    BY <1>5, <2>1, <2>2 DEF ClientNext
<1>6. CASE ConsumerNext
  <2>1. UNCHANGED <<caller, issued, ops>>
    BY <1>6, ConsumerShrinks DEF ConsumerNext, clientVars
  <2> QED
    BY <1>4, <2>1
<1>7. CASE \/ StrayRecord \/ StreamEnds \/ ChannelOverflows \/ ShutdownBegins \/ UNCHANGED vars
           \/ \E t \in DOMAIN registrations : ScopeElapses(t)
  <2>1. UNCHANGED <<caller, issued, ops>>
    BY <1>7 DEF StrayRecord, StreamEnds, ChannelOverflows, ShutdownBegins, BeginShutdown, ScopeElapses, Elapse,
                vars, regVars, clientVars
  <2> QED
    BY <1>4, <2>1
<1> QED
  BY <1>5, <1>6, <1>7 DEF Next

LEMMA AdmittingStart == Init => Admitting
<1> SUFFICES ASSUME Init PROVE Admitting
  OBVIOUS
<1>1. /\ running /\ session = "open" /\ issued = 0 /\ ops = 0
      /\ caller = [g \in Callers |-> Idle]
  BY DEF Init, ClientInit, StreamInit
<1>2. Idle.mode = "traced" /\ Idle.pc = "idle"
  BY DEF Idle
<1>3. ToRegister(caller) = {}
  BY <1>1, <1>2 DEF ToRegister, ScopesOf
<1>4. Cardinality(ToRegister(caller)) = 0
  BY <1>3, FS_EmptySet
<1> QED
  BY <1>1, <1>2, <1>4 DEF Admitting

\* The same with nothing assumed of the calls: where all operations are traced,
\* no marker fails and the registry has room, every call does get its scope.
THEOREM UndisturbedCursors == Undisturbed /\ Spec => []OverlapSuppressesCursor
<1>1. Init => HolderInv /\ ClientTypes /\ OverlapInv /\ Admitting
  BY HolderInit, ClientTypesStart, OverlapStart, AdmittingStart
<1>2. Undisturbed /\ HolderInv /\ ClientTypes /\ OverlapInv /\ Admitting /\ [Next]_vars
         => (HolderInv /\ ClientTypes /\ OverlapInv /\ Admitting)'
  <2> SUFFICES ASSUME Undisturbed, HolderInv, ClientTypes, OverlapInv, Admitting, [Next]_vars
               PROVE  (HolderInv /\ ClientTypes /\ OverlapInv /\ Admitting)'
    OBVIOUS
  <2>1. HolderInv' /\ ClientTypes'
    BY HolderStep, ClientTypesStep
  <2>2. Admitting' /\ CallsScoped
    BY <2>1, AdmittingStep
  <2>3. OverlapInv'
    BY <2>2, OverlapStep DEF Undisturbed, ClientTypes
  <2> QED
    BY <2>1, <2>2, <2>3
<1>3. OverlapInv => OverlapSuppressesCursor
  BY DEF OverlapInv, Overlapping, CursorScope, OverlapSuppressesCursor
<1>4. CASE ~ Undisturbed
  BY <1>4
<1>5. CASE Undisturbed
  <2>1. HolderInv /\ ClientTypes /\ OverlapInv /\ Admitting /\ [Next]_vars
           => (HolderInv /\ ClientTypes /\ OverlapInv /\ Admitting)'
    BY <1>2, <1>5
  <2> QED
    BY <1>1, <1>3, <2>1, PTL DEF Spec
<1> QED
  BY <1>4, <1>5
=============================================================================
