--------------------------- MODULE ConsumerProofs ---------------------------
(***************************************************************************)
(* Theorems about the consumer of the Trace stream: its memory, its counts *)
(* of running activities and its trees, for every set of callers,          *)
(* connections and transactions, all limits, every delay of the stream and *)
(* every damage to it.                                                     *)
(*                                                                         *)
(* What the consumer may rely on is the order of the events that are       *)
(* under way: starts come with growing sequences, and an activity finishes *)
(* before the one that called it.  The first half follows this order from  *)
(* the parser's stacks to the end of the channel, the second half from its *)
(* head into the consumer's maps.  And a token marks once, from the record *)
(* of its marker to the tree that is exported for it.                      *)
(***************************************************************************)
EXTENDS CorrelationProofs, SequenceTheorems

Keys == Connections \X (Transactions \cup {0})

Activities ==
    {Procedure, Statement(NoStatement)}
    \cup {Statement(<<c, n>>) : c \in {"marker", "work", "start", "finish", "cancel"}, n \in Nat}

IsMarker(activity) == \E n \in Nat : activity = Statement(<<"marker", n>>)

Frames == [activity : Activities, sequence : Nat]

Owners == Nat \cup {NoOwner}

\* What the server writes when n tokens were issued: the records of markers, and
\* no others, have tokens.
Records(n) ==
    {DamagedRecord} \cup
    {r \in [phase : {"start", "finish"}, key : Keys \cup {NoKey}, activity : Activities,
            token : Tokenish(n), owner : Owners] :
        r.key # NoKey /\ ~ Anonymous(r.activity) => (r.token = NoToken <=> ~ IsMarker(r.activity))}

Events == [phase : {"start", "finish", "gap"}, sequence : Nat, parent : Nat, incomplete : BOOLEAN]

Messages(n) ==
    [event : Events, kind : {"gap", "statement", "procedure"}, attachment : Connections \cup {0},
     token : Tokenish(n), owner : Owners]

IsParser(p) ==
    /\ p \in [stacks : {p.stacks}, sequence : Nat, incomplete : BOOLEAN]
    /\ \A k \in Keys : StackOf(p, k) \in Seq(Frames)

\* Activity t is open, at place x of the stack of k.
Stacked(p, k, x, t) == x \in 1..Len(StackOf(p, k)) /\ StackOf(p, k)[x].sequence = t

\* Message i is the start, or the finish, of activity t.
StartAt(st, i, t) ==
    i \in 1..Len(st) /\ st[i].event.phase = "start" /\ st[i].event.sequence = t /\ t # 0

FinishAt(st, i, t) ==
    i \in 1..Len(st) /\ st[i].event.phase = "finish" /\ st[i].event.sequence = t /\ t # 0

-----------------------------------------------------------------------------
(* The parser and the messages st under way. *)

\* What any stream keeps, one that has lost events too.
Ordered(p, st, n) ==
    /\ IsParser(p)
    /\ st \in Seq(Messages(n))
    /\ \A k \in Keys : \A x, t \in Nat : Stacked(p, k, x, t) => t \in 1..p.sequence
    /\ \A k, l \in Keys : \A x, y, t \in Nat :
          Stacked(p, k, x, t) /\ Stacked(p, l, y, t) => k = l /\ x = y
    /\ \A i \in 1..Len(st) :
          /\ st[i].event.sequence <= p.sequence
          /\ st[i].event.sequence # 0 => st[i].attachment \in Connections
    /\ \A i, t \in Nat : StartAt(st, i, t) => st[i].event.parent < t
    /\ \A i, j, s, t \in Nat : i < j /\ StartAt(st, i, s) /\ StartAt(st, j, t) => s < t

\* t finishes before r: in the stream, or at the latest when the parser has read
\* its finish.
EndsFirst(p, st, t, r) ==
    /\ \A j \in Nat : FinishAt(st, j, r) => \E i \in Nat : i < j /\ FinishAt(st, i, t)
    /\ \A k \in Keys : \A x \in Nat : Stacked(p, k, x, r) =>
          \/ \E i \in Nat : FinishAt(st, i, t)
          \/ \E y \in Nat : x < y /\ Stacked(p, k, y, t)

\* t is not a marker, and its finish will not look like that of one.
Plain(p, st, t) ==
    /\ \A k \in Keys : \A x \in Nat :
          Stacked(p, k, x, t) => ~ IsMarker(StackOf(p, k)[x].activity)
    /\ \A j \in Nat : FinishAt(st, j, t) => st[j].token = NoToken

\* What a stream keeps until an event is dropped.
Nested(p, st) ==
    /\ \A k \in Keys : \A x, t, i \in Nat : ~ (Stacked(p, k, x, t) /\ FinishAt(st, i, t))
    /\ \A i, j, t \in Nat : StartAt(st, i, t) /\ FinishAt(st, j, t) => i < j
    /\ \A i, t \in Nat : StartAt(st, i, t) =>
          /\ st[i].event.parent # 0 => EndsFirst(p, st, t, st[i].event.parent)
          /\ st[i].token = NoToken => Plain(p, st, t)

\* C holds r and what r calls, directly or not: such calls start before r
\* finishes, and are open above r.
Family(p, st, r, C) ==
    /\ r \in C /\ C \subseteq 1..p.sequence
    /\ \A i, t \in Nat : StartAt(st, i, t) /\ st[i].event.parent \in C =>
          t \in C /\ \A j \in Nat : FinishAt(st, j, r) => i < j
    /\ \A k \in Keys : \A x, t \in Nat : Stacked(p, k, x, t) /\ t \in C =>
          /\ \A j \in Nat : ~ FinishAt(st, j, r)
          /\ \A l \in Keys : \A y \in Nat : Stacked(p, l, y, r) => l = k /\ y <= x

\* No activity of C will call another one.
Spent(p, st, C) ==
    /\ C \subseteq 1..p.sequence
    /\ \A i, t \in Nat : StartAt(st, i, t) => st[i].event.parent \notin C
    /\ \A k \in Keys : \A x, t \in Nat : Stacked(p, k, x, t) => t \notin C

\* What any stream keeps, too: every activity under way has a family.
Related(p, st) == \A i, t \in Nat : StartAt(st, i, t) => \E C : Family(p, st, t, C)

\* Families go on from p and st to q and st1, and may get new members.
Relates(p, st, q, st1) ==
    /\ \A r, C : Family(p, st, r, C) => \E D : C \subseteq D /\ Family(q, st1, r, D)
    /\ \A C : Spent(p, st, C) => Spent(q, st1, C)
    /\ Related(p, st) => Related(q, st1)

\* The parser reads on, from p and st to q and st1.
Grows(p, st, q, st1, n) ==
    /\ Ordered(q, st1, n)
    /\ p.sequence <= q.sequence
    /\ Len(st) <= Len(st1)
    /\ \A i \in 1..Len(st) : st1[i] = st[i]
    /\ \A i, t \in Nat : StartAt(st1, i, t) => StartAt(st, i, t) \/ p.sequence < t
    /\ Nested(p, st) => Nested(q, st1)
    /\ Nested(p, st) => \A t \in 1..p.sequence : Plain(p, st, t) => Plain(q, st1, t)
    /\ Nested(p, st) => \A t, r \in 1..p.sequence : EndsFirst(p, st, t, r) => EndsFirst(q, st1, t, r)
    /\ Relates(p, st, q, st1)

-----------------------------------------------------------------------------
(* Sequences. *)

\* Induction over the numbers up to N; S is the set of those that are in order.
LEMMA UpTo ==
    ASSUME NEW N \in Nat, NEW S, 0 \in S, \A n \in 1..N : n - 1 \in S => n \in S
    PROVE  0..N \subseteq S
<1> DEFINE T == {X \in SUBSET (1..N) : \E n \in 0..N : n \notin S /\ X = 1..n}
           R == StrictSubsetOrdering(1..N)
<1>1. SUFFICES ASSUME NEW n \in 0..N, n \notin S PROVE FALSE
  OBVIOUS
<1>2. T # {} /\ T \subseteq FiniteSubsetsOf(1..N)
  <2>1. T \subseteq SUBSET (1..N) /\ IsFiniteSet(1..N)
    BY FS_Interval
  <2>2. 1..n \in T
    BY <1>1
  <2> QED
    BY <2>1, <2>2, FS_Subset DEF FiniteSubsetsOf
<1>3. PICK X \in T : \A Y \in T : ~ (<<Y, X>> \in R)
  <2> HIDE DEF T, R
  <2> QED
    BY <1>2, FS_StrictSubsetOrderingWellFounded, WFMin DEF R
<1>4. PICK m \in 0..N : m \notin S /\ X = 1..m
  OBVIOUS
<1>5. m \in 1..N /\ m - 1 \notin S /\ m - 1 \in 0..N
  BY <1>4
<1>6. 1..(m - 1) \in T
  BY <1>5
<1>7. m \in 1..m /\ m \notin 1..(m - 1) /\ 1..(m - 1) \subseteq 1..m
  BY <1>5
<1>8. <<1..(m - 1), X>> \in R
  BY <1>4, <1>5, <1>7 DEF StrictSubsetOrdering
<1> QED
  BY <1>3, <1>6, <1>8

\* A sequence without one of its elements.
LEMMA RemovedAt ==
    ASSUME NEW S, NEW s \in Seq(S), NEW i \in 1..Len(s)
    PROVE  /\ RemoveAt(s, i) \in Seq(S)
           /\ Len(RemoveAt(s, i)) = Len(s) - 1
           /\ \A j \in 1..(Len(s) - 1) : RemoveAt(s, i)[j] = IF j < i THEN s[j] ELSE s[j + 1]
<1> DEFINE n == Len(s)
           a == SubSeq(s, 1, i - 1)
           b == SubSeq(s, i + 1, n)
<1>1. n \in Nat /\ i \in Nat /\ 1 <= i /\ i <= n /\ \A j \in 1..n : s[j] \in S
  OBVIOUS
<1>2. RemoveAt(s, i) = a \o b
  BY DEF RemoveAt
<1>3. /\ a \in Seq(S)
      /\ Len(a) = i - 1
      /\ \A j \in 1..(i - 1) : a[j] = s[j]
  <2>1. \A j \in 1..(i - 1) : s[j] \in S
    BY <1>1
  <2>2. /\ a \in Seq(S)
        /\ Len(a) = IF 1 <= i - 1 THEN (i - 1) - 1 + 1 ELSE 0
        /\ \A j \in 1..((i - 1) - 1 + 1) : a[j] = s[1 + j - 1]
    BY <1>1, <2>1, SubSeqProperties
  <2> QED
    BY <1>1, <2>2
<1>4. /\ b \in Seq(S)
      /\ Len(b) = n - i
      /\ \A j \in 1..(n - i) : b[j] = s[i + j]
  <2>1. \A j \in (i + 1)..n : s[j] \in S
    BY <1>1
  <2>2. /\ b \in Seq(S)
        /\ Len(b) = IF i + 1 <= n THEN n - (i + 1) + 1 ELSE 0
        /\ \A j \in 1..(n - (i + 1) + 1) : b[j] = s[i + 1 + j - 1]
    BY <1>1, <2>1, SubSeqProperties
  <2> QED
    BY <1>1, <2>2
<1> HIDE DEF a, b
<1>5. /\ a \o b \in Seq(S)
      /\ Len(a \o b) = n - 1
      /\ \A j \in 1..(n - 1) : (a \o b)[j] = IF j <= Len(a) THEN a[j] ELSE b[j - Len(a)]
  BY <1>1, <1>3, <1>4, ConcatProperties
<1>6. ASSUME NEW j \in 1..(n - 1)
      PROVE  (a \o b)[j] = IF j < i THEN s[j] ELSE s[j + 1]
  <2>1. CASE j < i
    BY <1>1, <1>3, <1>5, <2>1
  <2>2. CASE ~ (j < i)
    <3>1. j - Len(a) \in 1..(n - i) /\ i + (j - Len(a)) = j + 1 /\ ~ (j <= Len(a))
      BY <1>1, <1>3, <2>2
    <3> QED
      BY <1>4, <1>5, <2>2, <3>1
  <2> QED
    BY <2>1, <2>2
<1> QED
  BY <1>2, <1>5, <1>6

\* All but the last element of a sequence.
LEMMA FrontOf ==
    ASSUME NEW S, NEW s \in Seq(S), s # <<>>
    PROVE  /\ Front(s) \in Seq(S)
           /\ Len(Front(s)) = Len(s) - 1
           /\ \A i \in 1..(Len(s) - 1) : Front(s)[i] = s[i]
<1>1. Len(s) \in Nat \ {0}
  OBVIOUS
<1> DEFINE n == Len(s) - 1
<1>2. n \in Int /\ n >= 0 /\ \A i \in 1..n : s[i] \in S
  BY <1>1
<1>3. Front(s) = SubSeq(s, 1, n)
  BY DEF Front
<1> HIDE DEF n
<1>4. /\ SubSeq(s, 1, n) \in Seq(S)
      /\ Len(SubSeq(s, 1, n)) = IF 1 <= n THEN n - 1 + 1 ELSE 0
      /\ \A i \in 1..(n - 1 + 1) : SubSeq(s, 1, n)[i] = s[1 + i - 1]
  BY <1>2, SubSeqProperties
<1>5. Len(SubSeq(s, 1, n)) = n
  BY <1>2, <1>4
<1>6. \A i \in 1..n : SubSeq(s, 1, n)[i] = s[i]
  BY <1>2, <1>4
<1> QED
  BY <1>3, <1>4, <1>5, <1>6 DEF n

-----------------------------------------------------------------------------
LEMMA GrowsOn ==
    ASSUME NEW n \in Nat, NEW p, NEW st, NEW q, NEW st1, NEW r, NEW st2, IsParser(p),
           Grows(p, st, q, st1, n), Grows(q, st1, r, st2, n)
    PROVE  Grows(p, st, r, st2, n)
<1>1. /\ p.sequence \in Nat /\ q.sequence \in Nat /\ r.sequence \in Nat
      /\ p.sequence <= q.sequence /\ q.sequence <= r.sequence /\ p.sequence <= r.sequence
  BY DEF Grows, Ordered, IsParser
<1>2. /\ Ordered(r, st2, n)
      /\ \A i, t \in Nat : StartAt(st2, i, t) => StartAt(st, i, t) \/ p.sequence < t
      /\ Nested(p, st) => Nested(r, st2)
  BY <1>1 DEF Grows
<1>3. 1..p.sequence \subseteq 1..q.sequence
  BY <1>1
<1>4. /\ Nested(p, st) => \A t \in 1..p.sequence : Plain(p, st, t) => Plain(r, st2, t)
      /\ Nested(p, st) => \A t, s \in 1..p.sequence : EndsFirst(p, st, t, s) => EndsFirst(r, st2, t, s)
  BY <1>3 DEF Grows
<1>5. Len(st) <= Len(st2) /\ \A i \in 1..Len(st) : st2[i] = st[i]
  BY DEF Grows
<1>6. Relates(p, st, r, st2)
  <2>1. Relates(p, st, q, st1) /\ Relates(q, st1, r, st2)
    BY DEF Grows
  <2>2. ASSUME NEW t, NEW C, Family(p, st, t, C)
        PROVE  \E D : C \subseteq D /\ Family(r, st2, t, D)
    <3>1. PICK D : C \subseteq D /\ Family(q, st1, t, D)
      BY <2>1, <2>2 DEF Relates
    <3>2. PICK E : D \subseteq E /\ Family(r, st2, t, E)
      BY <2>1, <3>1 DEF Relates
    <3>3. C \subseteq E
      BY <3>1, <3>2
    <3> QED
      BY <3>2, <3>3
  <2> QED
    BY <2>1, <2>2 DEF Relates
<1> QED
  BY <1>1, <1>2, <1>4, <1>5, <1>6 DEF Grows

-----------------------------------------------------------------------------
(* Families, by one message or a parser's step. *)

\* No member is added: the starts that join have other parents, and when r itself
\* finishes, none of its family is open.
LEMMA FamilyStays ==
    ASSUME NEW p, NEW st, NEW p1, NEW st1, NEW r, NEW C, Family(p, st, r, C),
           p.sequence \in Nat, p1.sequence \in Nat, p.sequence <= p1.sequence,
           \A i, t \in Nat : StartAt(st1, i, t) =>
              \/ StartAt(st, i, t) /\ st1[i].event.parent = st[i].event.parent
              \/ st1[i].event.parent \notin C,
           \A j \in Nat : FinishAt(st1, j, r) =>
              \/ FinishAt(st, j, r)
              \/ /\ \A i, t \in Nat : StartAt(st1, i, t) => i < j
                 /\ \A k \in Keys : \A x, t \in Nat : Stacked(p1, k, x, t) => t \notin C,
           \A k \in Keys : \A x, t \in Nat : Stacked(p1, k, x, t) /\ t \in C => Stacked(p, k, x, t)
    PROVE  Family(p1, st1, r, C)
<1>1. r \in C /\ C \subseteq 1..p1.sequence /\ r \in Nat
  BY DEF Family
<1>2. ASSUME NEW i \in Nat, NEW t \in Nat, StartAt(st1, i, t), st1[i].event.parent \in C
      PROVE  t \in C /\ \A j \in Nat : FinishAt(st1, j, r) => i < j
  <2>1. StartAt(st, i, t) /\ st[i].event.parent \in C
    BY <1>2
  <2>2. t \in C /\ \A j \in Nat : FinishAt(st, j, r) => i < j
    BY <2>1 DEF Family
  <2> QED
    BY <1>2, <2>2
<1>3. ASSUME NEW k \in Keys, NEW x \in Nat, NEW t \in Nat, Stacked(p1, k, x, t), t \in C
      PROVE  /\ \A j \in Nat : ~ FinishAt(st1, j, r)
             /\ \A l \in Keys : \A y \in Nat : Stacked(p1, l, y, r) => l = k /\ y <= x
  <2>1. Stacked(p, k, x, t)
    BY <1>3
  <2>2. /\ \A j \in Nat : ~ FinishAt(st, j, r)
        /\ \A l \in Keys : \A y \in Nat : Stacked(p, l, y, r) => l = k /\ y <= x
    BY <1>3, <2>1 DEF Family
  <2>3. \A j \in Nat : ~ FinishAt(st1, j, r)
    BY <1>3, <2>2
  <2>4. \A l \in Keys : \A y \in Nat : Stacked(p1, l, y, r) => Stacked(p, l, y, r)
    BY <1>1
  <2> QED
    BY <2>2, <2>3, <2>4
<1> QED
  BY <1>1, <1>2, <1>3 DEF Family

LEMMA SpentStays ==
    ASSUME NEW p, NEW st, NEW p1, NEW st1, NEW C, Spent(p, st, C),
           p.sequence \in Nat, p1.sequence \in Nat, p.sequence <= p1.sequence,
           \A i, t \in Nat : StartAt(st1, i, t) =>
              \/ StartAt(st, i, t) /\ st1[i].event.parent = st[i].event.parent
              \/ st1[i].event.parent \notin C,
           \A k \in Keys : \A x, t \in Nat : Stacked(p1, k, x, t) /\ t \in C => Stacked(p, k, x, t)
    PROVE  Spent(p1, st1, C)
<1>1. C \subseteq 1..p1.sequence
  BY DEF Spent
<1>2. \A i, t \in Nat : StartAt(st1, i, t) => st1[i].event.parent \notin C
  BY DEF Spent
<1>3. \A k \in Keys : \A x, t \in Nat : Stacked(p1, k, x, t) => t \notin C
  BY DEF Spent
<1> QED
  BY <1>1, <1>2, <1>3 DEF Spent

\* Families that stay, and one for each start that joins.
LEMMA RelatesBy ==
    ASSUME NEW p, NEW st, NEW p1, NEW st1,
           \A r, C : Family(p, st, r, C) => \E D : C \subseteq D /\ Family(p1, st1, r, D),
           \A C : Spent(p, st, C) => Spent(p1, st1, C),
           \A i, t \in Nat : StartAt(st1, i, t) =>
              (\E j \in Nat : StartAt(st, j, t)) \/ (\E C : Family(p1, st1, t, C))
    PROVE  Relates(p, st, p1, st1)
<1>1. ASSUME Related(p, st), NEW i \in Nat, NEW t \in Nat, StartAt(st1, i, t)
      PROVE  \E C : Family(p1, st1, t, C)
  <2>1. CASE \E j \in Nat : StartAt(st, j, t)
    <3>1. PICK C : Family(p, st, t, C)
      BY <1>1, <2>1 DEF Related
    <3> QED
      BY <3>1
  <2>2. CASE \E C : Family(p1, st1, t, C)
    BY <2>2
  <2> QED
    BY <1>1, <2>1, <2>2
<1>2. Related(p, st) => Related(p1, st1)
  BY <1>1 DEF Related
<1> QED
  BY <1>2 DEF Relates

-----------------------------------------------------------------------------
(* One message more. *)

LEMMA OneMore ==
    ASSUME NEW S, NEW st \in Seq(S), NEW m \in S
    PROVE  /\ Append(st, m) \in Seq(S)
           /\ Len(st) \in Nat
           /\ Len(Append(st, m)) = Len(st) + 1
           /\ \A i \in 1..Len(st) : Append(st, m)[i] = st[i]
           /\ Append(st, m)[Len(st) + 1] = m
           /\ \A i, t \in Nat : StartAt(Append(st, m), i, t) <=>
                 \/ StartAt(st, i, t)
                 \/ i = Len(st) + 1 /\ m.event.phase = "start" /\ m.event.sequence = t /\ t # 0
           /\ \A i, t \in Nat : FinishAt(Append(st, m), i, t) <=>
                 \/ FinishAt(st, i, t)
                 \/ i = Len(st) + 1 /\ m.event.phase = "finish" /\ m.event.sequence = t /\ t # 0
<1> DEFINE st1 == Append(st, m)
           n == Len(st)
<1>1. /\ st1 \in Seq(S)
      /\ n \in Nat
      /\ Len(st1) = n + 1
      /\ \A i \in 1..n : st1[i] = st[i]
      /\ st1[n + 1] = m
  OBVIOUS
<1> HIDE DEF st1
<1>2. \A i \in Nat : i \in 1..Len(st1) <=> i \in 1..n \/ i = n + 1
  BY <1>1
<1>3. n + 1 \notin 1..n
  BY <1>1
<1>4. ASSUME NEW i \in Nat, NEW t \in Nat
      PROVE  StartAt(st1, i, t) <=>
                 \/ StartAt(st, i, t)
                 \/ i = n + 1 /\ m.event.phase = "start" /\ m.event.sequence = t /\ t # 0
  BY <1>1, <1>2, <1>3, Zenon DEF StartAt
<1>5. ASSUME NEW i \in Nat, NEW t \in Nat
      PROVE  FinishAt(st1, i, t) <=>
                 \/ FinishAt(st, i, t)
                 \/ i = n + 1 /\ m.event.phase = "finish" /\ m.event.sequence = t /\ t # 0
  BY <1>1, <1>2, <1>3, Zenon DEF FinishAt
<1> QED
  BY <1>1, <1>4, <1>5 DEF st1

\* What every message that joins an ordered stream must keep to; p1 is the parser
\* that wrote it.
Joining(p, st, p1, m, n) ==
    /\ IsParser(p1)
    /\ m \in Messages(n)
    /\ p1.sequence \in {p.sequence, p.sequence + 1}
    /\ m.event.sequence <= p1.sequence
    /\ m.event.sequence # 0 => m.attachment \in Connections
    /\ m.event.phase = "start" /\ m.event.sequence # 0 =>
          /\ m.event.sequence = p.sequence + 1
          /\ p1.sequence = p.sequence + 1
          /\ m.event.parent <= p.sequence

LEMMA JoiningIsOrdered ==
    ASSUME NEW n \in Nat, NEW p, NEW st, NEW p1, NEW m, Ordered(p, st, n), Joining(p, st, p1, m, n),
           \A k \in Keys : \A x, t \in Nat : Stacked(p1, k, x, t) => t \in 1..p1.sequence,
           \A k, l \in Keys : \A x, y, t \in Nat :
              Stacked(p1, k, x, t) /\ Stacked(p1, l, y, t) => k = l /\ x = y
    PROVE  /\ Ordered(p1, Append(st, m), n)
           /\ p.sequence <= p1.sequence
           /\ Len(st) <= Len(Append(st, m))
           /\ \A i \in 1..Len(st) : Append(st, m)[i] = st[i]
           /\ \A i, t \in Nat : StartAt(Append(st, m), i, t) => StartAt(st, i, t) \/ p.sequence < t
<1> DEFINE st1 == Append(st, m)
<1>1. /\ st1 \in Seq(Messages(n))
      /\ Len(st) \in Nat
      /\ Len(st1) = Len(st) + 1
      /\ \A i \in 1..Len(st) : st1[i] = st[i]
      /\ st1[Len(st) + 1] = m
      /\ \A i, t \in Nat : StartAt(st1, i, t) <=>
            \/ StartAt(st, i, t)
            \/ i = Len(st) + 1 /\ m.event.phase = "start" /\ m.event.sequence = t /\ t # 0
  BY OneMore DEF Ordered, Joining
<1> HIDE DEF st1
<1>2. p.sequence \in Nat /\ p1.sequence \in Nat /\ p.sequence <= p1.sequence
  BY DEF Ordered, Joining, IsParser
<1>3. ASSUME NEW i \in 1..Len(st1)
      PROVE  /\ st1[i].event.sequence <= p1.sequence
             /\ st1[i].event.sequence # 0 => st1[i].attachment \in Connections
  <2>1. CASE i = Len(st) + 1
    BY <1>1, <2>1 DEF Joining
  <2>2. CASE i # Len(st) + 1
    <3>1. i \in 1..Len(st) /\ st1[i] = st[i]
      BY <1>1, <2>2
    <3>2. st[i] \in Messages(n)
      BY <3>1 DEF Ordered
    <3>3. st[i].event.sequence \in Nat
      BY <3>2 DEF Messages, Events
    <3> QED
      BY <1>2, <3>1, <3>3 DEF Ordered
  <2> QED
    BY <2>1, <2>2
<1>4. ASSUME NEW i \in Nat, NEW t \in Nat, StartAt(st1, i, t)
      PROVE  StartAt(st, i, t) \/ (i = Len(st) + 1 /\ t = p.sequence + 1)
  BY <1>1, <1>4 DEF Joining
<1>5. ASSUME NEW i \in Nat, NEW t \in Nat, StartAt(st1, i, t)
      PROVE  st1[i].event.parent < t
  <2>1. CASE StartAt(st, i, t)
    <3>1. i \in 1..Len(st)
      BY <2>1 DEF StartAt
    <3> QED
      BY <1>1, <2>1, <3>1 DEF Ordered
  <2>2. CASE ~ StartAt(st, i, t)
    <3>1. i = Len(st) + 1 /\ m.event.phase = "start" /\ m.event.sequence = t /\ t # 0
      BY <1>1, <1>5, <2>2
    <3>2. m.event.parent \in Nat
      BY DEF Joining, Messages, Events
    <3> QED
      BY <1>1, <1>2, <3>1, <3>2 DEF Joining
  <2> QED
    BY <2>1, <2>2
<1>6. ASSUME NEW i \in Nat, NEW t \in Nat, StartAt(st, i, t)
      PROVE  i < Len(st) + 1 /\ t < p.sequence + 1
  <2>1. i \in 1..Len(st) /\ st[i].event.sequence = t
    BY <1>6 DEF StartAt
  <2> QED
    BY <1>1, <1>2, <2>1 DEF Ordered
<1>7. ASSUME NEW i \in Nat, NEW j \in Nat, NEW s \in Nat, NEW t \in Nat,
             i < j, StartAt(st1, i, s), StartAt(st1, j, t)
      PROVE  s < t
  <2>1. CASE StartAt(st, i, s) /\ StartAt(st, j, t)
    BY <1>7, <2>1 DEF Ordered
  <2>2. CASE StartAt(st, i, s) /\ ~ StartAt(st, j, t)
    BY <1>4, <1>6, <1>7, <2>2
  <2>3. CASE ~ StartAt(st, i, s)
    <3>1. i = Len(st) + 1
      BY <1>4, <1>7, <2>3
    <3>2. j \in 1..(Len(st) + 1)
      BY <1>1, <1>7 DEF StartAt
    <3> QED
      BY <1>1, <1>7, <3>1, <3>2
  <2> QED
    BY <2>1, <2>2, <2>3
<1>8. Ordered(p1, st1, n)
  BY <1>1, <1>3, <1>5, <1>7 DEF Ordered, Joining
<1>9. \A i, t \in Nat : StartAt(st1, i, t) => StartAt(st, i, t) \/ p.sequence < t
  BY <1>2, <1>4
<1> QED
  BY <1>1, <1>2, <1>8, <1>9 DEF st1

-----------------------------------------------------------------------------
(* What one message and the step of the parser that wrote it may do. *)

\* A message without a sequence; stacks may have been forgotten.
Quiet(p, p1, m) ==
    /\ p1.sequence = p.sequence
    /\ m.event.sequence = 0
    /\ \A k \in Keys : StackOf(p1, k) \in {StackOf(p, k), <<>>}

\* A start that found no room: every stack was forgotten.
Spills(p, p1, m) ==
    /\ p1.sequence = p.sequence + 1
    /\ m.event.phase = "start"
    /\ m.event.sequence = p.sequence + 1
    /\ m.event.parent = 0
    /\ m.attachment \in Connections
    /\ \A k \in Keys : StackOf(p1, k) = <<>>

\* A start on top of the stack of k.
Pushes(p, p1, k, f, m) ==
    /\ f \in Activities
    /\ p1.sequence = p.sequence + 1
    /\ m.event.phase = "start"
    /\ m.event.sequence = p.sequence + 1
    /\ m.event.parent = Enclosing(StackOf(p, k))
    /\ m.attachment \in Connections
    /\ m.token = NoToken <=> ~ IsMarker(f)
    /\ \A j \in Keys : StackOf(p1, j) = IF j = k THEN Append(StackOf(p, k), Frame(f, p.sequence + 1))
                                        ELSE StackOf(p, j)

\* The finish of the top of the stack of k.
Pops(p, p1, k, m) ==
    /\ StackOf(p, k) # <<>>
    /\ p1.sequence = p.sequence
    /\ m.event.phase = "finish"
    /\ m.event.sequence = Last(StackOf(p, k)).sequence
    /\ m.attachment \in Connections
    /\ m.token = NoToken <=> ~ IsMarker(Last(StackOf(p, k)).activity)
    /\ \A j \in Keys : StackOf(p1, j) = IF j = k THEN Front(StackOf(p, k)) ELSE StackOf(p, j)

LEMMA QuietGrows ==
    ASSUME NEW n \in Nat, NEW p, NEW st, NEW p1, NEW m, Ordered(p, st, n),
           IsParser(p1), m \in Messages(n), Quiet(p, p1, m)
    PROVE  Grows(p, st, p1, Append(st, m), n)
<1> DEFINE st1 == Append(st, m)
<1>1. p.sequence \in Nat /\ p1.sequence = p.sequence /\ m.event.sequence = 0
  BY DEF Ordered, IsParser, Quiet
<1>2. /\ \A i, t \in Nat : StartAt(st1, i, t) <=> StartAt(st, i, t)
      /\ \A i, t \in Nat : FinishAt(st1, i, t) <=> FinishAt(st, i, t)
      /\ \A i \in 1..Len(st) : st1[i] = st[i]
  <2>1. st \in Seq(Messages(n))
    BY DEF Ordered
  <2>2. /\ \A i, t \in Nat : StartAt(st1, i, t) <=>
              \/ StartAt(st, i, t)
              \/ i = Len(st) + 1 /\ m.event.phase = "start" /\ m.event.sequence = t /\ t # 0
        /\ \A i, t \in Nat : FinishAt(st1, i, t) <=>
              \/ FinishAt(st, i, t)
              \/ i = Len(st) + 1 /\ m.event.phase = "finish" /\ m.event.sequence = t /\ t # 0
        /\ \A i \in 1..Len(st) : st1[i] = st[i]
    BY <2>1, OneMore
  <2> HIDE DEF st1
  <2> QED
    BY <1>1, <2>2
<1>3. ASSUME NEW k \in Keys, NEW x \in Nat, NEW t \in Nat, Stacked(p1, k, x, t)
      PROVE  StackOf(p1, k) = StackOf(p, k) /\ Stacked(p, k, x, t)
  <2>1. StackOf(p1, k) # <<>>
    BY <1>3 DEF Stacked
  <2>2. StackOf(p1, k) = StackOf(p, k)
    BY <2>1 DEF Quiet
  <2> QED
    BY <1>3, <2>2 DEF Stacked
<1>4. Joining(p, st, p1, m, n)
  BY <1>1 DEF Joining
<1>5. /\ \A k \in Keys : \A x, t \in Nat : Stacked(p1, k, x, t) => t \in 1..p1.sequence
      /\ \A k, l \in Keys : \A x, y, t \in Nat :
            Stacked(p1, k, x, t) /\ Stacked(p1, l, y, t) => k = l /\ x = y
  BY <1>1, <1>3 DEF Ordered
<1>6. /\ Ordered(p1, st1, n)
      /\ p.sequence <= p1.sequence
      /\ Len(st) <= Len(st1)
      /\ \A i \in 1..Len(st) : st1[i] = st[i]
      /\ \A i, t \in Nat : StartAt(st1, i, t) => StartAt(st, i, t) \/ p.sequence < t
  BY <1>4, <1>5, JoiningIsOrdered
<1> HIDE DEF st1
<1>7. ASSUME NEW t \in Nat, Plain(p, st, t)
      PROVE  Plain(p1, st1, t)
  <2>1. ASSUME NEW k \in Keys, NEW x \in Nat, Stacked(p1, k, x, t)
        PROVE  ~ IsMarker(StackOf(p1, k)[x].activity)
    <3>1. StackOf(p1, k) = StackOf(p, k) /\ Stacked(p, k, x, t)
      BY <1>3, <2>1
    <3> QED
      BY <1>7, <3>1 DEF Plain
  <2>2. ASSUME NEW j \in Nat, FinishAt(st1, j, t)
        PROVE  st1[j].token = NoToken
    <3>1. FinishAt(st, j, t) /\ st1[j] = st[j]
      BY <1>2, <2>2 DEF FinishAt
    <3> QED
      BY <1>7, <3>1 DEF Plain
  <2> QED
    BY <2>1, <2>2 DEF Plain
<1>8. ASSUME NEW t \in Nat, NEW r \in Nat, EndsFirst(p, st, t, r)
      PROVE  EndsFirst(p1, st1, t, r)
  <2>1. ASSUME NEW j \in Nat, FinishAt(st1, j, r)
        PROVE  \E i \in Nat : i < j /\ FinishAt(st1, i, t)
    BY <1>2, <1>8, <2>1 DEF EndsFirst
  <2>2. ASSUME NEW k \in Keys, NEW x \in Nat, Stacked(p1, k, x, r)
        PROVE  \/ \E i \in Nat : FinishAt(st1, i, t)
               \/ \E y \in Nat : x < y /\ Stacked(p1, k, y, t)
    <3>1. StackOf(p1, k) = StackOf(p, k) /\ Stacked(p, k, x, r)
      BY <1>3, <2>2
    <3>2. \A y \in Nat : Stacked(p, k, y, t) => Stacked(p1, k, y, t)
      BY <3>1 DEF Stacked
    <3> QED
      BY <1>2, <1>8, <3>1, <3>2 DEF EndsFirst
  <2> QED
    BY <2>1, <2>2 DEF EndsFirst
<1>9. ASSUME Nested(p, st)
      PROVE  Nested(p1, st1)
  <2>1. \A k \in Keys : \A x, t, i \in Nat : ~ (Stacked(p1, k, x, t) /\ FinishAt(st1, i, t))
    BY <1>2, <1>3, <1>9 DEF Nested
  <2>2. \A i, j, t \in Nat : StartAt(st1, i, t) /\ FinishAt(st1, j, t) => i < j
    BY <1>2, <1>9 DEF Nested
  <2>3. ASSUME NEW i \in Nat, NEW t \in Nat, StartAt(st1, i, t)
        PROVE  /\ st1[i].event.parent # 0 => EndsFirst(p1, st1, t, st1[i].event.parent)
               /\ st1[i].token = NoToken => Plain(p1, st1, t)
    <3>1. StartAt(st, i, t) /\ st1[i] = st[i] /\ i \in 1..Len(st)
      BY <1>2, <2>3 DEF StartAt
    <3>2. st[i].event.parent \in Nat
      <4>1. st[i] \in Messages(n)
        BY <3>1 DEF Ordered
      <4> QED
        BY <4>1 DEF Messages, Events
    <3> QED
      BY <1>7, <1>8, <1>9, <3>1, <3>2 DEF Nested
  <2> QED
    BY <2>1, <2>2, <2>3 DEF Nested
<1>10. 1..p.sequence \subseteq Nat
  BY <1>1
<1>11. \A i, t \in Nat : StartAt(st1, i, t) => StartAt(st, i, t) /\ st1[i].event.parent = st[i].event.parent
  BY <1>2 DEF StartAt
<1>12. Relates(p, st, p1, st1)
  <2>1. ASSUME NEW r, NEW C, Family(p, st, r, C)
        PROVE  Family(p1, st1, r, C)
    <3>1. \A j \in Nat : FinishAt(st1, j, r) => FinishAt(st, j, r)
      BY <1>2, <1>10, <2>1 DEF Family
    <3> QED
      BY <1>1, <1>3, <1>11, <2>1, <3>1, FamilyStays
  <2>2. ASSUME NEW C, Spent(p, st, C)
        PROVE  Spent(p1, st1, C)
    BY <1>1, <1>3, <1>11, <2>2, SpentStays
  <2>3. \A r, C : Family(p, st, r, C) => \E D : C \subseteq D /\ Family(p1, st1, r, D)
    BY <2>1
  <2> QED
    BY <1>11, <2>2, <2>3, RelatesBy
<1> QED
  BY <1>6, <1>7, <1>8, <1>9, <1>10, <1>12 DEF Grows, st1

LEMMA SpillsGrows ==
    ASSUME NEW n \in Nat, NEW p, NEW st, NEW p1, NEW m, Ordered(p, st, n),
           IsParser(p1), m \in Messages(n), Spills(p, p1, m)
    PROVE  Grows(p, st, p1, Append(st, m), n)
<1> DEFINE st1 == Append(st, m)
           s == p.sequence + 1
<1>1. /\ p.sequence \in Nat /\ p1.sequence = s /\ m.event.sequence = s /\ s # 0
      /\ m.event.phase = "start" /\ m.event.parent = 0
  BY DEF Ordered, IsParser, Spills
<1>2. /\ st \in Seq(Messages(n)) /\ Len(st) \in Nat
      /\ \A i, t \in Nat : StartAt(st1, i, t) <=> StartAt(st, i, t) \/ (i = Len(st) + 1 /\ t = s)
      /\ \A i, t \in Nat : FinishAt(st1, i, t) <=> FinishAt(st, i, t)
      /\ \A i \in 1..Len(st) : st1[i] = st[i]
      /\ st1[Len(st) + 1] = m
  <2>1. st \in Seq(Messages(n))
    BY DEF Ordered
  <2>2. /\ \A i, t \in Nat : StartAt(st1, i, t) <=>
              \/ StartAt(st, i, t)
              \/ i = Len(st) + 1 /\ m.event.phase = "start" /\ m.event.sequence = t /\ t # 0
        /\ \A i, t \in Nat : FinishAt(st1, i, t) <=>
              \/ FinishAt(st, i, t)
              \/ i = Len(st) + 1 /\ m.event.phase = "finish" /\ m.event.sequence = t /\ t # 0
        /\ Len(st) \in Nat
        /\ \A i \in 1..Len(st) : st1[i] = st[i]
        /\ st1[Len(st) + 1] = m
    BY <2>1, OneMore
  <2> HIDE DEF st1, s
  <2> QED
    BY <1>1, <2>1, <2>2
<1>3. \A k \in Keys : \A x, t \in Nat : ~ Stacked(p1, k, x, t)
  BY DEF Spills, Stacked
<1>4. Joining(p, st, p1, m, n)
  BY <1>1 DEF Joining, Spills
<1>5. /\ Ordered(p1, st1, n)
      /\ p.sequence <= p1.sequence
      /\ Len(st) <= Len(st1)
      /\ \A i \in 1..Len(st) : st1[i] = st[i]
      /\ \A i, t \in Nat : StartAt(st1, i, t) => StartAt(st, i, t) \/ p.sequence < t
  BY <1>3, <1>4, JoiningIsOrdered
<1> HIDE DEF st1
<1>6. ASSUME NEW t \in Nat, NEW j \in Nat, FinishAt(st, j, t)
      PROVE  t <= p.sequence /\ j \in 1..Len(st)
  BY <1>6 DEF FinishAt, Ordered
<1>7. ASSUME NEW t \in Nat, Plain(p, st, t)
      PROVE  Plain(p1, st1, t)
  <2>1. ASSUME NEW j \in Nat, FinishAt(st1, j, t)
        PROVE  st1[j].token = NoToken
    <3>1. FinishAt(st, j, t) /\ st1[j] = st[j]
      BY <1>2, <1>6, <2>1
    <3> QED
      BY <1>7, <3>1 DEF Plain
  <2> QED
    BY <1>3, <2>1 DEF Plain
<1>8. ASSUME NEW t \in Nat, NEW r \in Nat, EndsFirst(p, st, t, r)
      PROVE  EndsFirst(p1, st1, t, r)
  <2>1. ASSUME NEW j \in Nat, FinishAt(st1, j, r)
        PROVE  \E i \in Nat : i < j /\ FinishAt(st1, i, t)
    BY <1>2, <1>8, <2>1 DEF EndsFirst
  <2> QED
    BY <1>3, <2>1 DEF EndsFirst
<1>9. Plain(p1, st1, s)
  <2>1. \A j \in Nat : ~ FinishAt(st1, j, s)
    BY <1>1, <1>2, <1>6
  <2> QED
    BY <1>1, <1>3, <2>1 DEF Plain
<1>10. ASSUME Nested(p, st)
       PROVE  Nested(p1, st1)
  <2>2. ASSUME NEW i \in Nat, NEW j \in Nat, NEW t \in Nat, StartAt(st1, i, t), FinishAt(st1, j, t)
        PROVE  i < j
    <3>1. FinishAt(st, j, t) /\ t <= p.sequence
      BY <1>2, <1>6, <2>2
    <3>2. StartAt(st, i, t)
      BY <1>1, <1>2, <2>2, <3>1
    <3> QED
      BY <1>10, <3>1, <3>2 DEF Nested
  <2>3. ASSUME NEW i \in Nat, NEW t \in Nat, StartAt(st1, i, t)
        PROVE  /\ st1[i].event.parent # 0 => EndsFirst(p1, st1, t, st1[i].event.parent)
               /\ st1[i].token = NoToken => Plain(p1, st1, t)
    <3>1. CASE StartAt(st, i, t)
      <4>1. st1[i] = st[i] /\ i \in 1..Len(st)
        BY <1>2, <3>1 DEF StartAt
      <4>2. st[i] \in Messages(n)
        BY <1>2, <4>1
      <4>3. st[i].event.parent \in Nat
        BY <4>2 DEF Messages, Events
      <4> QED
        BY <1>7, <1>8, <1>10, <3>1, <4>1, <4>3 DEF Nested
    <3>2. CASE i = Len(st) + 1 /\ t = s
      BY <1>1, <1>2, <1>9, <3>2
    <3> QED
      BY <1>2, <2>3, <3>1, <3>2
  <2> QED
    BY <1>3, <2>2, <2>3 DEF Nested
<1>11. 1..p.sequence \subseteq Nat
  BY <1>1
<1>12. ASSUME NEW i \in Nat, NEW t \in Nat, StartAt(st1, i, t)
       PROVE  \/ StartAt(st, i, t) /\ st1[i].event.parent = st[i].event.parent
              \/ t = s /\ st1[i].event.parent = 0
  <2>1. CASE StartAt(st, i, t)
    <3>1. st1[i] = st[i]
      BY <1>2, <2>1 DEF StartAt
    <3> QED
      BY <2>1, <3>1
  <2>2. CASE i = Len(st) + 1 /\ t = s
    BY <1>1, <1>2, <2>2
  <2> QED
    BY <1>2, <1>12, <2>1, <2>2
<1>13. Relates(p, st, p1, st1)
  <2>0. /\ p.sequence \in Nat /\ p1.sequence \in Nat /\ p.sequence <= p1.sequence
        /\ \A k \in Keys : \A x, t \in Nat : ~ Stacked(p1, k, x, t)
    BY <1>1, <1>3
  <2>1. ASSUME NEW r, NEW C, Family(p, st, r, C)
        PROVE  Family(p1, st1, r, C)
    <3>1. 0 \notin C
      BY <1>1, <2>1 DEF Family
    <3>2. \A j \in Nat : FinishAt(st1, j, r) => FinishAt(st, j, r)
      BY <1>2, <1>11, <2>1 DEF Family
    <3>3. \A i, t \in Nat : StartAt(st1, i, t) =>
             \/ StartAt(st, i, t) /\ st1[i].event.parent = st[i].event.parent
             \/ st1[i].event.parent \notin C
      BY <1>12, <3>1
    <3> QED
      BY <2>0, <2>1, <3>2, <3>3, FamilyStays
  <2>2. ASSUME NEW C, Spent(p, st, C)
        PROVE  Spent(p1, st1, C)
    <3>1. 0 \notin C
      BY <1>1, <2>2 DEF Spent
    <3>3. \A i, t \in Nat : StartAt(st1, i, t) =>
             \/ StartAt(st, i, t) /\ st1[i].event.parent = st[i].event.parent
             \/ st1[i].event.parent \notin C
      BY <1>12, <3>1
    <3> QED
      BY <2>0, <2>2, <3>3, SpentStays
  <2>3. Family(p1, st1, s, {s})
    <3>1. \A i, t \in Nat : StartAt(st1, i, t) => st1[i].event.parent # s
      <4>1. ASSUME NEW i \in Nat, NEW t \in Nat, StartAt(st, i, t)
            PROVE  st[i].event.parent < t /\ t <= p.sequence /\ st[i].event.parent \in Nat
        <5>1. st[i] \in Messages(n)
          BY <1>2, <4>1 DEF StartAt
        <5> QED
          BY <4>1, <5>1 DEF StartAt, Ordered, Messages, Events
      <4> QED
        BY <1>1, <1>12, <4>1
    <3>2. s \in 1..p1.sequence
      BY <1>1
    <3> HIDE DEF s
    <3> QED
      BY <2>0, <3>1, <3>2 DEF Family
  <2>4. \A r, C : Family(p, st, r, C) => \E D : C \subseteq D /\ Family(p1, st1, r, D)
    BY <2>1
  <2> QED
    BY <1>12, <2>2, <2>3, <2>4, RelatesBy
<1> QED
  BY <1>5, <1>7, <1>8, <1>10, <1>11, <1>13 DEF Grows, st1

LEMMA PushesGrows ==
    ASSUME NEW n \in Nat, NEW p, NEW st, NEW p1, NEW m, NEW k \in Keys, NEW f, Ordered(p, st, n),
           IsParser(p1), m \in Messages(n), Pushes(p, p1, k, f, m)
    PROVE  Grows(p, st, p1, Append(st, m), n)
<1> DEFINE st1 == Append(st, m)
           s == p.sequence + 1
           l == Len(StackOf(p, k))
           e == Enclosing(StackOf(p, k))
<1>1. /\ p.sequence \in Nat /\ p1.sequence = s /\ m.event.sequence = s /\ s # 0 /\ s \in Nat
      /\ m.event.phase = "start" /\ m.event.parent = e
      /\ m.token = NoToken <=> ~ IsMarker(f)
  BY DEF Ordered, IsParser, Pushes
<1>2. /\ st \in Seq(Messages(n)) /\ Len(st) \in Nat
      /\ \A i, t \in Nat : StartAt(st1, i, t) <=> StartAt(st, i, t) \/ (i = Len(st) + 1 /\ t = s)
      /\ \A i, t \in Nat : FinishAt(st1, i, t) <=> FinishAt(st, i, t)
      /\ \A i \in 1..Len(st) : st1[i] = st[i]
      /\ st1[Len(st) + 1] = m
  <2>1. st \in Seq(Messages(n))
    BY DEF Ordered
  <2>2. /\ \A i, t \in Nat : StartAt(st1, i, t) <=>
              \/ StartAt(st, i, t)
              \/ i = Len(st) + 1 /\ m.event.phase = "start" /\ m.event.sequence = t /\ t # 0
        /\ \A i, t \in Nat : FinishAt(st1, i, t) <=>
              \/ FinishAt(st, i, t)
              \/ i = Len(st) + 1 /\ m.event.phase = "finish" /\ m.event.sequence = t /\ t # 0
        /\ Len(st) \in Nat
        /\ \A i \in 1..Len(st) : st1[i] = st[i]
        /\ st1[Len(st) + 1] = m
    BY <2>1, OneMore
  <2> HIDE DEF st1, s
  <2> QED
    BY <1>1, <2>1, <2>2
<1>3. /\ l \in Nat
      /\ StackOf(p, k) \in Seq(Frames)
      /\ Frame(f, s) \in Frames /\ Frame(f, s).sequence = s /\ Frame(f, s).activity = f
  <2>1. StackOf(p, k) \in Seq(Frames)
    BY DEF Ordered, IsParser
  <2>2. f \in Activities
    BY DEF Pushes
  <2>3. Frame(f, s) \in Frames /\ Frame(f, s).sequence = s /\ Frame(f, s).activity = f
    BY <1>1, <2>2 DEF Frames, Frame
  <2> QED
    BY <2>1, <2>3
<1>4. /\ Len(StackOf(p1, k)) = l + 1
      /\ \A x \in 1..l : StackOf(p1, k)[x] = StackOf(p, k)[x]
      /\ StackOf(p1, k)[l + 1].sequence = s
      /\ StackOf(p1, k)[l + 1].activity = f
      /\ \A j \in Keys : j # k => StackOf(p1, j) = StackOf(p, j)
  <2>1. StackOf(p1, k) = Append(StackOf(p, k), Frame(f, s)) /\ \A j \in Keys : j # k => StackOf(p1, j) = StackOf(p, j)
    BY DEF Pushes
  <2> HIDE DEF s
  <2> QED
    BY <1>3, <2>1
<1> HIDE DEF st1, l
<1>5. ASSUME NEW j \in Keys, NEW x \in Nat, NEW t \in Nat
      PROVE  /\ Stacked(p1, j, x, t) <=> Stacked(p, j, x, t) \/ (j = k /\ x = l + 1 /\ t = s)
             /\ Stacked(p, j, x, t) => StackOf(p1, j)[x] = StackOf(p, j)[x]
             /\ Stacked(p, j, x, t) => t \in 1..p.sequence
             /\ Stacked(p, k, x, t) => x <= l
  <2>1. Stacked(p, j, x, t) => t \in 1..p.sequence
    BY DEF Ordered
  <2>2. CASE j # k
    <3>1. Stacked(p, k, x, t) => x <= l
      BY <1>3 DEF Stacked, l
    <3> QED
      BY <1>4, <2>1, <2>2, <3>1 DEF Stacked
  <2>3. CASE j = k
    <3>1. x \in 1..(l + 1) <=> x \in 1..l \/ x = l + 1
      BY <1>3
    <3>2. l + 1 \notin 1..l
      BY <1>3
    <3>3. l = Len(StackOf(p, k))
      BY DEF l
    <3>4. /\ Stacked(p1, k, x, t) <=> Stacked(p, k, x, t) \/ (x = l + 1 /\ t = s)
          /\ Stacked(p, k, x, t) => StackOf(p1, k)[x] = StackOf(p, k)[x]
      BY <1>4, <3>1, <3>2, <3>3, Zenon DEF Stacked
    <3>5. Stacked(p, k, x, t) => x <= l
      BY <1>3, <3>3 DEF Stacked
    <3> QED
      BY <2>1, <2>3, <3>4, <3>5
  <2> QED
    BY <2>2, <2>3
<1>6. e \in Nat /\ e <= p.sequence /\ (e # 0 => l \in 1..l /\ Stacked(p, k, l, e))
  <2>1. CASE StackOf(p, k) = <<>>
    BY <1>1, <2>1 DEF Enclosing
  <2>2. CASE StackOf(p, k) # <<>>
    <3>1. l \in 1..l /\ e = StackOf(p, k)[l].sequence
      BY <1>3, <2>2 DEF Enclosing, Last, l
    <3>2. StackOf(p, k)[l] \in Frames
      BY <1>3, <3>1 DEF l
    <3>3. Stacked(p, k, l, e) /\ e \in Nat
      BY <3>1, <3>2 DEF Stacked, Frames, l
    <3>4. e \in 1..p.sequence
      BY <1>3, <1>5, <3>3
    <3> QED
      BY <1>1, <3>1, <3>3, <3>4
  <2> QED
    BY <2>1, <2>2
<1>7. Joining(p, st, p1, m, n)
  BY <1>1, <1>6 DEF Joining, Pushes
<1>8. /\ \A j \in Keys : \A x, t \in Nat : Stacked(p1, j, x, t) => t \in 1..p1.sequence
      /\ \A i, j \in Keys : \A x, y, t \in Nat :
            Stacked(p1, i, x, t) /\ Stacked(p1, j, y, t) => i = j /\ x = y
  <2>1. s \notin 1..p.sequence /\ 1..p.sequence \subseteq 1..s /\ s \in 1..s
    BY <1>1
  <2>2. ASSUME NEW j \in Keys, NEW x \in Nat, NEW t \in Nat, Stacked(p1, j, x, t)
        PROVE  t \in 1..p1.sequence
    BY <1>1, <1>5, <2>1, <2>2, Zenon
  <2>3. ASSUME NEW i \in Keys, NEW j \in Keys, NEW x \in Nat, NEW y \in Nat, NEW t \in Nat,
               Stacked(p1, i, x, t), Stacked(p1, j, y, t)
        PROVE  i = j /\ x = y
    <3>1. CASE t = s
      <4>1. ~ Stacked(p, i, x, t) /\ ~ Stacked(p, j, y, t)
        BY <1>5, <2>1, <3>1
      <4> QED
        BY <1>5, <2>3, <4>1
    <3>2. CASE t # s
      <4>1. Stacked(p, i, x, t) /\ Stacked(p, j, y, t)
        BY <1>5, <2>3, <3>2
      <4> QED
        BY <4>1 DEF Ordered
    <3> QED
      BY <3>1, <3>2
  <2> QED
    BY <2>2, <2>3
<1>9. /\ Ordered(p1, st1, n)
      /\ p.sequence <= p1.sequence
      /\ Len(st) <= Len(st1)
      /\ \A i \in 1..Len(st) : st1[i] = st[i]
      /\ \A i, t \in Nat : StartAt(st1, i, t) => StartAt(st, i, t) \/ p.sequence < t
  BY <1>7, <1>8, JoiningIsOrdered DEF st1
<1>10. ASSUME NEW t \in Nat, NEW j \in Nat, FinishAt(st, j, t)
       PROVE  t <= p.sequence /\ j \in 1..Len(st)
  BY <1>10 DEF FinishAt, Ordered
<1>11. s \notin 1..p.sequence /\ ~ (s <= p.sequence)
  BY <1>1
<1>12. ASSUME NEW t \in 1..p.sequence, Plain(p, st, t)
       PROVE  Plain(p1, st1, t)
  <2>0. t \in Nat /\ t # s
    BY <1>1, <1>11
  <2>1. ASSUME NEW j \in Nat, FinishAt(st1, j, t)
        PROVE  st1[j].token = NoToken
    <3>1. FinishAt(st, j, t) /\ st1[j] = st[j]
      BY <1>2, <1>10, <2>0, <2>1
    <3> QED
      BY <1>12, <3>1 DEF Plain
  <2>2. ASSUME NEW j \in Keys, NEW x \in Nat, Stacked(p1, j, x, t)
        PROVE  ~ IsMarker(StackOf(p1, j)[x].activity)
    <3>1. Stacked(p, j, x, t) /\ StackOf(p1, j)[x] = StackOf(p, j)[x]
      BY <1>5, <2>0, <2>2
    <3> QED
      BY <1>12, <3>1 DEF Plain
  <2> QED
    BY <2>1, <2>2 DEF Plain
<1>13. ASSUME NEW t \in 1..p.sequence, NEW r \in 1..p.sequence, EndsFirst(p, st, t, r)
       PROVE  EndsFirst(p1, st1, t, r)
  <2>0. t \in Nat /\ r \in Nat /\ r # s
    BY <1>1, <1>11
  <2>1. ASSUME NEW j \in Nat, FinishAt(st1, j, r)
        PROVE  \E i \in Nat : i < j /\ FinishAt(st1, i, t)
    BY <1>2, <1>13, <2>0, <2>1 DEF EndsFirst
  <2>2. ASSUME NEW j \in Keys, NEW x \in Nat, Stacked(p1, j, x, r)
        PROVE  \/ \E i \in Nat : FinishAt(st1, i, t)
               \/ \E y \in Nat : x < y /\ Stacked(p1, j, y, t)
    <3>1. Stacked(p, j, x, r)
      BY <1>5, <2>0, <2>2
    <3>2. \A y \in Nat : Stacked(p, j, y, t) => Stacked(p1, j, y, t)
      BY <1>5, <2>0
    <3> QED
      BY <1>2, <1>13, <2>0, <3>1, <3>2 DEF EndsFirst
  <2> QED
    BY <2>1, <2>2 DEF EndsFirst
<1>14. ASSUME m.token = NoToken
       PROVE  Plain(p1, st1, s)
  <2>1. \A j \in Nat : ~ FinishAt(st1, j, s)
    BY <1>1, <1>2, <1>10, <1>11
  <2>2. ASSUME NEW j \in Keys, NEW x \in Nat, Stacked(p1, j, x, s)
        PROVE  ~ IsMarker(StackOf(p1, j)[x].activity)
    <3>1. ~ Stacked(p, j, x, s)
      BY <1>1, <1>5, <1>11
    <3>2. j = k /\ x = l + 1
      BY <1>1, <1>5, <2>2, <3>1
    <3> QED
      BY <1>1, <1>4, <1>14, <3>2 DEF l
  <2> QED
    BY <2>1, <2>2 DEF Plain
<1>15. ASSUME Nested(p, st), e # 0
       PROVE  EndsFirst(p1, st1, s, e)
  <2>1. Stacked(p, k, l, e) /\ l \in Nat
    BY <1>3, <1>6, <1>15
  <2>2. \A j \in Nat : ~ FinishAt(st1, j, e)
    BY <1>2, <1>6, <1>15, <2>1 DEF Nested
  <2>3. ASSUME NEW j \in Keys, NEW x \in Nat, Stacked(p1, j, x, e)
        PROVE  \E y \in Nat : x < y /\ Stacked(p1, j, y, s)
    <3>1. Stacked(p1, k, l, e)
      BY <1>5, <1>6, <2>1
    <3>2. j = k /\ x = l
      BY <1>6, <1>8, <2>1, <2>3, <3>1
    <3>3. Stacked(p1, k, l + 1, s) /\ l + 1 \in Nat /\ l < l + 1
      BY <1>1, <1>3, <1>5
    <3> QED
      BY <3>2, <3>3
  <2> QED
    BY <2>2, <2>3 DEF EndsFirst
<1>16. ASSUME Nested(p, st)
       PROVE  Nested(p1, st1)
  <2>1. ASSUME NEW j \in Keys, NEW x \in Nat, NEW t \in Nat, NEW i \in Nat,
               Stacked(p1, j, x, t), FinishAt(st1, i, t)
        PROVE  FALSE
    <3>1. FinishAt(st, i, t) /\ t # s
      BY <1>2, <1>10, <1>11, <2>1
    <3>2. Stacked(p, j, x, t)
      BY <1>5, <2>1, <3>1
    <3> QED
      BY <1>16, <3>1, <3>2 DEF Nested
  <2>2. ASSUME NEW i \in Nat, NEW j \in Nat, NEW t \in Nat, StartAt(st1, i, t), FinishAt(st1, j, t)
        PROVE  i < j
    <3>1. FinishAt(st, j, t) /\ t # s
      BY <1>2, <1>10, <1>11, <2>2
    <3>2. StartAt(st, i, t)
      BY <1>2, <2>2, <3>1
    <3> QED
      BY <1>16, <3>1, <3>2 DEF Nested
  <2>3. ASSUME NEW i \in Nat, NEW t \in Nat, StartAt(st1, i, t)
        PROVE  /\ st1[i].event.parent # 0 => EndsFirst(p1, st1, t, st1[i].event.parent)
               /\ st1[i].token = NoToken => Plain(p1, st1, t)
    <3>1. CASE StartAt(st, i, t)
      <4>1. st1[i] = st[i] /\ i \in 1..Len(st)
        BY <1>2, <3>1 DEF StartAt
      <4>2. st[i] \in Messages(n)
        BY <1>2, <4>1
      <4>3. st[i].event.parent \in Nat
        BY <4>2 DEF Messages, Events
      <4>4. t \in 1..p.sequence /\ st[i].event.parent < t
        BY <1>1, <3>1 DEF StartAt, Ordered
      <4>5. st[i].event.parent # 0 => st[i].event.parent \in 1..p.sequence
        BY <1>1, <4>3, <4>4
      <4> QED
        BY <1>12, <1>13, <1>16, <3>1, <4>1, <4>4, <4>5 DEF Nested
    <3>2. CASE i = Len(st) + 1 /\ t = s
      BY <1>1, <1>2, <1>14, <1>15, <1>16, <3>2
    <3> QED
      BY <1>2, <2>3, <3>1, <3>2
  <2> QED
    BY <2>1, <2>2, <2>3 DEF Nested
<1>17. ASSUME NEW i \in Nat, NEW t \in Nat, StartAt(st1, i, t)
       PROVE  \/ StartAt(st, i, t) /\ st1[i].event.parent = st[i].event.parent
              \/ i = Len(st) + 1 /\ t = s /\ st1[i].event.parent = e
  <2>1. CASE StartAt(st, i, t)
    <3>1. st1[i] = st[i]
      BY <1>2, <2>1 DEF StartAt
    <3> QED
      BY <2>1, <3>1
  <2>2. CASE i = Len(st) + 1 /\ t = s
    BY <1>1, <1>2, <2>2
  <2> QED
    BY <1>2, <1>17, <2>1, <2>2
<1> DEFINE seq == p.sequence
<1>18. /\ seq \in Nat /\ p1.sequence \in Nat /\ seq <= p1.sequence
       /\ s \notin 1..seq /\ s \in 1..p1.sequence /\ 1..seq \subseteq 1..p1.sequence
       /\ e \in Nat /\ e # s /\ l \in Nat /\ l < l + 1 /\ s \in Nat
       /\ Len(st) \in Nat
  BY <1>1, <1>2, <1>3, <1>6, <1>11
<1>19. /\ e # 0 => Stacked(p, k, l, e)
       /\ \A j \in Nat : FinishAt(st1, j, s) => FALSE
       /\ \A r \in 1..seq : \A j \in Nat : FinishAt(st1, j, r) => FinishAt(st, j, r)
  BY <1>1, <1>2, <1>6, <1>10, <1>11
<1>20. /\ \A j \in Keys : \A x, t \in Nat : Stacked(p1, j, x, t) =>
             Stacked(p, j, x, t) \/ (j = k /\ x = l + 1 /\ t = s)
       /\ \A j \in Keys : \A x, t \in Nat : Stacked(p, j, x, t) => t \in 1..seq
       /\ \A x, t \in Nat : Stacked(p, k, x, t) => x <= l
  BY <1>5
<1>21. ASSUME NEW i \in Nat, NEW t \in Nat, StartAt(st, i, t)
       PROVE  st[i].event.parent # s /\ i < Len(st) + 1
  <2>1. st[i] \in Messages(n)
    BY <1>2, <1>21 DEF StartAt
  <2>2. st[i].event.parent < t /\ t <= seq /\ st[i].event.parent \in Nat
    BY <1>21, <2>1 DEF StartAt, Ordered, Messages, Events
  <2>3. i \in 1..Len(st)
    BY <1>21 DEF StartAt
  <2> QED
    BY <1>18, <2>2, <2>3
<1> HIDE DEF s, e, seq
<1>22. Relates(p, st, p1, st1)
  <2>1. ASSUME NEW r, NEW C, Family(p, st, r, C)
        PROVE  \E D : C \subseteq D /\ Family(p1, st1, r, D)
    <3>0. r \in C /\ C \subseteq 1..seq
      BY <2>1 DEF Family, seq
    <3>1. \A j \in Nat : FinishAt(st1, j, r) => FinishAt(st, j, r)
      BY <1>19, <3>0
    <3>2. \A j \in Keys : \A x, t \in Nat : Stacked(p1, j, x, t) /\ t \in C => Stacked(p, j, x, t)
      BY <1>18, <1>20, <3>0
    <3>3. CASE e \notin C
      <4>1. \A i, t \in Nat : StartAt(st1, i, t) =>
               \/ StartAt(st, i, t) /\ st1[i].event.parent = st[i].event.parent
               \/ st1[i].event.parent \notin C
        BY <1>17, <3>3
      <4>2. Family(p1, st1, r, C)
        BY <1>18, <2>1, <3>1, <3>2, <4>1, FamilyStays DEF seq
      <4> QED
        BY <4>2
    <3>4. CASE e \in C
      <4> DEFINE D == C \cup {s}
      <4>1. C \subseteq D /\ r \in D /\ D \subseteq 1..p1.sequence
        BY <1>18, <3>0
      <4>2. Stacked(p, k, l, e)
        <5>1. e # 0
          BY <3>0, <3>4
        <5> QED
          BY <1>19, <5>1
      <4>3. /\ \A j \in Nat : ~ FinishAt(st1, j, r)
            /\ \A a \in Keys : \A y \in Nat : Stacked(p, a, y, r) => a = k /\ y <= l
        BY <1>18, <2>1, <3>1, <3>4, <4>2 DEF Family
      <4>4. ASSUME NEW i \in Nat, NEW t \in Nat, StartAt(st1, i, t), st1[i].event.parent \in D
            PROVE  t \in D
        <5>1. CASE StartAt(st, i, t) /\ st1[i].event.parent = st[i].event.parent
          <6>1. st[i].event.parent \in C
            BY <1>21, <4>4, <5>1
          <6> QED
            BY <2>1, <5>1, <6>1 DEF Family
        <5>2. CASE t = s
          BY <5>2
        <5> QED
          BY <1>17, <4>4, <5>1, <5>2
      <4>5. ASSUME NEW j \in Keys, NEW x \in Nat, NEW t \in Nat, Stacked(p1, j, x, t), t \in D,
                   NEW a \in Keys, NEW y \in Nat, Stacked(p1, a, y, r)
            PROVE  a = j /\ y <= x
        <5>1. Stacked(p, a, y, r)
          BY <1>18, <3>0, <3>2, <4>5
        <5>2. CASE t \in C
          <6>1. Stacked(p, j, x, t)
            BY <3>2, <4>5, <5>2
          <6> QED
            BY <2>1, <4>5, <5>1, <5>2, <6>1 DEF Family
        <5>3. CASE t = s
          <6>1. j = k /\ x = l + 1
            BY <1>18, <1>20, <4>5, <5>3
          <6> QED
            BY <1>18, <4>3, <5>1, <6>1
        <5> QED
          BY <4>5, <5>2, <5>3
      <4>6. Family(p1, st1, r, D)
        BY <4>1, <4>3, <4>4, <4>5 DEF Family
      <4> QED
        BY <4>1, <4>6
    <3> QED
      BY <3>3, <3>4
  <2>2. ASSUME NEW C, Spent(p, st, C)
        PROVE  Spent(p1, st1, C)
    <3>1. C \subseteq 1..seq
      BY <2>2 DEF Spent, seq
    <3>2. e \notin C
      <4>1. e # 0 => e \notin C
        BY <1>18, <1>19, <2>2 DEF Spent
      <4> QED
        BY <3>1, <4>1
    <3>3. \A i, t \in Nat : StartAt(st1, i, t) =>
             \/ StartAt(st, i, t) /\ st1[i].event.parent = st[i].event.parent
             \/ st1[i].event.parent \notin C
      BY <1>17, <3>2
    <3>4. \A j \in Keys : \A x, t \in Nat : Stacked(p1, j, x, t) /\ t \in C => Stacked(p, j, x, t)
      BY <1>18, <1>20, <3>1
    <3> QED
      BY <1>18, <2>2, <3>3, <3>4, SpentStays DEF seq
  <2>3. Family(p1, st1, s, {s})
    <3>1. \A i, t \in Nat : StartAt(st1, i, t) => st1[i].event.parent # s
      BY <1>17, <1>18, <1>21
    <3>2. ASSUME NEW j \in Keys, NEW x \in Nat, Stacked(p1, j, x, s)
          PROVE  j = k /\ x = l + 1
      BY <1>18, <1>20, <3>2
    <3> QED
      BY <1>18, <1>19, <3>1, <3>2 DEF Family
  <2> QED
    BY <1>17, <2>1, <2>2, <2>3, RelatesBy
<1> QED
  BY <1>9, <1>12, <1>13, <1>16, <1>22 DEF Grows, st1

LEMMA PopsGrows ==
    ASSUME NEW n \in Nat, NEW p, NEW st, NEW p1, NEW m, NEW k \in Keys, Ordered(p, st, n),
           IsParser(p1), m \in Messages(n), Pops(p, p1, k, m)
    PROVE  Grows(p, st, p1, Append(st, m), n)
<1> DEFINE st1 == Append(st, m)
           l == Len(StackOf(p, k))
           u == Last(StackOf(p, k)).sequence
<1>1. /\ StackOf(p, k) \in Seq(Frames) /\ StackOf(p, k) # <<>>
      /\ l \in Nat /\ l \in 1..l /\ u \in Nat
      /\ Stacked(p, k, l, u)
      /\ Last(StackOf(p, k)) = StackOf(p, k)[l]
  <2>1. StackOf(p, k) \in Seq(Frames) /\ StackOf(p, k) # <<>>
    BY DEF Ordered, IsParser, Pops
  <2>2. l \in Nat /\ l \in 1..l /\ Last(StackOf(p, k)) = StackOf(p, k)[l]
    BY <2>1 DEF Last
  <2>3. StackOf(p, k)[l] \in Frames
    BY <2>1, <2>2
  <2> QED
    BY <2>1, <2>2, <2>3 DEF Stacked, Frames
<1>2. /\ p.sequence \in Nat /\ p1.sequence = p.sequence /\ u \in 1..p.sequence /\ u # 0
      /\ m.event.sequence = u /\ m.event.phase = "finish"
      /\ m.token = NoToken <=> ~ IsMarker(StackOf(p, k)[l].activity)
  <2>1. p.sequence \in Nat /\ u \in 1..p.sequence
    BY <1>1 DEF Ordered, IsParser
  <2> QED
    BY <1>1, <2>1 DEF Pops
<1>3. /\ st \in Seq(Messages(n)) /\ Len(st) \in Nat
      /\ \A i, t \in Nat : StartAt(st1, i, t) <=> StartAt(st, i, t)
      /\ \A i, t \in Nat : FinishAt(st1, i, t) <=> FinishAt(st, i, t) \/ (i = Len(st) + 1 /\ t = u)
      /\ \A i \in 1..Len(st) : st1[i] = st[i]
      /\ st1[Len(st) + 1] = m
  <2>1. st \in Seq(Messages(n))
    BY DEF Ordered
  <2>2. /\ \A i, t \in Nat : StartAt(st1, i, t) <=>
              \/ StartAt(st, i, t)
              \/ i = Len(st) + 1 /\ m.event.phase = "start" /\ m.event.sequence = t /\ t # 0
        /\ \A i, t \in Nat : FinishAt(st1, i, t) <=>
              \/ FinishAt(st, i, t)
              \/ i = Len(st) + 1 /\ m.event.phase = "finish" /\ m.event.sequence = t /\ t # 0
        /\ Len(st) \in Nat
        /\ \A i \in 1..Len(st) : st1[i] = st[i]
        /\ st1[Len(st) + 1] = m
    BY <2>1, OneMore
  <2> HIDE DEF st1, u
  <2> QED
    BY <1>2, <2>1, <2>2
<1>4. /\ Len(Front(StackOf(p, k))) = l - 1
      /\ \A x \in 1..(l - 1) : Front(StackOf(p, k))[x] = StackOf(p, k)[x]
      /\ StackOf(p1, k) = Front(StackOf(p, k))
      /\ \A j \in Keys : j # k => StackOf(p1, j) = StackOf(p, j)
  BY <1>1, FrontOf DEF Pops
<1> HIDE DEF st1, l, u
<1>5. ASSUME NEW j \in Keys, NEW x \in Nat, NEW t \in Nat
      PROVE  /\ Stacked(p1, j, x, t) => Stacked(p, j, x, t) /\ t # u
             /\ Stacked(p, j, x, t) => Stacked(p1, j, x, t) \/ t = u
             /\ Stacked(p1, j, x, t) => StackOf(p1, j)[x] = StackOf(p, j)[x]
             /\ Stacked(p, j, x, t) /\ t = u => j = k /\ x = l
             /\ Stacked(p, j, x, t) => t \in 1..p.sequence
             /\ Stacked(p, k, x, t) => x <= l
  <2>1. Stacked(p, j, x, t) => t \in 1..p.sequence
    BY DEF Ordered
  <2>2. Stacked(p, j, x, t) /\ t = u => j = k /\ x = l
    BY <1>1 DEF Ordered
  <2>3. Stacked(p, k, x, t) => x <= l
    BY <1>1 DEF Stacked, l
  <2>4. CASE j # k
    <3>1. StackOf(p1, j) = StackOf(p, j)
      BY <1>4, <2>4
    <3> QED
      BY <2>1, <2>2, <2>3, <2>4, <3>1 DEF Stacked
  <2>5. CASE j = k
    <3>1. x \in 1..l <=> x \in 1..(l - 1) \/ x = l
      BY <1>1
    <3>2. l \notin 1..(l - 1)
      BY <1>1
    <3>3. l = Len(StackOf(p, k)) /\ Len(StackOf(p1, k)) = l - 1 /\ StackOf(p, k)[l].sequence = u
      BY <1>1, <1>4 DEF l, u
    <3>4. /\ Stacked(p1, k, x, t) => Stacked(p, k, x, t) /\ x # l
          /\ Stacked(p, k, x, t) => Stacked(p1, k, x, t) \/ x = l
          /\ Stacked(p1, k, x, t) => StackOf(p1, k)[x] = StackOf(p, k)[x]
          /\ Stacked(p, k, l, t) => t = u
      BY <1>4, <3>1, <3>2, <3>3, Zenon DEF Stacked
    <3> QED
      BY <2>1, <2>2, <2>3, <2>5, <3>4, Zenon
  <2> QED
    BY <2>4, <2>5
<1>7. Joining(p, st, p1, m, n)
  BY <1>2 DEF Joining, Pops
<1>8. /\ \A j \in Keys : \A x, t \in Nat : Stacked(p1, j, x, t) => t \in 1..p1.sequence
      /\ \A i, j \in Keys : \A x, y, t \in Nat :
            Stacked(p1, i, x, t) /\ Stacked(p1, j, y, t) => i = j /\ x = y
  BY <1>2, <1>5 DEF Ordered
<1>9. /\ Ordered(p1, st1, n)
      /\ p.sequence <= p1.sequence
      /\ Len(st) <= Len(st1)
      /\ \A i \in 1..Len(st) : st1[i] = st[i]
      /\ \A i, t \in Nat : StartAt(st1, i, t) => StartAt(st, i, t) \/ p.sequence < t
  BY <1>7, <1>8, JoiningIsOrdered DEF st1
<1>10. ASSUME NEW t \in Nat, NEW j \in Nat, FinishAt(st, j, t)
       PROVE  j \in 1..Len(st) /\ j < Len(st) + 1 /\ st1[j] = st[j]
  BY <1>3, <1>10 DEF FinishAt
<1>12. ASSUME NEW t \in Nat, Plain(p, st, t)
       PROVE  Plain(p1, st1, t)
  <2>1. ASSUME NEW j \in Nat, FinishAt(st1, j, t)
        PROVE  st1[j].token = NoToken
    <3>1. CASE FinishAt(st, j, t)
      <4>1. st1[j] = st[j]
        BY <1>10, <3>1
      <4> QED
        BY <1>12, <3>1, <4>1 DEF Plain
    <3>2. CASE j = Len(st) + 1 /\ t = u
      <4>1. ~ IsMarker(StackOf(p, k)[l].activity)
        BY <1>1, <1>12, <3>2 DEF Plain
      <4> QED
        BY <1>2, <1>3, <3>2, <4>1
    <3> QED
      BY <1>3, <2>1, <3>1, <3>2
  <2>2. ASSUME NEW j \in Keys, NEW x \in Nat, Stacked(p1, j, x, t)
        PROVE  ~ IsMarker(StackOf(p1, j)[x].activity)
    <3>1. Stacked(p, j, x, t) /\ StackOf(p1, j)[x] = StackOf(p, j)[x]
      BY <1>5, <2>2
    <3> QED
      BY <1>12, <3>1 DEF Plain
  <2> QED
    BY <2>1, <2>2 DEF Plain
<1>13. ASSUME NEW t \in Nat, NEW r \in Nat, EndsFirst(p, st, t, r)
       PROVE  EndsFirst(p1, st1, t, r)
  <2>1. ASSUME NEW j \in Nat, FinishAt(st1, j, r)
        PROVE  \E i \in Nat : i < j /\ FinishAt(st1, i, t)
    <3>1. CASE FinishAt(st, j, r)
      BY <1>3, <1>13, <3>1 DEF EndsFirst
    <3>2. CASE j = Len(st) + 1 /\ r = u
      <4>1. \/ \E i \in Nat : FinishAt(st, i, t)
            \/ \E y \in Nat : l < y /\ Stacked(p, k, y, t)
        BY <1>1, <1>13, <3>2 DEF EndsFirst
      <4>2. ~ \E y \in Nat : l < y /\ Stacked(p, k, y, t)
        BY <1>1, <1>5
      <4>3. PICK i \in Nat : FinishAt(st, i, t)
        BY <4>1, <4>2
      <4>4. i < j /\ FinishAt(st1, i, t)
        BY <1>3, <1>10, <3>2, <4>3
      <4> QED
        BY <4>4
    <3> QED
      BY <1>3, <2>1, <3>1, <3>2
  <2>2. ASSUME NEW j \in Keys, NEW x \in Nat, Stacked(p1, j, x, r)
        PROVE  \/ \E i \in Nat : FinishAt(st1, i, t)
               \/ \E y \in Nat : x < y /\ Stacked(p1, j, y, t)
    <3>1. Stacked(p, j, x, r)
      BY <1>5, <2>2
    <3>2. CASE \E i \in Nat : FinishAt(st, i, t)
      BY <1>3, <3>2
    <3>3. CASE \E y \in Nat : x < y /\ Stacked(p, j, y, t)
      <4>1. PICK y \in Nat : x < y /\ Stacked(p, j, y, t)
        BY <3>3
      <4>2. CASE t = u
        <5>1. FinishAt(st1, Len(st) + 1, t) /\ Len(st) + 1 \in Nat
          BY <1>3, <4>2
        <5> QED
          BY <5>1
      <4>3. CASE t # u
        <5>1. Stacked(p1, j, y, t)
          BY <1>5, <4>1, <4>3
        <5> QED
          BY <4>1, <5>1
      <4> QED
        BY <4>2, <4>3
    <3> QED
      BY <1>13, <3>1, <3>2, <3>3 DEF EndsFirst
  <2> QED
    BY <2>1, <2>2 DEF EndsFirst
<1>16. ASSUME Nested(p, st)
       PROVE  Nested(p1, st1)
  <2>1. ASSUME NEW j \in Keys, NEW x \in Nat, NEW t \in Nat, NEW i \in Nat,
               Stacked(p1, j, x, t), FinishAt(st1, i, t)
        PROVE  FALSE
    <3>1. Stacked(p, j, x, t) /\ t # u
      BY <1>5, <2>1
    <3>2. FinishAt(st, i, t)
      BY <1>3, <2>1, <3>1
    <3> QED
      BY <1>16, <3>1, <3>2 DEF Nested
  <2>2. ASSUME NEW i \in Nat, NEW j \in Nat, NEW t \in Nat, StartAt(st1, i, t), FinishAt(st1, j, t)
        PROVE  i < j
    <3>1. StartAt(st, i, t) /\ i < Len(st) + 1
      BY <1>3, <2>2 DEF StartAt
    <3>2. CASE FinishAt(st, j, t)
      BY <1>16, <3>1, <3>2 DEF Nested
    <3>3. CASE j = Len(st) + 1
      BY <3>1, <3>3
    <3> QED
      BY <1>3, <2>2, <3>2, <3>3
  <2>3. ASSUME NEW i \in Nat, NEW t \in Nat, StartAt(st1, i, t)
        PROVE  /\ st1[i].event.parent # 0 => EndsFirst(p1, st1, t, st1[i].event.parent)
               /\ st1[i].token = NoToken => Plain(p1, st1, t)
    <3>1. StartAt(st, i, t) /\ st1[i] = st[i] /\ i \in 1..Len(st)
      BY <1>3, <2>3 DEF StartAt
    <3>2. st[i] \in Messages(n)
      BY <1>3, <3>1
    <3>3. st[i].event.parent \in Nat
      BY <3>2 DEF Messages, Events
    <3> QED
      BY <1>12, <1>13, <1>16, <3>1, <3>3 DEF Nested
  <2> QED
    BY <2>1, <2>2, <2>3 DEF Nested
<1>17. 1..p.sequence \subseteq Nat
  BY <1>2
<1>18. /\ p.sequence \in Nat /\ p1.sequence \in Nat /\ p.sequence <= p1.sequence
       /\ u \in Nat /\ l \in Nat /\ Len(st) \in Nat
       /\ Stacked(p, k, l, u)
  BY <1>1, <1>2, <1>3
<1>19. ASSUME NEW i \in Nat, NEW t \in Nat, StartAt(st1, i, t)
       PROVE  StartAt(st, i, t) /\ st1[i].event.parent = st[i].event.parent /\ i < Len(st) + 1
  <2>1. StartAt(st, i, t) /\ i \in 1..Len(st)
    BY <1>3, <1>19 DEF StartAt
  <2> QED
    BY <1>3, <2>1
<1>20. Relates(p, st, p1, st1)
  <2>0. \A j \in Keys : \A x, t \in Nat : Stacked(p1, j, x, t) => Stacked(p, j, x, t)
    BY <1>5
  <2>1. ASSUME NEW r, NEW C, Family(p, st, r, C)
        PROVE  Family(p1, st1, r, C)
    <3>0. r \in Nat
      BY <1>17, <2>1 DEF Family
    <3>1. ASSUME NEW j \in Nat, FinishAt(st1, j, r), ~ FinishAt(st, j, r)
          PROVE  /\ \A i, t \in Nat : StartAt(st1, i, t) => i < j
                 /\ \A a \in Keys : \A x, t \in Nat : Stacked(p1, a, x, t) => t \notin C
      <4>1. j = Len(st) + 1 /\ r = u
        BY <1>3, <3>0, <3>1
      <4>2. ASSUME NEW a \in Keys, NEW x \in Nat, NEW t \in Nat, Stacked(p1, a, x, t), t \in C
            PROVE  FALSE
        <5>1. Stacked(p, a, x, t) /\ t # u
          BY <1>5, <4>2
        <5>2. a = k /\ l <= x
          BY <1>18, <2>1, <4>1, <4>2, <5>1 DEF Family
        <5>3. x <= l
          BY <1>5, <5>1, <5>2
        <5>4. x = l
          BY <1>18, <5>2, <5>3
        <5>5. t = u
          BY <1>18, <5>1, <5>2, <5>4 DEF Stacked
        <5> QED
          BY <5>1, <5>5
      <4> QED
        BY <1>19, <4>1, <4>2
    <3>2. \A j \in Nat : FinishAt(st1, j, r) =>
             \/ FinishAt(st, j, r)
             \/ /\ \A i, t \in Nat : StartAt(st1, i, t) => i < j
                /\ \A a \in Keys : \A x, t \in Nat : Stacked(p1, a, x, t) => t \notin C
      BY <3>1
    <3> QED
      BY <1>18, <1>19, <2>0, <2>1, <3>2, FamilyStays
  <2>2. ASSUME NEW C, Spent(p, st, C)
        PROVE  Spent(p1, st1, C)
    BY <1>18, <1>19, <2>0, <2>2, SpentStays
  <2>3. \A r, C : Family(p, st, r, C) => \E D : C \subseteq D /\ Family(p1, st1, r, D)
    BY <2>1
  <2> QED
    BY <1>19, <2>2, <2>3, RelatesBy
<1> QED
  BY <1>9, <1>12, <1>13, <1>16, <1>17, <1>20 DEF Grows, st1

-----------------------------------------------------------------------------
(* What one record does to the parser. *)

LEMMA FieldsOfParser ==
    ASSUME NEW p, IsParser(p), NEW s \in Nat
    PROVE  /\ IsParser([p EXCEPT !.sequence = s])
           /\ [p EXCEPT !.sequence = s].sequence = s
           /\ \A k : StackOf([p EXCEPT !.sequence = s], k) = StackOf(p, k)
           /\ IsParser([p EXCEPT !.incomplete = TRUE])
           /\ [p EXCEPT !.incomplete = TRUE].sequence = p.sequence
           /\ \A k : StackOf([p EXCEPT !.incomplete = TRUE], k) = StackOf(p, k)
<1> DEFINE a == [p EXCEPT !.sequence = s]
           b == [p EXCEPT !.incomplete = TRUE]
           M == p.stacks
<1>1. p \in [stacks : {M}, sequence : Nat, incomplete : BOOLEAN]
  BY DEF IsParser
<1> HIDE DEF M
<1>2. /\ a \in [stacks : {M}, sequence : Nat, incomplete : BOOLEAN]
      /\ a.stacks = M /\ a.sequence = s
  BY <1>1
<1>3. /\ b \in [stacks : {M}, sequence : Nat, incomplete : BOOLEAN]
      /\ b.stacks = M /\ b.sequence = p.sequence
  BY <1>1
<1> HIDE DEF a, b
<1>4. \A k : StackOf(a, k) = StackOf(p, k) /\ StackOf(b, k) = StackOf(p, k)
  BY <1>2, <1>3 DEF StackOf, M
<1>5. IsParser(a) /\ IsParser(b)
  BY <1>2, <1>3, <1>4 DEF IsParser
<1> QED
  BY <1>2, <1>3, <1>4, <1>5 DEF a, b

\* New stacks.
LEMMA StacksReplaced ==
    ASSUME NEW p, IsParser(p), NEW f
    PROVE  /\ [p EXCEPT !.stacks = f] \in [stacks : {f}, sequence : Nat, incomplete : BOOLEAN]
           /\ [p EXCEPT !.stacks = f].stacks = f
           /\ [p EXCEPT !.stacks = f].sequence = p.sequence
  BY DEF IsParser

LEMMA StackReplaced ==
    ASSUME NEW p, IsParser(p), NEW k, NEW s \in Seq(Frames)
    PROVE  /\ IsParser(WithStack(p, k, s))
           /\ WithStack(p, k, s).sequence = p.sequence
           /\ \A j : StackOf(WithStack(p, k, s), j) = IF j = k THEN s ELSE StackOf(p, j)
<1> DEFINE q == WithStack(p, k, s)
           f == IF s = <<>> THEN [j \in DOMAIN p.stacks \ {k} |-> p.stacks[j]]
                ELSE [j \in DOMAIN p.stacks \cup {k} |-> IF j = k THEN s ELSE p.stacks[j]]
<1>1. q = [p EXCEPT !.stacks = f]
  BY DEF WithStack
<1>2. \A j : (IF j \in DOMAIN f THEN f[j] ELSE <<>>) = IF j = k THEN s ELSE StackOf(p, j)
  <2>1. CASE s = <<>>
    BY <2>1 DEF StackOf
  <2>2. CASE s # <<>>
    BY <2>2 DEF StackOf
  <2> QED
    BY <2>1, <2>2
<1> HIDE DEF f, q
<1>3. /\ q \in [stacks : {f}, sequence : Nat, incomplete : BOOLEAN]
      /\ q.stacks = f /\ q.sequence = p.sequence
  BY <1>1, StacksReplaced
<1>4. \A j : StackOf(q, j) = IF j = k THEN s ELSE StackOf(p, j)
  BY <1>2, <1>3 DEF StackOf
<1>5. IsParser(q)
  BY <1>3, <1>4 DEF IsParser
<1> QED
  BY <1>3, <1>4, <1>5 DEF q

LEMMA GapForgets ==
    ASSUME NEW p, IsParser(p)
    PROVE  /\ IsParser(Gapped(p))
           /\ Gapped(p).sequence = p.sequence
           /\ \A k : StackOf(Gapped(p), k) = <<>>
<1> DEFINE q == [p EXCEPT !.stacks = NoStacks]
<1>1. /\ q \in [stacks : {NoStacks}, sequence : Nat, incomplete : BOOLEAN]
      /\ q.stacks = NoStacks /\ q.sequence = p.sequence
  BY StacksReplaced
<1>2. DOMAIN NoStacks = {}
  BY DEF NoStacks
<1> HIDE DEF q
<1>3. \A k : StackOf(q, k) = <<>>
  BY <1>1, <1>2 DEF StackOf
<1>4. <<>> \in Seq(Frames)
  OBVIOUS
<1>5. IsParser(q)
  BY <1>1, <1>3, <1>4 DEF IsParser
<1>6. Gapped(p) = [q EXCEPT !.incomplete = TRUE]
  BY DEF Gapped, q
<1>7. /\ IsParser([q EXCEPT !.incomplete = TRUE])
      /\ [q EXCEPT !.incomplete = TRUE].sequence = q.sequence
      /\ \A k : StackOf([q EXCEPT !.incomplete = TRUE], k) = StackOf(q, k)
  <2>1. 0 \in Nat
    OBVIOUS
  <2> QED
    BY <1>5, <2>1, FieldsOfParser
<1> QED
  BY <1>1, <1>3, <1>6, <1>7

LEMMA EventIs ==
    ASSUME NEW phase \in {"start", "finish", "gap"}, NEW s \in Nat, NEW parent \in Nat,
           NEW incomplete \in BOOLEAN
    PROVE  /\ Event(phase, s, parent, incomplete) \in Events
           /\ Event(phase, s, parent, incomplete).phase = phase
           /\ Event(phase, s, parent, incomplete).sequence = s
           /\ Event(phase, s, parent, incomplete).parent = parent
  BY DEF Event, Events

LEMMA MessageIs ==
    ASSUME NEW n \in Nat, NEW r \in Records(n), r.phase # "damaged", NEW e \in Events, e.phase # "gap"
    PROVE  /\ Message(r, e) \in Messages(n)
           /\ Message(r, e).event = e
           /\ Message(r, e).token = r.token
           /\ r.key # NoKey => Message(r, e).attachment \in Connections
<1>1. /\ r.key \in Keys \cup {NoKey} /\ r.activity \in Activities
      /\ r.token \in Tokenish(n) /\ r.owner \in Owners
  BY DEF Records, DamagedRecord
<1> DEFINE a == IF r.key = NoKey THEN 0 ELSE r.key[1]
           kind == r.activity.kind
<1>2. Message(r, e) = [event |-> e, kind |-> kind, attachment |-> a, token |-> r.token,
                       owner |-> r.owner]
  BY DEF Message
<1>3. a \in Connections \cup {0} /\ (r.key # NoKey => a \in Connections)
  BY <1>1 DEF Keys
<1>4. kind \in {"gap", "statement", "procedure"}
  BY <1>1 DEF Activities, Procedure, Statement
<1> HIDE DEF a, kind
<1> QED
  BY <1>1, <1>2, <1>3, <1>4 DEF Messages

LEMMA GapMessageIs ==
    ASSUME NEW n \in Nat, NEW r
    PROVE  /\ Message(r, GapEvent) \in Messages(n)
           /\ Message(r, GapEvent).event.sequence = 0
<1>1. GapEvent \in Events /\ GapEvent.phase = "gap" /\ GapEvent.sequence = 0
  BY DEF GapEvent, Event, Events
<1>2. Message(r, GapEvent) = [event |-> GapEvent, kind |-> "gap", attachment |-> 0,
                              token |-> NoToken, owner |-> NoOwner]
  BY <1>1 DEF Message
<1> HIDE DEF GapEvent
<1> QED
  BY <1>1, <1>2 DEF Messages, Tokenish, Owners

\* One event, or two, become one message, or two.
LEMMA EventsAppended ==
    ASSUME NEW S, NEW st \in Seq(S), NEW r, NEW e, NEW f, Message(r, e) \in S, Message(r, f) \in S
    PROVE  /\ st \o [i \in DOMAIN <<e>> |-> Message(r, <<e>>[i])] = Append(st, Message(r, e))
           /\ st \o [i \in DOMAIN <<e, f>> |-> Message(r, <<e, f>>[i])]
                = Append(Append(st, Message(r, e)), Message(r, f))
<1>1. [i \in DOMAIN <<e>> |-> Message(r, <<e>>[i])] = <<Message(r, e)>>
  OBVIOUS
<1>2. [i \in DOMAIN <<e, f>> |-> Message(r, <<e, f>>[i])] = <<Message(r, e), Message(r, f)>>
  OBVIOUS
<1>3. st \o <<Message(r, e)>> = Append(st, Message(r, e))
  OBVIOUS
<1>4. st \o <<Message(r, e), Message(r, f)>> = Append(Append(st, Message(r, e)), Message(r, f))
  OBVIOUS
<1> QED
  BY <1>1, <1>2, <1>3, <1>4

-----------------------------------------------------------------------------
(* Records, one after the other. *)

\* One result of the parser, on the stream.
Sent(st, r, result) == st \o [i \in DOMAIN result.events |-> Message(r, result.events[i])]

LEMMA NothingGrows ==
    ASSUME NEW n \in Nat, NEW p, NEW st, Ordered(p, st, n)
    PROVE  Grows(p, st, p, st, n)
<1>1. p.sequence \in Nat /\ Len(st) \in Nat
  BY DEF Ordered, IsParser
<1>2. Relates(p, st, p, st)
  BY DEF Relates
<1> QED
  BY <1>1, <1>2 DEF Grows

LEMMA GapGrows ==
    ASSUME NEW n \in Nat, NEW p, NEW st, Ordered(p, st, n), NEW r
    PROVE  Grows(p, st, Gapped(p), Append(st, Message(r, GapEvent)), n)
<1>1. IsParser(p)
  BY DEF Ordered
<1>2. /\ IsParser(Gapped(p))
      /\ Gapped(p).sequence = p.sequence
      /\ \A k : StackOf(Gapped(p), k) = <<>>
  BY <1>1, GapForgets
<1>3. Message(r, GapEvent) \in Messages(n) /\ Message(r, GapEvent).event.sequence = 0
  BY GapMessageIs
<1>4. Quiet(p, Gapped(p), Message(r, GapEvent))
  BY <1>2, <1>3 DEF Quiet
<1> QED
  BY <1>2, <1>3, <1>4, QuietGrows

\* What the parser cannot match: a message without a sequence, and at most one
\* stack forgotten.
LEMMA UnmatchedGrows ==
    ASSUME NEW n \in Nat, NEW p, NEW st, Ordered(p, st, n), NEW r \in Records(n),
           r.phase # "damaged", NEW k
    PROVE  /\ Grows(p, st, p, Append(st, Message(r, Unmatched(r.phase))), n)
           /\ Grows(p, st, WithStack([p EXCEPT !.incomplete = TRUE], k, <<>>),
                    Append(st, Message(r, Unmatched(r.phase))), n)
<1> DEFINE m == Message(r, Unmatched(r.phase))
           t == [p EXCEPT !.incomplete = TRUE]
           q == WithStack(t, k, <<>>)
<1>1. IsParser(p) /\ p.sequence \in Nat
  BY DEF Ordered, IsParser
<1>2. IsParser(t) /\ t.sequence = p.sequence /\ \A j : StackOf(t, j) = StackOf(p, j)
  BY <1>1, FieldsOfParser
<1>3. r.phase \in {"start", "finish"}
  BY DEF Records, DamagedRecord
<1>4. /\ Unmatched(r.phase) \in Events
      /\ Unmatched(r.phase).phase # "gap"
      /\ Unmatched(r.phase).sequence = 0
  BY <1>3 DEF Unmatched, Event, Events
<1>5. m \in Messages(n) /\ m.event.sequence = 0
  <2> DEFINE e == Unmatched(r.phase)
  <2> HIDE DEF e
  <2>1. e \in Events /\ e.phase # "gap" /\ e.sequence = 0
    BY <1>4 DEF e
  <2>2. Message(r, e) \in Messages(n) /\ Message(r, e).event = e
    BY <2>1, MessageIs
  <2> QED
    BY <2>1, <2>2 DEF e
<1> HIDE DEF t
<1>6. /\ IsParser(q)
      /\ q.sequence = t.sequence
      /\ \A j : StackOf(q, j) = IF j = k THEN <<>> ELSE StackOf(t, j)
  <2> DEFINE none == <<>>
  <2>1. none \in Seq(Frames)
    OBVIOUS
  <2> HIDE DEF none
  <2>2. /\ IsParser(WithStack(t, k, none))
        /\ WithStack(t, k, none).sequence = t.sequence
        /\ \A j : StackOf(WithStack(t, k, none), j) = IF j = k THEN none ELSE StackOf(t, j)
    BY <1>2, <2>1, StackReplaced
  <2> QED
    BY <2>2 DEF none
<1> HIDE DEF m, q
<1>7. Quiet(p, p, m) /\ Quiet(p, q, m)
  BY <1>1, <1>2, <1>5, <1>6 DEF Quiet
<1>8. Grows(p, st, p, Append(st, m), n) /\ Grows(p, st, q, Append(st, m), n)
  BY <1>1, <1>5, <1>6, <1>7, QuietGrows
<1> QED
  BY <1>8 DEF m, q, t

LEMMA StartGrows ==
    ASSUME NEW n \in Nat, NEW p, NEW st, Ordered(p, st, n), NEW r \in Records(n),
           r.phase = "start", r.key # NoKey, ~ Anonymous(r.activity)
    PROVE  LET result == StartResult(p, r.key, r.activity)
           IN  Grows(p, st, result.parser, Sent(st, r, result), n)
<1> DEFINE k == r.key
           f == r.activity
           s == p.sequence + 1
           t == [p EXCEPT !.sequence = s]
           result == StartResult(p, k, f)
<1>1. /\ IsParser(p) /\ p.sequence \in Nat /\ s \in Nat /\ p.incomplete \in BOOLEAN
      /\ st \in Seq(Messages(n))
  BY DEF Ordered, IsParser
<1>2. k \in Keys /\ f \in Activities /\ (r.token = NoToken <=> ~ IsMarker(f))
  BY DEF Records, DamagedRecord
<1>3. IsParser(t) /\ t.sequence = s /\ \A j : StackOf(t, j) = StackOf(p, j)
  BY <1>1, FieldsOfParser
<1>4. StackOf(p, k) \in Seq(Frames)
  BY <1>1, <1>2 DEF IsParser
<1>5. Enclosing(StackOf(p, k)) \in Nat
  <2>1. CASE StackOf(p, k) = <<>>
    BY <2>1 DEF Enclosing
  <2>2. CASE StackOf(p, k) # <<>>
    <3>1. Last(StackOf(p, k)) \in Frames
      BY <1>4, <2>2 DEF Last
    <3> QED
      BY <2>2, <3>1 DEF Enclosing, Frames
  <2> QED
    BY <2>1, <2>2
<1> DEFINE e == Enclosing(StackOf(p, k))
           full == Event("start", s, 0, TRUE)
           normal == Event("start", s, e, p.incomplete)
<1>6. /\ full \in Events /\ full.phase = "start" /\ full.sequence = s /\ full.parent = 0
      /\ normal \in Events /\ normal.phase = "start" /\ normal.sequence = s /\ normal.parent = e
  <2> HIDE DEF e
  <2>1. e \in Nat
    BY <1>5 DEF e
  <2>2. full \in Events /\ full.phase = "start" /\ full.sequence = s /\ full.parent = 0
    BY <1>1 DEF Event, Events
  <2>3. normal \in Events /\ normal.phase = "start" /\ normal.sequence = s /\ normal.parent = e
    BY <1>1, <2>1, EventIs
  <2> QED
    BY <2>2, <2>3
<1> HIDE DEF e, full, normal
<1>7. r.phase # "damaged"
  OBVIOUS
<1>8. /\ Message(r, full) \in Messages(n) /\ Message(r, full).event = full
      /\ Message(r, full).attachment \in Connections
      /\ Message(r, normal) \in Messages(n) /\ Message(r, normal).event = normal
      /\ Message(r, normal).attachment \in Connections
      /\ Message(r, normal).token = r.token
  BY <1>6, <1>7, MessageIs
<1>9. CASE Overflows(p, k)
  <2>1. result = [parser |-> Gapped(t), events |-> <<full, GapEvent>>]
    BY <1>9 DEF StartResult, full
  <2>2. /\ IsParser(Gapped(t))
        /\ Gapped(t).sequence = s
        /\ \A j : StackOf(Gapped(t), j) = <<>>
    BY <1>3, GapForgets
  <2> DEFINE q == Gapped(t)
             m == Message(r, full)
             g == Message(r, GapEvent)
  <2>3. Sent(st, r, result) = Append(Append(st, m), g)
    <3>1. g \in Messages(n)
      BY GapMessageIs
    <3>2. result.events = <<full, GapEvent>>
      BY <2>1
    <3> HIDE DEF result
    <3>3. st \o [i \in DOMAIN <<full, GapEvent>> |-> Message(r, <<full, GapEvent>>[i])]
            = Append(Append(st, m), g)
      BY <1>1, <1>8, <3>1, EventsAppended
    <3> QED
      BY <3>2, <3>3, Zenon DEF Sent
  <2>4. result.parser = q
    BY <2>1
  <2> HIDE DEF q, m, g, result, t
  <2>5. Spills(p, q, m)
    BY <1>6, <1>8, <2>2 DEF Spills, q, m
  <2>6. Grows(p, st, q, Append(st, m), n)
    BY <1>1, <1>8, <2>2, <2>5, SpillsGrows DEF q, m
  <2>7. Ordered(q, Append(st, m), n)
    BY <2>6 DEF Grows
  <2>8. g \in Messages(n) /\ g.event.sequence = 0
    BY GapMessageIs DEF g
  <2>9. Quiet(q, q, g)
    BY <2>8 DEF Quiet
  <2>10. IsParser(q)
    BY <2>2 DEF q
  <2>11. Grows(q, Append(st, m), q, Append(Append(st, m), g), n)
    BY <2>7, <2>8, <2>9, <2>10, QuietGrows
  <2>12. Grows(p, st, q, Append(Append(st, m), g), n)
    BY <1>1, <2>6, <2>11, GrowsOn
  <2> QED
    BY <2>3, <2>4, <2>12 DEF result
<1>10. CASE ~ Overflows(p, k)
  <2> DEFINE deeper == Append(StackOf(p, k), Frame(f, s))
             q == WithStack(t, k, deeper)
             m == Message(r, normal)
  <2>1. result = [parser |-> q, events |-> <<normal>>]
    BY <1>10 DEF StartResult, normal, e
  <2>2. Sent(st, r, result) = Append(st, m)
    <3>2. result.events = <<normal>>
      BY <2>1
    <3> HIDE DEF result
    <3>3. st \o [i \in DOMAIN <<normal>> |-> Message(r, <<normal>>[i])] = Append(st, m)
      BY <1>1, <1>8, EventsAppended
    <3> QED
      BY <3>2, <3>3, Zenon DEF Sent
  <2>3. result.parser = q
    BY <2>1
  <2>4. deeper \in Seq(Frames)
    <3>1. Frame(f, s) \in Frames
      BY <1>1, <1>2 DEF Frame, Frames
    <3> QED
      BY <1>4, <3>1
  <2> HIDE DEF t, deeper
  <2>5. /\ IsParser(q)
        /\ q.sequence = s
        /\ \A j : StackOf(q, j) = IF j = k THEN deeper ELSE StackOf(p, j)
    BY <1>3, <2>4, StackReplaced
  <2> HIDE DEF q, m, result
  <2>6. Pushes(p, q, k, f, m)
    BY <1>2, <1>6, <1>8, <2>5 DEF Pushes, m, e, deeper
  <2>7. Grows(p, st, q, Append(st, m), n)
    BY <1>2, <1>8, <2>5, <2>6, PushesGrows DEF m
  <2> QED
    BY <2>2, <2>3, <2>7 DEF result
<1> QED
  BY <1>9, <1>10

LEMMA FinishGrows ==
    ASSUME NEW n \in Nat, NEW p, NEW st, Ordered(p, st, n), NEW r \in Records(n),
           r.phase = "finish", r.key # NoKey, ~ Anonymous(r.activity)
    PROVE  LET result == FinishResult(p, r.key, r.activity, FALSE)
           IN  Grows(p, st, result.parser, Sent(st, r, result), n)
<1> DEFINE k == r.key
           f == r.activity
           stack == StackOf(p, k)
           result == FinishResult(p, k, f, FALSE)
<1>1. /\ IsParser(p) /\ p.sequence \in Nat /\ p.incomplete \in BOOLEAN
      /\ st \in Seq(Messages(n))
  BY DEF Ordered, IsParser
<1>2. k \in Keys /\ f \in Activities /\ (r.token = NoToken <=> ~ IsMarker(f))
  BY DEF Records, DamagedRecord
<1>3. stack \in Seq(Frames)
  BY <1>1, <1>2 DEF IsParser
<1>4. r.phase # "damaged"
  OBVIOUS
<1>5. CASE Matches(stack, f)
  <2> DEFINE below == Front(stack)
             u == Last(stack).sequence
             e == Enclosing(below)
             incomplete == p.incomplete \/ FALSE
             event == Event("finish", u, e, incomplete)
             q == WithStack(p, k, below)
             m == Message(r, event)
  <2>1. result = [parser |-> q, events |-> <<event>>]
    BY <1>5 DEF FinishResult
  <2> HIDE DEF result
  <2>2. stack # <<>> /\ Last(stack).activity = f
    BY <1>5 DEF Matches
  <2>3. below \in Seq(Frames)
    BY <1>3, <2>2, FrontOf
  <2>4. u \in Nat
    <3>1. Last(stack) \in Frames
      BY <1>3, <2>2 DEF Last
    <3> QED
      BY <3>1 DEF Frames
  <2>5. e \in Nat
    <3> HIDE DEF below
    <3>1. CASE below = <<>>
      BY <3>1 DEF Enclosing
    <3>2. CASE below # <<>>
      <4>1. Last(below) \in Frames
        BY <2>3, <3>2 DEF Last
      <4> QED
        BY <3>2, <4>1 DEF Enclosing, Frames
    <3> QED
      BY <3>1, <3>2
  <2>6. incomplete \in BOOLEAN
    BY <1>1
  <2> HIDE DEF u, e, incomplete, below
  <2>7. event \in Events /\ event.phase = "finish" /\ event.sequence = u
    BY <2>4, <2>5, <2>6, EventIs
  <2> HIDE DEF event
  <2>8. /\ m \in Messages(n) /\ m.event = event /\ m.attachment \in Connections
        /\ m.token = r.token
    BY <1>4, <2>7, MessageIs
  <2>9. Sent(st, r, result) = Append(st, m)
    <3>1. result.events = <<event>>
      BY <2>1
    <3>2. st \o [i \in DOMAIN <<event>> |-> Message(r, <<event>>[i])] = Append(st, m)
      BY <1>1, <2>8, EventsAppended
    <3> QED
      BY <3>1, <3>2, Zenon DEF Sent
  <2>10. result.parser = q
    BY <2>1
  <2>11. /\ IsParser(q)
         /\ q.sequence = p.sequence
         /\ \A j : StackOf(q, j) = IF j = k THEN below ELSE StackOf(p, j)
    BY <1>1, <2>3, StackReplaced
  <2> HIDE DEF q, m
  <2>12. Pops(p, q, k, m)
    BY <1>2, <2>2, <2>7, <2>8, <2>11 DEF Pops, u, below
  <2>13. Grows(p, st, q, Append(st, m), n)
    BY <1>2, <2>8, <2>11, <2>12, PopsGrows
  <2> QED
    BY <2>9, <2>10, <2>13 DEF result
<1>6. CASE ~ Matches(stack, f)
  <2> DEFINE q == WithStack([p EXCEPT !.incomplete = TRUE], k, <<>>)
             e == Unmatched("finish")
             m == Message(r, e)
  <2>1. result = [parser |-> q, events |-> <<e>>]
    BY <1>6 DEF FinishResult
  <2> HIDE DEF result
  <2>2. Grows(p, st, q, Append(st, m), n)
    <3>1. Grows(p, st, WithStack([p EXCEPT !.incomplete = TRUE], k, <<>>),
                Append(st, Message(r, Unmatched(r.phase))), n)
      BY <1>4, UnmatchedGrows
    <3> QED
      BY <3>1
  <2> HIDE DEF e, q
  <2>3. m \in Messages(n)
    <3>1. e \in Events /\ e.phase # "gap"
      BY DEF e, Unmatched, Event, Events
    <3> QED
      BY <1>4, <3>1, MessageIs
  <2>4. Sent(st, r, result) = Append(st, m)
    <3>1. result.events = <<e>>
      BY <2>1
    <3>2. st \o [i \in DOMAIN <<e>> |-> Message(r, <<e>>[i])] = Append(st, m)
      BY <1>1, <2>3, EventsAppended
    <3> QED
      BY <3>1, <3>2, Zenon DEF Sent
  <2>5. result.parser = q
    BY <2>1
  <2> HIDE DEF m
  <2> QED
    BY <2>2, <2>4, <2>5 DEF result
<1> QED
  BY <1>5, <1>6

\* One record of the server, whatever it is.
LEMMA WrittenGrows ==
    ASSUME NEW n \in Nat, NEW state, Ordered(state.parser, state.stream, n), NEW r \in Records(n)
    PROVE  Grows(state.parser, state.stream, Written(state, r).parser, Written(state, r).stream, n)
<1> DEFINE p == state.parser
           st == state.stream
           result == Parsed(p, r)
<1>0. /\ Written(state, r).parser = result.parser
      /\ Written(state, r).stream = Sent(st, r, result)
  BY DEF Written, Sent
<1> HIDE DEF p, st
<1>1. Ordered(p, st, n) /\ st \in Seq(Messages(n))
  BY DEF p, st, Ordered
<1>2. CASE r.phase = "damaged"
  <2> DEFINE g == Message(r, GapEvent)
  <2>1. result = [parser |-> Gapped(p), events |-> <<GapEvent>>]
    BY <1>2 DEF Parsed, GapResult
  <2>2. Grows(p, st, Gapped(p), Append(st, g), n)
    BY <1>1, GapGrows
  <2>3. g \in Messages(n)
    BY GapMessageIs
  <2>4. Sent(st, r, result) = Append(st, g)
    <3>1. result.events = <<GapEvent>>
      BY <2>1
    <3> HIDE DEF result
    <3>2. st \o [i \in DOMAIN <<GapEvent>> |-> Message(r, <<GapEvent>>[i])] = Append(st, g)
      BY <1>1, <2>3, EventsAppended
    <3> QED
      BY <3>1, <3>2, Zenon DEF Sent
  <2>5. result.parser = Gapped(p)
    BY <2>1
  <2> HIDE DEF result, g
  <2> QED
    BY <1>0, <2>2, <2>4, <2>5 DEF p, st
<1>3. CASE r.phase # "damaged"
  <2> DEFINE e == Unmatched(r.phase)
             m == Message(r, e)
             q == WithStack([p EXCEPT !.incomplete = TRUE], r.key, <<>>)
  <2>1. result = RecordResult(p, r.phase, r.key, r.activity, FALSE)
    BY <1>3 DEF Parsed
  <2>2. r.phase \in {"start", "finish"}
    BY <1>3 DEF Records, DamagedRecord
  <2>3. /\ Grows(p, st, p, Append(st, m), n)
        /\ Grows(p, st, q, Append(st, m), n)
    BY <1>1, <1>3, UnmatchedGrows
  <2>4. m \in Messages(n)
    <3> HIDE DEF e
    <3>1. e \in Events /\ e.phase # "gap"
      BY <2>2 DEF e, Unmatched, Event, Events
    <3> QED
      BY <1>3, <3>1, MessageIs
  <2>5. ASSUME result.events = <<e>>
        PROVE  Sent(st, r, result) = Append(st, m)
    <3> HIDE DEF result, e
    <3>2. st \o [i \in DOMAIN <<e>> |-> Message(r, <<e>>[i])] = Append(st, m)
      BY <1>1, <2>4, EventsAppended
    <3> QED
      BY <2>5, <3>2, Zenon DEF Sent
  <2>6. CASE r.key = NoKey
    <3>1. result = [parser |-> p, events |-> <<e>>]
      BY <2>1, <2>6 DEF RecordResult
    <3>2. result.parser = p /\ result.events = <<e>>
      BY <3>1
    <3> HIDE DEF result, e, m
    <3> QED
      BY <1>0, <2>3, <2>5, <3>2 DEF p, st
  <2>7. CASE r.key # NoKey /\ Anonymous(r.activity)
    <3>1. result = [parser |-> q, events |-> <<e>>]
      BY <2>1, <2>7 DEF RecordResult
    <3>2. result.parser = q /\ result.events = <<e>>
      BY <3>1
    <3> HIDE DEF result, e, m, q
    <3> QED
      BY <1>0, <2>3, <2>5, <3>2 DEF p, st
  <2>8. CASE r.key # NoKey /\ ~ Anonymous(r.activity) /\ r.phase = "start"
    <3>1. result = StartResult(p, r.key, r.activity)
      BY <2>1, <2>8 DEF RecordResult
    <3>2. Grows(p, st, StartResult(p, r.key, r.activity).parser,
                Sent(st, r, StartResult(p, r.key, r.activity)), n)
      BY <1>1, <2>8, StartGrows
    <3> HIDE DEF result
    <3> QED
      BY <1>0, <3>1, <3>2 DEF p, st
  <2>9. CASE r.key # NoKey /\ ~ Anonymous(r.activity) /\ r.phase = "finish"
    <3>1. result = FinishResult(p, r.key, r.activity, FALSE)
      BY <2>1, <2>9 DEF RecordResult
    <3>2. Grows(p, st, FinishResult(p, r.key, r.activity, FALSE).parser,
                Sent(st, r, FinishResult(p, r.key, r.activity, FALSE)), n)
      BY <1>1, <2>9, FinishGrows
    <3> HIDE DEF result
    <3> QED
      BY <1>0, <3>1, <3>2 DEF p, st
  <2> QED
    BY <2>2, <2>6, <2>7, <2>8, <2>9
<1> QED
  BY <1>2, <1>3

\* The records are read one after the other.
IsReading(after, rs) ==
    /\ after[0] = [parser |-> parser, stream |-> stream]
    /\ \A n \in 1..Len(rs) : after[n] = Written(after[n - 1], rs[n])

LEMMA ReadIsReading ==
    ASSUME NEW S, NEW rs \in Seq(S)
    PROVE  \E after : IsReading(after, rs) /\ Read(rs) = after[Len(rs)]
<1> DEFINE N == Len(rs)
           first == [parser |-> parser, stream |-> stream]
           Turn(f, n) == IF n = 0 THEN first ELSE Written(f[n - 1], rs[n])
           after == CHOOSE f : f = [n \in 0..N |-> Turn(f, n)]
<1>1. N \in Nat
  OBVIOUS
<1>2. Read(rs) = after[N]
  BY DEF Read
<1> HIDE DEF N, first
<1>3. after = [n \in 0..N |-> Turn(after, n)]
  <2> DEFINE T == {k \in 0..N : \E f : f = [n \in 0..k |-> Turn(f, n)]}
  <2>1. 0 \in T
    <3> DEFINE f == [n \in 0..0 |-> first]
    <3>1. f = [n \in 0..0 |-> Turn(f, n)]
      OBVIOUS
    <3> HIDE DEF f
    <3>2. \E g : g = [n \in 0..0 |-> Turn(g, n)]
      BY <3>1, Zenon
    <3> HIDE DEF Turn
    <3> QED
      BY <1>1, <3>2
  <2>2. ASSUME NEW k \in 1..N, k - 1 \in T
        PROVE  k \in T
    <3>1. PICK g : g = [n \in 0..(k - 1) |-> Turn(g, n)]
      BY <2>2
    <3> DEFINE f == [n \in 0..k |-> IF n = k THEN Written(g[k - 1], rs[k]) ELSE g[n]]
    <3>2. \A n \in 0..k : f[n] = IF n = k THEN Written(g[k - 1], rs[k]) ELSE g[n]
      OBVIOUS
    <3>3. \A n \in 0..k : f[n] = Turn(f, n)
      <4> HIDE DEF f
      <4>1. ASSUME NEW n \in 0..k PROVE f[n] = Turn(f, n)
        <5>1. CASE n = k
          BY <3>2, <5>1
        <5>2. CASE n # k
          <6>1. n \in 0..(k - 1) /\ f[n] = g[n] /\ g[n] = Turn(g, n)
            <7>1. n \in 0..(k - 1) /\ f[n] = g[n]
              BY <3>2, <5>2
            <7>2. g[n] = Turn(g, n)
              <8> HIDE DEF Turn
              <8> QED
                BY <3>1, <7>1
            <7> QED
              BY <7>1, <7>2
          <6>2. n # 0 => f[n - 1] = g[n - 1]
            BY <3>2, <5>2
          <6> QED
            BY <6>1, <6>2
        <5> QED
          BY <5>1, <5>2
      <4> QED
        BY <4>1
    <3>4. f = [n \in 0..k |-> Turn(f, n)]
      <4>1. f = [n \in 0..k |-> f[n]]
        OBVIOUS
      <4> HIDE DEF f, Turn
      <4> QED
        BY <3>3, <4>1
    <3> HIDE DEF f
    <3>5. \E h : h = [n \in 0..k |-> Turn(h, n)]
      BY <3>4, Zenon
    <3> HIDE DEF Turn
    <3> QED
      BY <3>5
  <2>3. N \in T
    <3> HIDE DEF T
    <3>1. 0..N \subseteq T
      BY <1>1, <2>1, <2>2, UpTo
    <3> QED
      BY <1>1, <3>1
  <2>4. \E f : f = [n \in 0..N |-> Turn(f, n)]
    BY <2>3
  <2> QED
    BY <2>4
<1> HIDE DEF after
<1>4. after[0] = first
  <2>1. 0 \in 0..N
    BY <1>1
  <2>2. after[0] = Turn(after, 0)
    <3> HIDE DEF Turn
    <3> QED
      BY <1>3, <2>1
  <2> QED
    BY <2>2
<1>5. ASSUME NEW n \in 1..N PROVE after[n] = Written(after[n - 1], rs[n])
  <2>1. n \in 0..N /\ n # 0
    BY <1>1
  <2>2. after[n] = Turn(after, n)
    <3> HIDE DEF Turn
    <3> QED
      BY <1>3, <2>1
  <2> QED
    BY <2>1, <2>2
<1>6. IsReading(after, rs)
  BY <1>4, <1>5 DEF IsReading, N, first
<1> QED
  BY <1>2, <1>6, Zenon DEF N

LEMMA ReadGrows ==
    ASSUME NEW n \in Nat, Ordered(parser, stream, n), NEW rs \in Seq(Records(n))
    PROVE  Grows(parser, stream, Read(rs).parser, Read(rs).stream, n)
<1>1. PICK after : IsReading(after, rs) /\ Read(rs) = after[Len(rs)]
  BY ReadIsReading
<1> DEFINE N == Len(rs)
           S == {i \in 0..N : Grows(parser, stream, after[i].parser, after[i].stream, n)}
<1>2. N \in Nat /\ \A i \in 1..N : rs[i] \in Records(n)
  OBVIOUS
<1>3. 0 \in S
  <2>1. after[0].parser = parser /\ after[0].stream = stream
    BY <1>1 DEF IsReading
  <2>2. Grows(parser, stream, parser, stream, n)
    BY NothingGrows
  <2> QED
    BY <1>2, <2>1, <2>2
<1>4. ASSUME NEW i \in 1..N, i - 1 \in S
      PROVE  i \in S
  <2> DEFINE a == after[i - 1]
             b == after[i]
  <2>1. b = Written(a, rs[i])
    BY <1>1 DEF IsReading
  <2>2. Grows(parser, stream, a.parser, a.stream, n)
    BY <1>4
  <2> HIDE DEF a, b
  <2>3. Ordered(a.parser, a.stream, n)
    BY <2>2 DEF Grows
  <2>4. Grows(a.parser, a.stream, b.parser, b.stream, n)
    BY <1>2, <2>1, <2>3, WrittenGrows
  <2>5. IsParser(parser)
    BY DEF Ordered
  <2>6. Grows(parser, stream, b.parser, b.stream, n)
    BY <2>2, <2>4, <2>5, GrowsOn
  <2> QED
    BY <1>2, <2>6 DEF b
<1>5. N \in S
  <2> HIDE DEF S, N
  <2>1. 0..N \subseteq S
    BY <1>2, <1>3, <1>4, UpTo
  <2> QED
    BY <1>2, <2>1
<1> QED
  BY <1>1, <1>5

\* A damaged record may be among them.
LEMMA DamagedTyped ==
    ASSUME NEW n \in Nat, NEW records \in Seq(Records(n)), NEW rs \in Damaged(records)
    PROVE  rs \in Seq(Records(n))
<1>1. DamagedRecord \in Records(n)
  BY DEF Records
<1>2. \A i \in DOMAIN records : [records EXCEPT ![i] = DamagedRecord] \in Seq(Records(n))
  BY <1>1
<1> QED
  BY <1>2 DEF Damaged

LEMMA WriteGrows ==
    ASSUME NEW n \in Nat, Ordered(parser, stream, n), NEW records \in Seq(Records(n)), Write(records)
    PROVE  Grows(parser, stream, parser', stream', n) /\ dropped' = dropped /\ session' = session
<1>1. CASE session = "open"
  <2>1. PICK rs \in Damaged(records) : parser' = Read(rs).parser /\ stream' = Read(rs).stream
    BY <1>1 DEF Write
  <2>2. rs \in Seq(Records(n))
    BY DamagedTyped
  <2> QED
    BY <2>1, <2>2, ReadGrows DEF Write
<1>2. CASE session # "open"
  BY <1>2, NothingGrows DEF Write
<1> QED
  BY <1>1, <1>2

LEMMA SessionEndGrows ==
    ASSUME NEW n \in Nat, Ordered(parser, stream, n), SessionEnds
    PROVE  Grows(parser, stream, parser', stream', n) /\ dropped' = dropped
<1> DEFINE result == FlushResult(parser)
<1>1. /\ parser' = result.parser
      /\ stream' = Sent(stream, DamagedRecord, result)
      /\ dropped' = dropped
  BY DEF SessionEnds, Sent
<1>2. stream \in Seq(Messages(n))
  BY DEF Ordered
<1>3. CASE DOMAIN parser.stacks # {}
  <2>1. result = [parser |-> Gapped(parser), events |-> <<GapEvent>>]
    BY <1>3 DEF FlushResult, GapResult
  <2>2. result.parser = Gapped(parser) /\ result.events = <<GapEvent>>
    BY <2>1
  <2> HIDE DEF result
  <2>3. Grows(parser, stream, Gapped(parser), Append(stream, Message(DamagedRecord, GapEvent)), n)
    BY GapGrows
  <2>4. Message(DamagedRecord, GapEvent) \in Messages(n)
    BY GapMessageIs
  <2>5. stream \o [i \in DOMAIN <<GapEvent>> |-> Message(DamagedRecord, <<GapEvent>>[i])]
          = Append(stream, Message(DamagedRecord, GapEvent))
    BY <1>2, <2>4, EventsAppended
  <2>6. Sent(stream, DamagedRecord, result) = Append(stream, Message(DamagedRecord, GapEvent))
    BY <2>2, <2>5, Zenon DEF Sent
  <2> QED
    BY <1>1, <2>2, <2>3, <2>6
<1>4. CASE DOMAIN parser.stacks = {}
  <2>1. result = [parser |-> parser, events |-> <<>>]
    BY <1>4 DEF FlushResult
  <2>2. result.parser = parser /\ result.events = <<>>
    BY <2>1
  <2> HIDE DEF result
  <2>3. [i \in DOMAIN <<>> |-> Message(DamagedRecord, <<>>[i])] = <<>>
    OBVIOUS
  <2>4. Sent(stream, DamagedRecord, result) = stream
    <3>1. Sent(stream, DamagedRecord, result) = stream \o <<>>
      BY <2>2, <2>3, Zenon DEF Sent
    <3> QED
      BY <1>2, <3>1
  <2> QED
    BY <1>1, <2>2, <2>4, NothingGrows
<1> QED
  BY <1>3, <1>4

-----------------------------------------------------------------------------
(* What the client makes the server write. *)

LEMMA ActivitiesAre ==
    /\ Procedure \in Activities /\ ~ IsMarker(Procedure) /\ ~ Anonymous(Procedure)
    /\ Statement(NoStatement) \in Activities /\ Anonymous(Statement(NoStatement))
    /\ \A o \in Nat : \A c \in {"work", "start", "finish", "cancel"} :
          Statement(<<c, o>>) \in Activities /\ ~ IsMarker(Statement(<<c, o>>))
    /\ \A t \in Nat : Statement(<<"marker", t>>) \in Activities /\ IsMarker(Statement(<<"marker", t>>))
<1>1. ~ IsMarker(Procedure)
  BY DEF IsMarker, Procedure, Statement
<1>2. ASSUME NEW o \in Nat, NEW c \in {"work", "start", "finish", "cancel"}
      PROVE  ~ IsMarker(Statement(<<c, o>>))
  BY DEF IsMarker, Statement
<1>3. \A o \in Nat : \A c \in {"marker", "work", "start", "finish", "cancel"} :
          Statement(<<c, o>>) \in Activities
  BY DEF Activities
<1>4. \A t \in Nat : IsMarker(Statement(<<"marker", t>>))
  BY DEF IsMarker
<1>5. /\ Procedure \in Activities /\ ~ Anonymous(Procedure)
      /\ Statement(NoStatement) \in Activities /\ Anonymous(Statement(NoStatement))
  BY DEF Activities, Anonymous, Statement, Procedure
<1> QED
  BY <1>1, <1>2, <1>3, <1>4, <1>5

LEMMA RecordTyped ==
    ASSUME NEW n \in Nat, NEW phase \in {"start", "finish"}, NEW key \in Keys \cup {NoKey},
           NEW activity \in Activities, NEW token \in Tokenish(n), NEW owner \in Owners,
           key # NoKey /\ ~ Anonymous(activity) => (token = NoToken <=> ~ IsMarker(activity))
    PROVE  Record(phase, key, activity, token, owner) \in Records(n)
  BY DEF Record, Records

LEMMA WholeTyped ==
    ASSUME NEW n \in Nat, NEW key \in Keys, NEW activity \in Activities, NEW token \in Tokenish(n),
           NEW owner \in Owners, token = NoToken <=> ~ IsMarker(activity)
    PROVE  Whole(key, activity, token, owner) \in Seq(Records(n))
<1>1. /\ Record("start", key, activity, token, owner) \in Records(n)
      /\ Record("finish", key, activity, token, owner) \in Records(n)
  BY RecordTyped
<1> QED
  BY <1>1 DEF Whole

\* A job that runs on a connection.
Runs(job) == job \in Jobs /\ job.conn \in Connections

LEMMA JobRecords ==
    ASSUME NEW n \in Nat, NoToken \notin Nat, NEW job, Runs(job)
    PROVE  /\ \A phase \in {"start", "finish"} : Work(job, phase) \in Seq(Records(n))
           /\ \A command \in {"start", "finish", "cancel"} :
                 ProfilerRecords(job, command) \in Seq(Records(n))
           /\ \A result : WorkRecords(job, result) \in Seq(Records(n))
           /\ \A t \in 1..n : /\ MarkerRecords(job, t) \in Seq(Records(n))
                              /\ <<MarkerRecords(job, t)[1], DamagedRecord>> \in Seq(Records(n))
<1> DEFINE key == <<job.conn, job.tra>>
<1>1. /\ key \in Keys /\ job.op \in Nat /\ job.op \in Owners
      /\ NoOwner \in Owners /\ NoToken \in Tokenish(n)
  BY DEF Runs, Jobs, Keys, Owners, Tokenish
<1>2. ASSUME NEW phase \in {"start", "finish"}
      PROVE  Work(job, phase) \in Seq(Records(n))
  <2> DEFINE own == Record(phase, key, Statement(<<"work", job.op>>), NoToken, job.op)
             routine == Record(phase, key, Procedure, NoToken, job.op)
  <2>1. own \in Records(n) /\ routine \in Records(n)
    <3> HIDE DEF key
    <3> QED
      BY <1>1, ActivitiesAre, RecordTyped
  <2> HIDE DEF own, routine
  <2>2. Work(job, phase) \in {<<own>>, <<own, routine>>, <<routine, own>>}
    <3>1. Work(job, phase) = CASE ~ Routines                   -> <<own>>
                               [] Routines /\ phase = "start"  -> <<own, routine>>
                               [] Routines /\ phase = "finish" -> <<routine, own>>
      BY DEF Work, own, routine
    <3> QED
      BY <3>1
  <2>3. /\ <<own>> \in Seq(Records(n))
        /\ <<own, routine>> \in Seq(Records(n))
        /\ <<routine, own>> \in Seq(Records(n))
    BY <2>1
  <2> QED
    BY <2>2, <2>3
<1>3. ASSUME NEW command \in {"start", "finish", "cancel"}
      PROVE  ProfilerRecords(job, command) \in Seq(Records(n))
  <2>1. Whole(key, Statement(<<command, job.op>>), NoToken, NoOwner) \in Seq(Records(n))
    <3> HIDE DEF key
    <3> QED
      BY <1>1, ActivitiesAre, WholeTyped
  <2>2. <<>> \in Seq(Records(n))
    OBVIOUS
  <2> QED
    BY <2>1, <2>2 DEF ProfilerRecords
<1>4. ASSUME NEW result
      PROVE  WorkRecords(job, result) \in Seq(Records(n))
  <2>1. Work(job, "start") \in Seq(Records(n)) /\ Work(job, "finish") \in Seq(Records(n))
    BY <1>2
  <2>2. <<DamagedRecord>> \in Seq(Records(n)) /\ <<>> \in Seq(Records(n))
    <3>1. DamagedRecord \in Records(n)
      BY DEF Records
    <3> QED
      BY <3>1
  <2> DEFINE a == Work(job, "start")
             b == Work(job, "finish")
             d == <<DamagedRecord>>
  <2>3. WorkRecords(job, result) \in {a \o b, a, a \o d, <<>>}
    BY DEF WorkRecords
  <2> HIDE DEF a, b, d
  <2>4. a \in Seq(Records(n)) /\ b \in Seq(Records(n)) /\ d \in Seq(Records(n))
    BY <2>1, <2>2 DEF a, b, d
  <2>5. a \o b \in Seq(Records(n)) /\ a \o d \in Seq(Records(n))
    BY <2>4
  <2> QED
    BY <2>2, <2>3, <2>4, <2>5
<1>5. ASSUME NEW t \in 1..n
      PROVE  /\ MarkerRecords(job, t) \in Seq(Records(n))
             /\ <<MarkerRecords(job, t)[1], DamagedRecord>> \in Seq(Records(n))
  <2>1. t \in Tokenish(n) /\ t # NoToken /\ t \in Nat
    BY DEF Tokenish
  <2> HIDE DEF key
  <2>2. Whole(key, Statement(<<"marker", t>>), t, NoOwner) \in Seq(Records(n))
    BY <1>1, <2>1, ActivitiesAre, WholeTyped
  <2>3. MarkerRecords(job, t) = Whole(key, Statement(<<"marker", t>>), t, NoOwner)
    BY DEF MarkerRecords, key
  <2> DEFINE a == Record("start", key, Statement(<<"marker", t>>), t, NoOwner)
  <2>4. MarkerRecords(job, t)[1] = a
    BY <2>3 DEF Whole
  <2>5. a \in Records(n)
    BY <1>1, <2>1, ActivitiesAre, RecordTyped
  <2>6. DamagedRecord \in Records(n)
    BY DEF Records
  <2> HIDE DEF a
  <2> QED
    BY <2>2, <2>3, <2>4, <2>5, <2>6
<1> QED
  BY <1>2, <1>3, <1>4, <1>5

\* Tokens that are issued later are no harm to what is under way.
LEMMA MoreTokens ==
    ASSUME NEW n \in Nat, NEW p, NEW st, Ordered(p, st, n)
    PROVE  Ordered(p, st, n + 1)
<1>1. Tokenish(n) \subseteq Tokenish(n + 1)
  BY DEF Tokenish
<1>2. Messages(n) \subseteq Messages(n + 1)
  BY <1>1 DEF Messages
<1>3. st \in Seq(Messages(n + 1))
  BY <1>2 DEF Ordered
<1> QED
  BY <1>3 DEF Ordered

-----------------------------------------------------------------------------
(* Markers: a token marks once. *)

\* The finish of a marker, as the server writes it and as the consumer gets it.
IsMark(r) == r.phase = "finish" /\ r.token # NoToken

Marks(m) == m.event.phase = "finish" /\ m.token # NoToken

\* One at most of these records is the finish of a marker, the k-th, and its
\* token is in T.
SaysAt(k, rs, T) == \A x \in 1..Len(rs) : IsMark(rs[x]) => x = k /\ rs[x].token \in T

Says(rs, T) == \E k : SaysAt(k, rs, T)

\* The only such finish in st1 and not in st is at place k.
MarksAt(k, st, st1, T) ==
    \A i \in 1..Len(st1) : Marks(st1[i]) => i <= Len(st) \/ (i = k /\ st1[i].token \in T)

\* The stream goes on from st to st1, with one such finish at most.
MarksOn(st, st1, T) ==
    /\ Len(st) <= Len(st1)
    /\ \A i \in 1..Len(st) : st1[i] = st[i]
    /\ \E k : MarksAt(k, st, st1, T)

LEMMA NoMarksOn ==
    ASSUME NEW S, NEW st \in Seq(S), NEW T
    PROVE  MarksOn(st, st, T)
<1>1. Len(st) \in Nat
  OBVIOUS
<1>2. MarksAt(0, st, st, T)
  BY <1>1 DEF MarksAt
<1> QED
  BY <1>1, <1>2 DEF MarksOn

LEMMA MarksOnAndOn ==
    ASSUME NEW A, NEW st \in Seq(A), NEW a \in Seq(A), NEW b \in Seq(A), NEW S, NEW T, NEW U,
           MarksOn(st, a, S), MarksOn(a, b, T), S = {} \/ T = {}, S \subseteq U, T \subseteq U
    PROVE  MarksOn(st, b, U)
<1>1. /\ Len(st) \in Nat /\ Len(a) \in Nat /\ Len(b) \in Nat
      /\ Len(st) <= Len(a) /\ Len(a) <= Len(b)
      /\ \A i \in 1..Len(st) : a[i] = st[i]
      /\ \A i \in 1..Len(a) : b[i] = a[i]
  BY DEF MarksOn
<1>2. Len(st) <= Len(b) /\ \A i \in 1..Len(st) : b[i] = st[i]
  BY <1>1
<1>3. PICK k : MarksAt(k, st, a, S)
  BY DEF MarksOn
<1>4. PICK l : MarksAt(l, a, b, T)
  BY DEF MarksOn
<1>5. CASE S = {}
  <2>1. MarksAt(l, st, b, U)
    BY <1>1, <1>3, <1>4, <1>5 DEF MarksAt
  <2> QED
    BY <1>2, <2>1 DEF MarksOn
<1>6. CASE T = {}
  <2>1. MarksAt(k, st, b, U)
    BY <1>1, <1>3, <1>4, <1>6 DEF MarksAt
  <2> QED
    BY <1>2, <2>1 DEF MarksOn
<1> QED
  BY <1>5, <1>6

\* The parser makes one event of a record, or two if its stack overflows.
LEMMA ParsedIs ==
    ASSUME NEW n \in Nat, NEW p, NEW r \in Records(n)
    PROVE  \E e : /\ e.phase \in {r.phase, "gap"}
                  /\ Parsed(p, r).events \in {<<e>>, <<e, GapEvent>>}
<1> DEFINE result == Parsed(p, r)
           u == Unmatched(r.phase)
<1>1. GapEvent.phase = "gap"
  BY DEF GapEvent, Event
<1>2. CASE r.phase = "damaged"
  <2>1. result.events = <<GapEvent>>
    BY <1>2 DEF Parsed, GapResult
  <2> HIDE DEF result
  <2> QED
    BY <1>1, <2>1 DEF result
<1>3. CASE r.phase # "damaged"
  <2>1. result = RecordResult(p, r.phase, r.key, r.activity, FALSE)
    BY <1>3 DEF Parsed
  <2>2. r.phase \in {"start", "finish"}
    BY <1>3 DEF Records, DamagedRecord
  <2>3. u.phase = r.phase
    BY DEF Unmatched, Event
  <2>4. CASE r.key = NoKey \/ Anonymous(r.activity)
    <3>1. result.events = <<u>>
      <4>1. CASE r.key = NoKey
        BY <2>1, <4>1 DEF RecordResult
      <4>2. CASE r.key # NoKey /\ Anonymous(r.activity)
        BY <2>1, <4>2 DEF RecordResult
      <4> QED
        BY <2>4, <4>1, <4>2
    <3> HIDE DEF result, u
    <3> QED
      BY <2>3, <3>1 DEF result
  <2>5. CASE r.key # NoKey /\ ~ Anonymous(r.activity) /\ r.phase = "start"
    <3> DEFINE s == p.sequence + 1
               e == Event("start", s, 0, TRUE)
               f == Event("start", s, Enclosing(StackOf(p, r.key)), p.incomplete)
    <3>1. result.events \in {<<e, GapEvent>>, <<f>>}
      BY <2>1, <2>5 DEF RecordResult, StartResult
    <3>2. e.phase = "start" /\ f.phase = "start"
      BY DEF Event
    <3> HIDE DEF result, e, f
    <3> QED
      BY <2>5, <3>1, <3>2 DEF result
  <2>6. CASE r.key # NoKey /\ ~ Anonymous(r.activity) /\ r.phase = "finish"
    <3> DEFINE stack == StackOf(p, r.key)
               e == Event("finish", Last(stack).sequence, Enclosing(Front(stack)), p.incomplete \/ FALSE)
    <3>1. result.events \in {<<e>>, <<u>>}
      BY <2>1, <2>6 DEF RecordResult, FinishResult
    <3>2. e.phase = "finish"
      BY DEF Event
    <3> HIDE DEF result, e, u
    <3> QED
      BY <2>3, <2>6, <3>1, <3>2 DEF result
  <2> QED
    BY <2>2, <2>4, <2>5, <2>6
<1> QED
  BY <1>2, <1>3

LEMMA WrittenMarks ==
    ASSUME NEW n \in Nat, NEW state, Ordered(state.parser, state.stream, n), NEW r \in Records(n)
    PROVE  MarksOn(state.stream, Written(state, r).stream, IF IsMark(r) THEN {r.token} ELSE {})
<1> DEFINE st == state.stream
           T == IF IsMark(r) THEN {r.token} ELSE {}
<1>1. st \in Seq(Messages(n))
  BY DEF Ordered
<1>2. PICK e : /\ e.phase \in {r.phase, "gap"}
               /\ Parsed(state.parser, r).events \in {<<e>>, <<e, GapEvent>>}
  BY ParsedIs
<1> DEFINE f == GapEvent
           a == Message(r, e)
           b == Message(r, f)
           A == Messages(n) \cup {a, b}
           es == Parsed(state.parser, r).events
<1>3. Written(state, r).stream = st \o [i \in DOMAIN es |-> Message(r, es[i])]
  BY DEF Written
<1>4. ~ Marks(b)
  BY DEF Message, GapEvent, Event, Marks
<1>5. Marks(a) => a.token \in T
  <2>1. CASE e.phase = "gap"
    <3>1. a.event = e
      BY <2>1 DEF Message
    <3> QED
      BY <2>1, <3>1 DEF Marks
  <2>2. CASE e.phase # "gap"
    <3>1. a = [event |-> e, kind |-> r.activity.kind,
               attachment |-> IF r.key = NoKey THEN 0 ELSE r.key[1],
               token |-> r.token, owner |-> r.owner]
      BY <2>2 DEF Message
    <3>2. a.event = e /\ a.token = r.token
      BY <3>1
    <3> HIDE DEF a
    <3> QED
      BY <1>2, <2>2, <3>2 DEF Marks, IsMark
  <2> QED
    BY <2>1, <2>2
<1> HIDE DEF a, b, es, f, T
<1>6. st \in Seq(A) /\ a \in A /\ b \in A
  BY <1>1
<1> HIDE DEF A, st
<1>7. Written(state, r).stream \in {Append(st, a), Append(Append(st, a), b)}
  <2>1. /\ st \o [i \in DOMAIN <<e>> |-> Message(r, <<e>>[i])] = Append(st, Message(r, e))
        /\ st \o [i \in DOMAIN <<e, f>> |-> Message(r, <<e, f>>[i])]
             = Append(Append(st, Message(r, e)), Message(r, f))
    BY <1>6, EventsAppended DEF a, b
  <2>2. es \in {<<e>>, <<e, f>>}
    BY <1>2 DEF es, f
  <2>3. CASE es = <<e>>
    BY <1>3, <2>1, <2>3, Zenon DEF a
  <2>4. CASE es = <<e, f>>
    BY <1>3, <2>1, <2>4, Zenon DEF a, b
  <2> QED
    BY <2>2, <2>3, <2>4
<1>8. MarksOn(st, Append(st, a), T)
  <2> DEFINE st1 == Append(st, a)
  <2>1. /\ Len(st) \in Nat /\ Len(st1) = Len(st) + 1 /\ st1[Len(st) + 1] = a
        /\ \A i \in 1..Len(st) : st1[i] = st[i]
    BY <1>6, AppendProperties
  <2> HIDE DEF st1
  <2>2. MarksAt(Len(st) + 1, st, st1, T)
    BY <1>5, <2>1 DEF MarksAt
  <2> QED
    BY <2>1, <2>2 DEF MarksOn, st1
<1>9. MarksOn(Append(st, a), Append(Append(st, a), b), {})
  <2> DEFINE st0 == Append(st, a)
             st1 == Append(st0, b)
  <2>0. st0 \in Seq(A)
    BY <1>6
  <2> HIDE DEF st0
  <2>1. /\ Len(st0) \in Nat /\ Len(st1) = Len(st0) + 1 /\ st1[Len(st0) + 1] = b
        /\ \A i \in 1..Len(st0) : st1[i] = st0[i]
    BY <1>6, <2>0, AppendProperties
  <2> HIDE DEF st1
  <2>2. MarksAt(0, st0, st1, {})
    BY <1>4, <2>1 DEF MarksAt
  <2> QED
    BY <2>1, <2>2 DEF MarksOn, st1, st0
<1>10. MarksOn(st, Append(Append(st, a), b), T)
  <2>1. Append(st, a) \in Seq(A) /\ Append(Append(st, a), b) \in Seq(A)
    BY <1>6
  <2> DEFINE st0 == Append(st, a)
             st1 == Append(st0, b)
             none == {}
  <2>2. none \subseteq T /\ MarksOn(st, st0, T) /\ MarksOn(st0, st1, none) /\ none = {}
    BY <1>8, <1>9
  <2> HIDE DEF st0, st1, none
  <2>3. MarksOn(st, st1, T)
    BY <1>6, <2>1, <2>2, MarksOnAndOn DEF st0, st1
  <2> QED
    BY <2>3 DEF st0, st1
<1> QED
  BY <1>7, <1>8, <1>10 DEF T, st

\* The records are read one after the other.
LEMMA ReadMarks ==
    ASSUME NEW n \in Nat, Ordered(parser, stream, n), NEW rs \in Seq(Records(n)), NEW T, Says(rs, T)
    PROVE  MarksOn(stream, Read(rs).stream, T)
<1>1. PICK after : IsReading(after, rs) /\ Read(rs) = after[Len(rs)]
  BY ReadIsReading
<1>2. PICK k : SaysAt(k, rs, T)
  BY DEF Says
<1> DEFINE N == Len(rs)
           none == {}
           None(i) == \A x \in 1..i : ~ IsMark(rs[x])
           S == {i \in 0..N : /\ Ordered(after[i].parser, after[i].stream, n)
                              /\ MarksOn(stream, after[i].stream, T)
                              /\ None(i) => MarksOn(stream, after[i].stream, none)}
<1>3. N \in Nat /\ \A i \in 1..N : rs[i] \in Records(n)
  OBVIOUS
<1>4. none \subseteq T /\ none = {} /\ T \subseteq T
  OBVIOUS
<1>5. stream \in Seq(Messages(n))
  BY DEF Ordered
<1> HIDE DEF none
<1>6. 0 \in S
  <2>1. after[0].parser = parser /\ after[0].stream = stream
    BY <1>1 DEF IsReading
  <2>2. MarksOn(stream, stream, T) /\ MarksOn(stream, stream, none)
    BY <1>5, NoMarksOn
  <2> QED
    BY <1>3, <2>1, <2>2
<1>7. ASSUME NEW i \in 1..N, i - 1 \in S
      PROVE  i \in S
  <2> DEFINE a == after[i - 1]
             b == after[i]
             mark == IF IsMark(rs[i]) THEN {rs[i].token} ELSE {}
  <2>1. b = Written(a, rs[i])
    BY <1>1 DEF IsReading
  <2>2. /\ Ordered(a.parser, a.stream, n)
        /\ MarksOn(stream, a.stream, T)
        /\ None(i - 1) => MarksOn(stream, a.stream, none)
    BY <1>7
  <2> HIDE DEF a, b, N
  <2>3. Ordered(b.parser, b.stream, n)
    <3>1. Grows(a.parser, a.stream, b.parser, b.stream, n)
      BY <1>3, <2>1, <2>2, WrittenGrows
    <3> QED
      BY <3>1 DEF Grows
  <2>4. MarksOn(a.stream, b.stream, mark)
    BY <1>3, <2>1, <2>2, WrittenMarks
  <2>5. a.stream \in Seq(Messages(n)) /\ b.stream \in Seq(Messages(n))
    BY <2>2, <2>3 DEF Ordered
  <2>6. CASE IsMark(rs[i])
    <3>1. i = k /\ mark \subseteq T
      BY <1>2, <2>6 DEF N, SaysAt
    <3>2. None(i - 1)
      <4>1. ASSUME NEW x \in 1..(i - 1)
            PROVE  ~ IsMark(rs[x])
        <5>1. x \in 1..N /\ x # i
          BY <1>3
        <5> QED
          BY <1>2, <3>1, <5>1 DEF N, SaysAt
      <4> QED
        BY <4>1
    <3>3. ~ None(i)
      <4>1. i \in 1..i
        OBVIOUS
      <4> QED
        BY <2>6, <4>1
    <3>4. MarksOn(stream, a.stream, none)
      BY <2>2, <3>2
    <3> HIDE DEF None, mark
    <3>5. MarksOn(stream, b.stream, T)
      BY <1>4, <1>5, <2>4, <2>5, <3>1, <3>4, MarksOnAndOn
    <3>6. i \in 0..N
      BY <1>3
    <3> QED
      BY <2>3, <3>3, <3>5, <3>6 DEF b
  <2>7. CASE ~ IsMark(rs[i])
    <3>1. mark = none
      BY <2>7 DEF none
    <3>2. MarksOn(a.stream, b.stream, none)
      BY <2>4, <3>1, Zenon
    <3>3. None(i) => None(i - 1)
      <4>1. 1..(i - 1) \subseteq 1..i
        OBVIOUS
      <4> QED
        BY <4>1
    <3> HIDE DEF None, mark
    <3>4. MarksOn(stream, b.stream, T)
      BY <1>4, <1>5, <2>2, <2>5, <3>2, MarksOnAndOn
    <3>5. none \subseteq none
      OBVIOUS
    <3>6. None(i) => MarksOn(stream, b.stream, none)
      BY <1>4, <1>5, <2>2, <2>5, <3>2, <3>3, <3>5, MarksOnAndOn
    <3>7. i \in 0..N
      BY <1>3
    <3> QED
      BY <2>3, <3>4, <3>6, <3>7 DEF b
  <2> QED
    BY <2>6, <2>7
<1>8. N \in S
  <2> HIDE DEF S, N
  <2>1. 0..N \subseteq S
    BY <1>3, <1>6, <1>7, UpTo
  <2> QED
    BY <1>3, <2>1
<1> QED
  BY <1>1, <1>8

LEMMA WriteMarks ==
    ASSUME NEW n \in Nat, Ordered(parser, stream, n), NEW records \in Seq(Records(n)), Write(records),
           NEW T, Says(records, T)
    PROVE  MarksOn(stream, stream', T)
<1>1. stream \in Seq(Messages(n))
  BY DEF Ordered
<1>2. CASE session = "open"
  <2>1. PICK rs \in Damaged(records) : parser' = Read(rs).parser /\ stream' = Read(rs).stream
    BY <1>2 DEF Write
  <2>2. rs \in Seq(Records(n))
    BY DamagedTyped
  <2>3. Says(rs, T)
    <3>1. CASE rs = records
      BY <3>1
    <3>2. CASE \E i \in DOMAIN records : rs = [records EXCEPT ![i] = DamagedRecord]
      <4>1. PICK i \in DOMAIN records : rs = [records EXCEPT ![i] = DamagedRecord]
        BY <3>2
      <4>2. /\ Len(rs) = Len(records)
            /\ \A x \in 1..Len(records) : rs[x] = IF x = i THEN DamagedRecord ELSE records[x]
        BY <4>1
      <4>3. ~ IsMark(DamagedRecord)
        BY DEF IsMark, DamagedRecord
      <4>4. PICK k : SaysAt(k, records, T)
        BY DEF Says
      <4>5. SaysAt(k, rs, T)
        BY <4>2, <4>3, <4>4 DEF SaysAt
      <4> QED
        BY <4>5 DEF Says
    <3> QED
      BY <3>1, <3>2 DEF Damaged
  <2>4. MarksOn(stream, Read(rs).stream, T)
    BY <2>2, <2>3, ReadMarks
  <2> QED
    BY <2>1, <2>4
<1>3. CASE session # "open"
  <2>1. stream' = stream
    BY <1>3 DEF Write
  <2>2. MarksOn(stream, stream, T)
    BY <1>1, NoMarksOn
  <2> QED
    BY <2>1, <2>2
<1> QED
  BY <1>2, <1>3

-----------------------------------------------------------------------------
(* What calls write. *)

LEMMA SaysOn ==
    ASSUME NEW R, NEW a \in Seq(R), NEW b \in Seq(R), NEW S, NEW T, NEW U, Says(a, S), Says(b, T),
           S = {} \/ T = {}, S \subseteq U, T \subseteq U
    PROVE  Says(a \o b, U)
<1> DEFINE c == a \o b
<1>1. /\ Len(a) \in Nat /\ Len(b) \in Nat /\ Len(c) = Len(a) + Len(b)
      /\ \A x \in 1..Len(a) : c[x] = a[x]
      /\ \A x \in 1..Len(c) : x > Len(a) => x - Len(a) \in 1..Len(b) /\ c[x] = b[x - Len(a)]
  OBVIOUS
<1>2. PICK k : SaysAt(k, a, S)
  BY DEF Says
<1>3. PICK l : SaysAt(l, b, T)
  BY DEF Says
<1> HIDE DEF c
<1>4. CASE S = {}
  <2>1. SaysAt(l + Len(a), c, U)
    <3>1. ASSUME NEW x \in 1..Len(c), IsMark(c[x])
          PROVE  x = l + Len(a) /\ c[x].token \in U
      <4>1. x > Len(a)
        BY <1>1, <1>2, <1>4, <3>1 DEF SaysAt
      <4>2. x - Len(a) \in 1..Len(b) /\ c[x] = b[x - Len(a)]
        BY <1>1, <4>1
      <4>3. x - Len(a) = l /\ c[x].token \in T
        BY <1>3, <3>1, <4>2 DEF SaysAt
      <4>4. x = (x - Len(a)) + Len(a)
        BY <1>1
      <4> QED
        BY <4>3, <4>4
    <3> QED
      BY <3>1 DEF SaysAt
  <2> QED
    BY <2>1 DEF Says, c
<1>5. CASE T = {}
  <2>1. SaysAt(k, c, U)
    <3>1. ASSUME NEW x \in 1..Len(c), IsMark(c[x])
          PROVE  x = k /\ c[x].token \in U
      <4>1. ~ x > Len(a)
        BY <1>1, <1>3, <1>5, <3>1 DEF SaysAt
      <4>2. x \in 1..Len(a)
        BY <1>1, <4>1
      <4> QED
        BY <1>1, <1>2, <3>1, <4>2 DEF SaysAt
    <3> QED
      BY <3>1 DEF SaysAt
  <2> QED
    BY <2>1 DEF Says, c
<1> QED
  BY <1>4, <1>5

\* None of these records is the finish of a marker.
Silent(rs) == \A x \in 1..Len(rs) : ~ IsMark(rs[x])

LEMMA SilentSays ==
    ASSUME NEW rs, Silent(rs), NEW T
    PROVE  Says(rs, T)
<1>1. SaysAt(0, rs, T)
  BY DEF Silent, SaysAt
<1> QED
  BY <1>1 DEF Says

LEMMA SilentOn ==
    ASSUME NEW R, NEW a \in Seq(R), NEW b \in Seq(R), Silent(a), Silent(b)
    PROVE  Silent(a \o b)
<1> DEFINE c == a \o b
<1>1. /\ Len(a) \in Nat /\ Len(b) \in Nat /\ Len(c) = Len(a) + Len(b)
      /\ \A x \in 1..Len(a) : c[x] = a[x]
      /\ \A x \in 1..Len(c) : x > Len(a) => x - Len(a) \in 1..Len(b) /\ c[x] = b[x - Len(a)]
  OBVIOUS
<1> HIDE DEF c
<1>2. ASSUME NEW x \in 1..Len(c)
      PROVE  ~ IsMark(c[x])
  <2>1. CASE x > Len(a)
    BY <1>1, <2>1 DEF Silent
  <2>2. CASE ~ x > Len(a)
    <3>1. x \in 1..Len(a)
      BY <1>1, <2>2
    <3> QED
      BY <1>1, <3>1 DEF Silent
  <2> QED
    BY <2>1, <2>2
<1> QED
  BY <1>2 DEF Silent, c

LEMMA JobsAreSilent ==
    ASSUME NoToken \notin Nat, NEW job, Runs(job)
    PROVE  /\ Silent(Work(job, "start")) /\ Silent(Work(job, "finish"))
           /\ \A command : Silent(ProfilerRecords(job, command))
           /\ \A result : Silent(WorkRecords(job, result))
<1>1. Silent(<<>>)
  BY DEF Silent
<1>2. ASSUME NEW phase, NEW key, NEW activity, NEW owner
      PROVE  ~ IsMark(Record(phase, key, activity, NoToken, owner))
  BY DEF Record, IsMark
<1>3. ~ IsMark(DamagedRecord)
  BY DEF DamagedRecord, IsMark
<1>4. ASSUME NEW r, ~ IsMark(r)
      PROVE  Silent(<<r>>)
  BY <1>4 DEF Silent
<1>5. ASSUME NEW r, NEW s, ~ IsMark(r), ~ IsMark(s)
      PROVE  Silent(<<r, s>>)
  BY <1>5 DEF Silent
<1>6. ASSUME NEW phase
      PROVE  Silent(Work(job, phase)) \/ phase \notin {"start", "finish"}
  <2> DEFINE key == <<job.conn, job.tra>>
             own == Record(phase, key, Statement(<<"work", job.op>>), NoToken, job.op)
             routine == Record(phase, key, Procedure, NoToken, job.op)
  <2>1. ~ IsMark(own) /\ ~ IsMark(routine)
    <3> HIDE DEF key
    <3> QED
      BY <1>2
  <2>2. Work(job, phase) = CASE ~ Routines                   -> <<own>>
                             [] Routines /\ phase = "start"  -> <<own, routine>>
                             [] Routines /\ phase = "finish" -> <<routine, own>>
    BY DEF Work
  <2> HIDE DEF own, routine
  <2>3. phase \in {"start", "finish"} => Work(job, phase) \in {<<own>>, <<own, routine>>, <<routine, own>>}
    BY <2>2
  <2>4. Silent(<<own>>) /\ Silent(<<own, routine>>) /\ Silent(<<routine, own>>)
    BY <1>4, <1>5, <2>1
  <2> QED
    BY <2>3, <2>4
<1>7. ASSUME NEW command
      PROVE  Silent(ProfilerRecords(job, command))
  <2> DEFINE key == <<job.conn, job.tra>>
             r == Record("start", key, Statement(<<command, job.op>>), NoToken, NoOwner)
             s == Record("finish", key, Statement(<<command, job.op>>), NoToken, NoOwner)
  <2>1. ProfilerRecords(job, command) \in {<<>>, <<r, s>>}
    BY DEF ProfilerRecords, Whole
  <2>2. ~ IsMark(r) /\ ~ IsMark(s)
    <3> HIDE DEF key
    <3> QED
      BY <1>2
  <2> HIDE DEF r, s
  <2> QED
    BY <1>1, <1>5, <2>1, <2>2
<1>8. ASSUME NEW result
      PROVE  Silent(WorkRecords(job, result))
  <2> DEFINE a == Work(job, "start")
             b == Work(job, "finish")
             d == <<DamagedRecord>>
  <2>1. WorkRecords(job, result) \in {a \o b, a, a \o d, <<>>}
    BY DEF WorkRecords
  <2>2. Silent(a) /\ Silent(b) /\ Silent(d)
    BY <1>3, <1>4, <1>6
  <2>3. a \in Seq(Records(0)) /\ b \in Seq(Records(0)) /\ d \in Seq(Records(0))
    <3>1. DamagedRecord \in Records(0)
      BY DEF Records
    <3>2. 0 \in Nat
      OBVIOUS
    <3> QED
      BY <3>1, <3>2, JobRecords
  <2> HIDE DEF a, b, d
  <2>4. Silent(a \o b) /\ Silent(a \o d)
    BY <2>2, <2>3, SilentOn
  <2> QED
    BY <1>1, <2>1, <2>2, <2>4
<1> QED
  BY <1>6, <1>7, <1>8

-----------------------------------------------------------------------------
(* What a step writes. *)

LEMMA SubmittedTyped ==
    ASSUME HolderInv, NEW job, Runs(job), NEW s, s.issued \in {issued, issued + 1}, NEW result,
           NEW markerOk, NEW marker \in MarkersWritten(job, s, markerOk)
    PROVE  /\ marker \in Seq(Records(s.issued))
           /\ Submitted(job, marker, result) \in Seq(Records(s.issued))
<1>1. issued \in Nat /\ NoToken \notin Nat
  BY HolderFacts
<1> DEFINE n == s.issued
<1>2. n \in Nat
  BY <1>1
<1>3. marker \in Seq(Records(n))
  <2>1. CASE s.issued = issued
    <3>1. marker = <<>>
      BY <2>1 DEF MarkersWritten
    <3> QED
      BY <3>1
  <2>2. CASE s.issued # issued
    <3>1. n \in 1..n
      BY <1>1, <2>2
    <3>2. marker \in {<<>>, MarkerRecords(job, n), <<MarkerRecords(job, n)[1], DamagedRecord>>}
      BY <2>2 DEF MarkersWritten
    <3> HIDE DEF n
    <3>3. /\ MarkerRecords(job, n) \in Seq(Records(n))
          /\ <<MarkerRecords(job, n)[1], DamagedRecord>> \in Seq(Records(n))
      BY <1>1, <1>2, <3>1, JobRecords
    <3>4. <<>> \in Seq(Records(n))
      OBVIOUS
    <3> QED
      BY <3>2, <3>3, <3>4
  <2> QED
    BY <2>1, <2>2
<1> HIDE DEF n
<1>4. Submitted(job, marker, result) \in Seq(Records(n))
  <2> DEFINE a == ProfilerRecords(job, "start")
             b == WorkRecords(job, result)
  <2>1. a \in Seq(Records(n)) /\ b \in Seq(Records(n))
    BY <1>1, <1>2, JobRecords
  <2>2. Submitted(job, marker, result) = a \o marker \o b
    BY DEF Submitted
  <2> HIDE DEF a, b
  <2> QED
    BY <1>3, <2>1, <2>2
<1> QED
  BY <1>3, <1>4 DEF n

LEMMA SubmitGrows ==
    ASSUME HolderInv, Ordered(parser, stream, issued), NEW g, NEW job, Runs(job), NEW s,
           s.issued \in {issued, issued + 1}, NEW result, NEW markerOk,
           Submit(g, job, s, result, markerOk)
    PROVE  /\ Grows(parser, stream, parser', stream', issued')
           /\ issued' \in {issued, issued + 1} /\ dropped' = dropped
<1>1. issued' = s.issued /\ issued \in Nat
  BY HolderFacts DEF Submit
<1> DEFINE n == s.issued
<1>2. n \in Nat /\ Ordered(parser, stream, n)
  BY <1>1, MoreTokens
<1>3. PICK marker \in MarkersWritten(job, s, markerOk) : Write(Submitted(job, marker, result))
  BY DEF Submit
<1>4. Submitted(job, marker, result) \in Seq(Records(n))
  BY SubmittedTyped
<1> HIDE DEF n
<1>5. Grows(parser, stream, parser', stream', n) /\ dropped' = dropped
  BY <1>2, <1>3, <1>4, WriteGrows
<1> QED
  BY <1>1, <1>5 DEF n

\* The parser reads on, or nothing happens to the stream.
ReadsOn ==
    /\ Grows(parser, stream, parser', stream', issued')
    /\ issued' \in Nat /\ issued <= issued'
    /\ dropped' = dropped

\* What the server writes in a step marks new tokens only, and one at most.
NewMarks == MarksOn(stream, stream', (issued + 1)..issued')

LEMMA SubmitMarks ==
    ASSUME HolderInv, Ordered(parser, stream, issued), NEW g, NEW job, Runs(job), NEW s,
           s.issued \in {issued, issued + 1}, NEW result, NEW markerOk,
           Submit(g, job, s, result, markerOk)
    PROVE  NewMarks
<1> DEFINE n == s.issued
           T == (issued + 1)..n
           none == {}
<1>1. issued \in Nat /\ NoToken \notin Nat
  BY HolderFacts
<1>2. issued' = n /\ n \in Nat /\ Ordered(parser, stream, n)
  BY <1>1, MoreTokens DEF Submit
<1>3. PICK marker \in MarkersWritten(job, s, markerOk) : Write(Submitted(job, marker, result))
  BY DEF Submit
<1>4. /\ marker \in Seq(Records(n))
      /\ Submitted(job, marker, result) \in Seq(Records(n))
  BY SubmittedTyped
<1>5. Says(marker, T)
  <2>1. CASE marker = <<>>
    <3>1. Silent(<<>>)
      BY DEF Silent
    <3> QED
      BY <2>1, <3>1, SilentSays
  <2>2. CASE marker # <<>>
    <3> DEFINE r(phase) == Record(phase, <<job.conn, job.tra>>, Statement(<<"marker", n>>), n, NoOwner)
               a == r("start")
               b == r("finish")
    <3>1. n \in T
      BY <1>1, <1>3, <2>2 DEF MarkersWritten
    <3>2. MarkerRecords(job, n) = <<a, b>>
      BY DEF MarkerRecords, Whole
    <3>3. <<a, b>>[1] = a
      OBVIOUS
    <3>4. marker \in {<<>>, MarkerRecords(job, n), <<MarkerRecords(job, n)[1], DamagedRecord>>}
      BY <1>3 DEF MarkersWritten
    <3>5. a.phase = "start" /\ b.token = n /\ DamagedRecord.phase = "damaged"
      BY DEF Record, DamagedRecord
    <3> HIDE DEF a, b, n, T
    <3>6. marker = <<a, b>> \/ marker = <<a, DamagedRecord>>
      BY <2>2, <3>2, <3>3, <3>4
    <3>7. SaysAt(2, marker, T)
      BY <3>1, <3>5, <3>6 DEF SaysAt, IsMark
    <3> QED
      BY <3>7 DEF Says
  <2> QED
    BY <2>1, <2>2
<1> HIDE DEF n, T
<1>6. Says(Submitted(job, marker, result), T)
  <2> DEFINE a == ProfilerRecords(job, "start")
             b == WorkRecords(job, result)
             c == a \o marker
  <2>1. a \in Seq(Records(n)) /\ b \in Seq(Records(n))
    BY <1>1, <1>2, JobRecords
  <2>2. Submitted(job, marker, result) = c \o b
    BY DEF Submitted
  <2>3. Silent(a) /\ Silent(b)
    BY <1>1, JobsAreSilent
  <2> HIDE DEF a, b
  <2>4. Says(a, none) /\ Says(b, none)
    BY <2>3, SilentSays
  <2>5. none = {} /\ none \subseteq T /\ T \subseteq T
    OBVIOUS
  <2> HIDE DEF none
  <2>6. Says(c, T)
    BY <1>4, <1>5, <2>1, <2>4, <2>5, SaysOn
  <2>7. c \in Seq(Records(n))
    BY <1>4, <2>1
  <2> HIDE DEF c
  <2>8. Says(c \o b, T)
    BY <2>1, <2>4, <2>5, <2>6, <2>7, SaysOn
  <2> QED
    BY <2>2, <2>8, Zenon
<1>7. MarksOn(stream, stream', T)
  BY <1>2, <1>3, <1>4, <1>6, WriteMarks
<1> QED
  BY <1>2, <1>7 DEF NewMarks, T

\* Caller g submits what a job makes the server write, with one token at most.
Submits(g) ==
    \E job, s, result, markerOk :
        Runs(job) /\ s.issued \in {issued, issued + 1} /\ Submit(g, job, s, result, markerOk)

LEMMA DirectCallSubmits ==
    ASSUME HolderInv, NEW g, NEW c \in Connections,
           NEW tra \in Transactions, NEW method \in {"exec", "query"}, NEW q \in Queries,
           NEW mode \in Modes, DirectCall(g, c, tra, method, q, mode)
    PROVE  Submits(g)
<1> DEFINE job == NewJob(c, tra, method, q, mode)
           cn == connection[c]
<1>1. PICK result \in Results(TRUE), markerOk \in BOOLEAN :
         Submit(g, job, IF result = "skip" THEN Preserved(ServerScope(cn, mode, markerOk), q)
                        ELSE ServerScope(cn, mode, markerOk), result, markerOk)
  BY DEF DirectCall
<1> DEFINE scope == ServerScope(cn, mode, markerOk)
           s == IF result = "skip" THEN Preserved(scope, q) ELSE scope
<1>2. issued \in Nat /\ ops \in Nat
  BY HolderFacts, MaxOpsAssumption
<1>3. Runs(job)
  BY <1>2, NewJobIs DEF Runs
<1>4. ScopeFor(cn, scope)
  BY HolderFacts, ServerScopeIs DEF HolderInv
<1> HIDE DEF job, scope
<1>5. s.issued = scope.issued
  <2>1. CASE s = scope
    BY <2>1
  <2>2. CASE s = [scope EXCEPT !.connection.fallback = scope.token, !.connection.query = q,
                               !.token = NoToken]
    <3>1. scope = [registrations |-> scope.registrations, issued |-> scope.issued,
                   token |-> scope.token, connection |-> scope.connection]
      BY <1>4 DEF ScopeFor
    <3> HIDE DEF s
    <3> QED
      BY <2>2, <3>1
  <2> QED
    BY <2>1, <2>2 DEF Preserved
<1>6. s.issued \in {issued, issued + 1}
  BY <1>4, <1>5 DEF ScopeFor
<1>7. Submit(g, job, s, result, markerOk)
  BY <1>1 DEF job, scope
<1> HIDE DEF s
<1> QED
  BY <1>3, <1>6, <1>7 DEF Submits

LEMMA StatementCallSubmits ==
    ASSUME HolderInv, NEW g \in Callers, StatementCall(g)
    PROVE  Submits(g)
<1>1. PICK result \in Results(FALSE), markerOk \in BOOLEAN,
           mode \in {caller[g].mode} \cup (Modes \cap {"disabled"}) :
         LET job == [caller[g] EXCEPT !.mode = mode]
         IN  /\ job.pc = "prepared"
             /\ Submit(g, job, StatementScope(job, connection[job.conn], markerOk), result, markerOk)
  BY DEF StatementCall
<1> DEFINE job == [caller[g] EXCEPT !.mode = mode]
           cn == connection[job.conn]
           s == StatementScope(job, cn, markerOk)
<1>2. caller[g] \in Jobs /\ caller[g].mode \in {"traced", "unsampled", "disabled"}
  BY HolderFacts DEF Jobs
<1>3. job \in Jobs /\ job.pc = caller[g].pc /\ job.conn = caller[g].conn
  BY <1>2 DEF Jobs
<1>4. job.conn \in Connections /\ issued \in Nat
  BY <1>1, <1>3, HolderFacts
<1> HIDE DEF job, cn
<1>5. cn \in ConnectionStates /\ cn.token \in Tokenish(issued) /\ cn.fallback \in Tokenish(issued)
  BY <1>4, HolderFacts DEF cn
<1>6. s.issued \in {issued, issued + 1}
  <2>1. CASE job.held = NoToken
    <3>1. s = ServerScope(cn, job.mode, markerOk)
      BY <2>1 DEF StatementScope
    <3>2. ScopeFor(cn, s)
      BY <1>5, <3>1, ServerScopeIs DEF HolderInv
    <3> QED
      BY <3>2 DEF ScopeFor
  <2>2. CASE job.held # NoToken
    BY <2>2 DEF StatementScope
  <2> QED
    BY <2>1, <2>2
<1>7. Submit(g, job, s, result, markerOk)
  BY <1>1 DEF job, cn
<1> HIDE DEF s
<1>8. Runs(job)
  BY <1>3, <1>4 DEF Runs
<1> QED
  BY <1>6, <1>7, <1>8 DEF Submits

LEMMA SubmitsGrows ==
    ASSUME HolderInv, Ordered(parser, stream, issued), NEW g, Submits(g)
    PROVE  ReadsOn /\ NewMarks
<1>1. PICK job, s, result, markerOk :
         Runs(job) /\ s.issued \in {issued, issued + 1} /\ Submit(g, job, s, result, markerOk)
  BY DEF Submits
<1>2. issued \in Nat
  BY HolderFacts
<1>3. NewMarks
  BY <1>1, SubmitMarks
<1>4. /\ Grows(parser, stream, parser', stream', issued')
      /\ issued' \in {issued, issued + 1} /\ dropped' = dropped
  BY <1>1, SubmitGrows
<1> QED
  BY <1>2, <1>3, <1>4 DEF ReadsOn

\* A call writes what its job makes the server write, and issues no token.
LEMMA JobWrites ==
    ASSUME HolderInv, Ordered(parser, stream, issued), issued' = issued,
           NEW records \in Seq(Records(issued)), Write(records)
    PROVE  ReadsOn
<1>1. issued \in Nat
  BY HolderFacts
<1>2. Grows(parser, stream, parser', stream', issued) /\ dropped' = dropped
  BY <1>1, WriteGrows
<1> QED
  BY <1>1, <1>2 DEF ReadsOn

\* The step makes the server write, but no marker.
WritesSilently ==
    /\ issued' = issued
    /\ \E records \in Seq(Records(issued)) : Silent(records) /\ Write(records)

LEMMA StepsWriteSilently ==
    ASSUME HolderInv, NEW g \in Callers, Return(g) \/ CursorEnds(g) \/ CloseRows(g)
    PROVE  WritesSilently
<1> DEFINE job == caller[g]
<1>1. /\ issued' = issued /\ job.pc # "idle"
  BY DEF Return, CursorEnds, CloseRows, regVars
<1>2. issued \in Nat /\ NoToken \notin Nat /\ Runs(job)
  BY <1>1, HolderFacts DEF Runs
<1>3. /\ Work(job, "finish") \in Seq(Records(issued))
      /\ ProfilerRecords(job, "finish") \in Seq(Records(issued))
      /\ ProfilerRecords(job, "cancel") \in Seq(Records(issued))
      /\ <<>> \in Seq(Records(issued))
  <2>1. "finish" \in {"start", "finish", "cancel"} /\ "cancel" \in {"start", "finish", "cancel"}
        /\ "finish" \in {"start", "finish"}
    OBVIOUS
  <2>2. <<>> \in Seq(Records(issued))
    OBVIOUS
  <2> HIDE DEF job
  <2> QED
    BY <1>2, <2>1, <2>2, JobRecords
<1>4. /\ Silent(Work(job, "finish"))
      /\ Silent(ProfilerRecords(job, "finish"))
      /\ Silent(ProfilerRecords(job, "cancel"))
      /\ Silent(<<>>)
  <2>1. Silent(<<>>)
    BY DEF Silent
  <2> HIDE DEF job
  <2> QED
    BY <1>2, <2>1, JobsAreSilent
<1> DEFINE a == Work(job, "finish")
           b == ProfilerRecords(job, "finish")
           d == ProfilerRecords(job, "cancel")
           none == <<>>
<1>5. \E records \in {none, a, b, d, a \o b, none \o b} : Write(records)
  <2>1. CASE Return(g)
    BY <2>1 DEF Return
  <2>2. CASE CursorEnds(g)
    BY <2>2 DEF CursorEnds
  <2>3. CASE CloseRows(g)
    BY <2>3 DEF CloseRows
  <2> QED
    BY <2>1, <2>2, <2>3
<1>6. PICK records \in {none, a, b, d, a \o b, none \o b} : Write(records)
  BY <1>5
<1>7. /\ a \in Seq(Records(issued)) /\ b \in Seq(Records(issued)) /\ d \in Seq(Records(issued))
      /\ none \in Seq(Records(issued))
  BY <1>3
<1>8. Silent(a) /\ Silent(b) /\ Silent(d) /\ Silent(none)
  BY <1>4
<1> HIDE DEF a, b, d, none
<1>9. a \o b \in Seq(Records(issued)) /\ none \o b \in Seq(Records(issued))
  BY <1>7
<1>10. Silent(a \o b) /\ Silent(none \o b)
  BY <1>7, <1>8, SilentOn
<1>11. records \in Seq(Records(issued)) /\ Silent(records)
  BY <1>6, <1>7, <1>8, <1>9, <1>10
<1> QED
  BY <1>1, <1>6, <1>11 DEF WritesSilently

LEMMA StrayIsSilent ==
    ASSUME HolderInv, StrayRecord
    PROVE  WritesSilently
<1> DEFINE r == Record("finish", NoKey, Statement(NoStatement), NoToken, NoOwner)
<1>1. issued \in Nat /\ issued' = issued
  BY HolderFacts DEF StrayRecord, regVars
<1>2. r \in Records(issued)
  <2>1. NoToken \in Tokenish(issued) /\ NoOwner \in Owners
    BY DEF Tokenish, Owners
  <2> QED
    BY <1>1, <2>1, ActivitiesAre, RecordTyped
<1>3. Write(<<r>>)
  BY DEF StrayRecord
<1>4. ~ IsMark(r)
  BY DEF Record, IsMark
<1> HIDE DEF r
<1>5. <<r>> \in Seq(Records(issued)) /\ Silent(<<r>>)
  BY <1>2, <1>4 DEF Silent
<1> QED
  BY <1>1, <1>3, <1>5 DEF WritesSilently

LEMMA SilentMarks ==
    ASSUME HolderInv, Ordered(parser, stream, issued), WritesSilently
    PROVE  NewMarks
<1>1. issued \in Nat /\ issued' = issued
  BY HolderFacts DEF WritesSilently
<1>2. PICK records \in Seq(Records(issued)) : Silent(records) /\ Write(records)
  BY DEF WritesSilently
<1> DEFINE T == (issued + 1)..issued'
<1>3. Says(records, T)
  BY <1>2, SilentSays
<1> HIDE DEF T
<1>4. MarksOn(stream, stream', T)
  BY <1>1, <1>2, <1>3, WriteMarks
<1> QED
  BY <1>4 DEF NewMarks, T

LEMMA SilentGrows ==
    ASSUME HolderInv, Ordered(parser, stream, issued), WritesSilently
    PROVE  ReadsOn /\ NewMarks
<1>1. ReadsOn
  BY JobWrites DEF WritesSilently
<1> QED
  BY <1>1, SilentMarks

LEMMA NothingWritten ==
    ASSUME HolderInv, Ordered(parser, stream, issued), UNCHANGED <<issued, streamVars>>
    PROVE  ReadsOn /\ NewMarks
<1> DEFINE T == (issued + 1)..issued'
<1>1. issued \in Nat /\ stream \in Seq(Messages(issued))
  BY HolderFacts DEF Ordered
<1>2. Grows(parser, stream, parser', stream', issued')
  BY <1>1, NothingGrows DEF streamVars
<1> HIDE DEF T
<1>3. MarksOn(stream, stream, T)
  BY <1>1, NoMarksOn
<1> QED
  BY <1>1, <1>2, <1>3 DEF ReadsOn, NewMarks, T, streamVars

LEMMA ClientGrows ==
    ASSUME HolderInv, Ordered(parser, stream, issued), ClientNext
    PROVE  ReadsOn /\ NewMarks
<1>1. ASSUME NEW g \in Callers, ClientStep(g)
      PROVE  ReadsOn /\ NewMarks
  <2>1. CASE \E c \in Connections, tra \in Transactions, method \in {"exec", "query"},
                q \in Queries, mode \in Modes : DirectCall(g, c, tra, method, q, mode)
    BY <2>1, DirectCallSubmits, SubmitsGrows
  <2>2. CASE \E c \in Connections, tra \in Transactions, method \in {"exec", "query"},
                q \in Queries, mode \in Modes : PrepareFirst(g, c, tra, method, q, mode)
    BY <2>2, NothingWritten DEF PrepareFirst
  <2>3. CASE StatementCall(g)
    BY <2>3, StatementCallSubmits, SubmitsGrows
  <2>4. CASE Return(g) \/ CursorEnds(g) \/ CloseRows(g)
    BY <2>4, StepsWriteSilently, SilentGrows
  <2>5. CASE Prepare(g) \/ PrepareFails(g) \/ GiveUpSkipped(g) \/ CloseStatement(g)
    BY <2>5, NothingWritten DEF Prepare, PrepareFails, GiveUpSkipped, CloseStatement, regVars
  <2> QED
    BY <1>1, <2>1, <2>2, <2>3, <2>4, <2>5 DEF ClientStep
<1>2. ASSUME NEW c \in Connections, CloseConnection(c)
      PROVE  ReadsOn /\ NewMarks
  BY <1>2, NothingWritten DEF CloseConnection
<1> QED
  BY <1>1, <1>2 DEF ClientNext

LEMMA StreamEndMarks ==
    ASSUME HolderInv, Ordered(parser, stream, issued), StreamEnds
    PROVE  NewMarks
<1>1. issued \in Nat /\ issued' = issued /\ SessionEnds
  BY HolderFacts DEF StreamEnds, regVars
<1> DEFINE result == FlushResult(parser)
           T == (issued + 1)..issued'
           g == Message(DamagedRecord, GapEvent)
<1>2. stream' = Sent(stream, DamagedRecord, result)
  BY <1>1 DEF SessionEnds, Sent
<1>3. stream \in Seq(Messages(issued))
  BY DEF Ordered
<1>4. CASE DOMAIN parser.stacks # {}
  <2>1. result.events = <<GapEvent>>
    BY <1>4 DEF FlushResult, GapResult
  <2> HIDE DEF result
  <2>2. g \in Messages(issued)
    BY <1>1, GapMessageIs
  <2>3. stream \o [i \in DOMAIN <<GapEvent>> |-> Message(DamagedRecord, <<GapEvent>>[i])]
          = Append(stream, g)
    BY <1>3, <2>2, EventsAppended
  <2>4. stream' = Append(stream, g)
    BY <1>2, <2>1, <2>3, Zenon DEF Sent
  <2>5. ~ Marks(g)
    BY DEF Message, GapEvent, Event, Marks
  <2> HIDE DEF g, T
  <2>6. /\ Len(stream) \in Nat /\ Len(stream') = Len(stream) + 1 /\ stream'[Len(stream) + 1] = g
        /\ \A i \in 1..Len(stream) : stream'[i] = stream[i]
    BY <1>3, <2>2, <2>4, AppendProperties
  <2>7. MarksAt(0, stream, stream', T)
    BY <2>5, <2>6 DEF MarksAt
  <2>8. MarksOn(stream, stream', T)
    BY <2>6, <2>7 DEF MarksOn
  <2> QED
    BY <2>8 DEF NewMarks, T
<1>5. CASE DOMAIN parser.stacks = {}
  <2>1. result.events = <<>>
    BY <1>5 DEF FlushResult
  <2> HIDE DEF result
  <2>2. [i \in DOMAIN <<>> |-> Message(DamagedRecord, <<>>[i])] = <<>>
    OBVIOUS
  <2>3. stream' = stream
    <3>1. Sent(stream, DamagedRecord, result) = stream \o <<>>
      BY <2>1, <2>2, Zenon DEF Sent
    <3> QED
      BY <1>2, <1>3, <3>1
  <2> HIDE DEF T
  <2>4. MarksOn(stream, stream, T)
    BY <1>3, NoMarksOn
  <2> QED
    BY <2>3, <2>4 DEF NewMarks, T
<1> QED
  BY <1>4, <1>5

LEMMA StrayGrows ==
    ASSUME HolderInv, Ordered(parser, stream, issued), StrayRecord \/ StreamEnds
    PROVE  ReadsOn /\ NewMarks
<1>1. CASE StrayRecord
  BY <1>1, StrayIsSilent, SilentGrows
<1>2. CASE StreamEnds
  <2>1. issued \in Nat /\ issued' = issued
    BY <1>2, HolderFacts DEF StreamEnds, regVars
  <2>2. Grows(parser, stream, parser', stream', issued) /\ dropped' = dropped
    BY <1>2, <2>1, SessionEndGrows DEF StreamEnds
  <2>3. ReadsOn
    BY <2>1, <2>2 DEF ReadsOn
  <2> QED
    BY <1>2, <2>3, StreamEndMarks
<1> QED
  BY <1>1, <1>2

-----------------------------------------------------------------------------
(* What leaves the stream: its head, or an event that is dropped. *)

\* s is an activity the parser has seen, and older than every start under way.
Known(p, st, s) == s \in 1..p.sequence /\ \A i, t \in Nat : StartAt(st, i, t) => s < t

\* st1 is what is left of st; place j of it was place e[j].
Left(st1, e, st) ==
    /\ \A j \in 1..Len(st1) : e[j] \in 1..Len(st) /\ st1[j] = st[e[j]]
    /\ \A i, j \in 1..Len(st1) : i < j => e[i] < e[j]

LEMMA LeftIsOrdered ==
    ASSUME NEW n \in Nat, NEW p, NEW st, NEW st1 \in Seq(Messages(n)), NEW e,
           Ordered(p, st, n), Left(st1, e, st)
    PROVE  /\ Ordered(p, st1, n)
           /\ \A s : Known(p, st, s) => Known(p, st1, s)
           /\ Relates(p, st, p, st1)
<1>1. ASSUME NEW j \in Nat, NEW t \in Nat, StartAt(st1, j, t)
      PROVE  j \in 1..Len(st1) /\ e[j] \in Nat /\ StartAt(st, e[j], t) /\ st1[j] = st[e[j]]
  <2>1. j \in 1..Len(st1) /\ e[j] \in 1..Len(st) /\ st1[j] = st[e[j]]
    BY <1>1 DEF StartAt, Left
  <2>2. st \in Seq(Messages(n))
    BY DEF Ordered
  <2> QED
    BY <1>1, <2>1, <2>2 DEF StartAt
<1>2. ASSUME NEW i \in 1..Len(st1)
      PROVE  /\ st1[i].event.sequence <= p.sequence
             /\ st1[i].event.sequence # 0 => st1[i].attachment \in Connections
  BY DEF Left, Ordered
<1>3. ASSUME NEW i \in Nat, NEW t \in Nat, StartAt(st1, i, t)
      PROVE  st1[i].event.parent < t
  BY <1>1, <1>3 DEF Ordered
<1>4. ASSUME NEW i \in Nat, NEW j \in Nat, NEW s \in Nat, NEW t \in Nat,
             i < j, StartAt(st1, i, s), StartAt(st1, j, t)
      PROVE  s < t
  <2>1. e[i] < e[j]
    BY <1>1, <1>4 DEF Left
  <2> QED
    BY <1>1, <1>4, <2>1 DEF Ordered
<1>5. Ordered(p, st1, n)
  BY <1>2, <1>3, <1>4 DEF Ordered
<1>6. ASSUME NEW s, Known(p, st, s)
      PROVE  Known(p, st1, s)
  BY <1>1, <1>6 DEF Known
<1>7. ASSUME NEW j \in Nat, NEW t, FinishAt(st1, j, t)
      PROVE  j \in 1..Len(st1) /\ e[j] \in Nat /\ FinishAt(st, e[j], t)
  <2>1. j \in 1..Len(st1) /\ e[j] \in 1..Len(st) /\ st1[j] = st[e[j]]
    BY <1>7 DEF FinishAt, Left
  <2>2. st \in Seq(Messages(n))
    BY DEF Ordered
  <2> QED
    BY <1>7, <2>1, <2>2 DEF FinishAt
<1>8. ASSUME NEW r, NEW C, Family(p, st, r, C)
      PROVE  Family(p, st1, r, C)
  <2>1. ASSUME NEW i \in Nat, NEW t \in Nat, StartAt(st1, i, t), st1[i].event.parent \in C
        PROVE  t \in C /\ \A j \in Nat : FinishAt(st1, j, r) => i < j
    <3>1. /\ i \in 1..Len(st1) /\ e[i] \in Nat /\ StartAt(st, e[i], t)
          /\ st[e[i]].event.parent \in C
      BY <1>1, <2>1
    <3>2. t \in C /\ \A j \in Nat : FinishAt(st, j, r) => e[i] < j
      BY <1>8, <3>1 DEF Family
    <3>3. ASSUME NEW j \in Nat, FinishAt(st1, j, r)
          PROVE  i < j
      <4>1. j \in 1..Len(st1) /\ e[j] \in Nat /\ e[i] < e[j]
        BY <1>7, <3>2, <3>3
      <4>2. i # j /\ ~ e[j] < e[i]
        BY <3>1, <4>1
      <4>3. ~ j < i
        BY <3>1, <4>1, <4>2 DEF Left
      <4> QED
        BY <4>2, <4>3
    <3> QED
      BY <3>2, <3>3
  <2>2. ASSUME NEW k \in Keys, NEW x \in Nat, NEW t \in Nat, Stacked(p, k, x, t), t \in C
        PROVE  /\ \A j \in Nat : ~ FinishAt(st1, j, r)
               /\ \A l \in Keys : \A y \in Nat : Stacked(p, l, y, r) => l = k /\ y <= x
    <3>1. /\ \A j \in Nat : ~ FinishAt(st, j, r)
          /\ \A l \in Keys : \A y \in Nat : Stacked(p, l, y, r) => l = k /\ y <= x
      BY <1>8, <2>2 DEF Family
    <3> QED
      BY <1>7, <3>1
  <2>3. r \in C /\ C \subseteq 1..p.sequence
    BY <1>8 DEF Family
  <2> QED
    BY <2>1, <2>2, <2>3 DEF Family
<1>9. ASSUME NEW C, Spent(p, st, C)
      PROVE  Spent(p, st1, C)
  <2>1. ASSUME NEW i \in Nat, NEW t \in Nat, StartAt(st1, i, t)
        PROVE  st1[i].event.parent \notin C
    BY <1>1, <1>9, <2>1 DEF Spent
  <2> QED
    BY <1>9, <2>1 DEF Spent
<1>10. \A i, t \in Nat : StartAt(st1, i, t) => \E j \in Nat : StartAt(st, j, t)
  BY <1>1
<1>11. Relates(p, st, p, st1)
  <2>1. \A r, C : Family(p, st, r, C) => \E D : C \subseteq D /\ Family(p, st1, r, D)
    BY <1>8
  <2> QED
    BY <1>9, <1>10, <2>1, RelatesBy
<1> QED
  BY <1>5, <1>6, <1>11

LEMMA HeadLeaves ==
    ASSUME NEW n \in Nat, NEW p, NEW st, Ordered(p, st, n), st # <<>>
    PROVE  /\ Ordered(p, Tail(st), n)
           /\ \A s : Known(p, st, s) => Known(p, Tail(st), s)
           /\ Relates(p, st, p, Tail(st))
           /\ \A s \in Nat : StartAt(st, 1, s) => Known(p, Tail(st), s)
           /\ \A i, t \in Nat : StartAt(Tail(st), i, t) <=> i # 0 /\ StartAt(st, i + 1, t)
           /\ \A i, t \in Nat : FinishAt(Tail(st), i, t) <=> i # 0 /\ FinishAt(st, i + 1, t)
           /\ \A i \in 1..Len(Tail(st)) : Tail(st)[i] = st[i + 1]
           /\ Head(st) = st[1] /\ Head(st) \in Messages(n) /\ 1 \in 1..Len(st)
<1> DEFINE st1 == Tail(st)
           e == [j \in 1..Len(st1) |-> j + 1]
<1>1. st \in Seq(Messages(n))
  BY DEF Ordered
<1>2. /\ st1 \in Seq(Messages(n))
      /\ Len(st) \in Nat \ {0}
      /\ Len(st1) = Len(st) - 1
      /\ \A i \in 1..Len(st1) : st1[i] = st[i + 1]
      /\ Head(st) = st[1] /\ Head(st) \in Messages(n) /\ 1 \in 1..Len(st)
  BY <1>1
<1>3. \A j \in 1..Len(st1) : e[j] = j + 1
  OBVIOUS
<1> HIDE DEF e, st1
<1>4. Left(st1, e, st)
  BY <1>2, <1>3 DEF Left
<1>5. Ordered(p, st1, n) /\ (\A s : Known(p, st, s) => Known(p, st1, s)) /\ Relates(p, st, p, st1)
  BY <1>2, <1>4, LeftIsOrdered
<1>6. ASSUME NEW i \in Nat
      PROVE  /\ i \in 1..Len(st1) <=> i # 0 /\ i + 1 \in 1..Len(st)
             /\ i \in 1..Len(st1) => st1[i] = st[i + 1]
  BY <1>2
<1>7. /\ \A i, t \in Nat : StartAt(st1, i, t) <=> i # 0 /\ StartAt(st, i + 1, t)
      /\ \A i, t \in Nat : FinishAt(st1, i, t) <=> i # 0 /\ FinishAt(st, i + 1, t)
  BY <1>6 DEF StartAt, FinishAt
<1>8. ASSUME NEW s \in Nat, StartAt(st, 1, s)
      PROVE  Known(p, st1, s)
  <2>1. s \in 1..p.sequence
    <3>1. s <= p.sequence /\ s # 0 /\ p.sequence \in Nat
      BY <1>8 DEF StartAt, Ordered, IsParser
    <3> QED
      BY <3>1
  <2>2. ASSUME NEW i \in Nat, NEW t \in Nat, StartAt(st1, i, t)
        PROVE  s < t
    <3>1. StartAt(st, i + 1, t) /\ 1 < i + 1 /\ i + 1 \in Nat
      BY <1>7, <2>2
    <3> QED
      BY <1>8, <3>1 DEF Ordered
  <2> QED
    BY <2>1, <2>2 DEF Known
<1> QED
  BY <1>2, <1>5, <1>7, <1>8 DEF st1

LEMMA RemovedLeft ==
    ASSUME NEW S, NEW st \in Seq(S), NEW i \in 1..Len(st)
    PROVE  RemoveAt(st, i) \in Seq(S) /\ \E e : Left(RemoveAt(st, i), e, st)
<1> DEFINE st1 == RemoveAt(st, i)
           e == [j \in 1..Len(st1) |-> IF j < i THEN j ELSE j + 1]
<1>1. Len(st) \in Nat
  OBVIOUS
<1>2. /\ st1 \in Seq(S)
      /\ Len(st1) = Len(st) - 1
      /\ \A j \in 1..(Len(st) - 1) : st1[j] = IF j < i THEN st[j] ELSE st[j + 1]
  BY RemovedAt
<1>3. \A j \in 1..Len(st1) : e[j] = IF j < i THEN j ELSE j + 1
  OBVIOUS
<1> HIDE DEF e, st1
<1>4. 1..Len(st1) = 1..(Len(st) - 1)
  BY <1>2
<1>5. ASSUME NEW j \in 1..Len(st1)
      PROVE  e[j] \in 1..Len(st) /\ st1[j] = st[e[j]]
  <2>1. st1[j] = IF j < i THEN st[j] ELSE st[j + 1]
    BY <1>2, <1>4
  <2>2. e[j] = IF j < i THEN j ELSE j + 1
    BY <1>3
  <2> QED
    BY <1>1, <1>4, <2>1, <2>2
<1>6. ASSUME NEW j \in 1..Len(st1), NEW l \in 1..Len(st1), j < l
      PROVE  e[j] < e[l]
  BY <1>3, <1>4, <1>6
<1>7. Left(st1, e, st)
  BY <1>5, <1>6 DEF Left
<1> QED
  BY <1>2, <1>7 DEF st1

LEMMA DropLeaves ==
    ASSUME NEW n \in Nat, NEW p, NEW st, Ordered(p, st, n), NEW i \in 1..Len(st)
    PROVE  /\ Ordered(p, RemoveAt(st, i), n)
           /\ \A s : Known(p, st, s) => Known(p, RemoveAt(st, i), s)
           /\ Relates(p, st, p, RemoveAt(st, i))
<1> DEFINE st1 == RemoveAt(st, i)
<1>1. st \in Seq(Messages(n))
  BY DEF Ordered
<1>2. st1 \in Seq(Messages(n)) /\ \E e : Left(st1, e, st)
  BY <1>1, RemovedLeft
<1> HIDE DEF st1
<1>3. Ordered(p, st1, n) /\ (\A s : Known(p, st, s) => Known(p, st1, s)) /\ Relates(p, st, p, st1)
  BY <1>2, LeftIsOrdered
<1> QED
  BY <1>3 DEF st1

LEMMA KnownGrows ==
    ASSUME NEW n \in Nat, NEW p, NEW st, NEW p1, NEW st1, IsParser(p), Grows(p, st, p1, st1, n)
    PROVE  \A s : Known(p, st, s) => Known(p1, st1, s)
<1>1. p.sequence \in Nat /\ p1.sequence \in Nat /\ p.sequence <= p1.sequence
  BY DEF Grows, Ordered, IsParser
<1>2. ASSUME NEW s, Known(p, st, s)
      PROVE  Known(p1, st1, s)
  <2>1. s \in 1..p.sequence /\ s \in 1..p1.sequence
    BY <1>1, <1>2 DEF Known
  <2>2. ASSUME NEW i \in Nat, NEW t \in Nat, StartAt(st1, i, t)
        PROVE  s < t
    <3>1. CASE StartAt(st, i, t)
      BY <1>2, <3>1 DEF Known
    <3>2. CASE p.sequence < t
      BY <1>1, <2>1, <3>2
    <3> QED
      BY <2>2, <3>1, <3>2 DEF Grows
  <2> QED
    BY <2>1, <2>2 DEF Known
<1> QED
  BY <1>2

-----------------------------------------------------------------------------
(* The counts of running activities. *)

RunningIn(by, a) == IF a \in DOMAIN by THEN by[a] ELSE 0

\* CountsAgree, for activities ac and counts by, with what it takes to count.
Counted(ac, by) ==
    /\ IsFiniteSet(DOMAIN ac)
    /\ \A s \in DOMAIN ac : ac[s] \in Connections
    /\ DOMAIN by \subseteq Connections
    /\ \A a \in DOMAIN by : by[a] \in Nat \ {0}
    /\ \A a \in Connections : RunningIn(by, a) = Cardinality({s \in DOMAIN ac : ac[s] = a})

LEMMA NothingCounted == Counted(<<>>, <<>>)
<1>1. DOMAIN <<>> = {} /\ IsFiniteSet({}) /\ Cardinality({}) = 0
  BY FS_EmptySet
<1> QED
  BY <1>1 DEF Counted, RunningIn

LEMMA PutIs ==
    ASSUME NEW f, NEW x, NEW y
    PROVE  /\ DOMAIN Put(f, x, y) = DOMAIN f \cup {x}
           /\ Put(f, x, y)[x] = y
           /\ \A z \in DOMAIN f : z # x => Put(f, x, y)[z] = f[z]
  BY DEF Put

LEMMA ExceptIs ==
    ASSUME NEW f, NEW S
    PROVE  /\ DOMAIN Except(f, S) = DOMAIN f \ S
           /\ \A z \in DOMAIN f \ S : Except(f, S)[z] = f[z]
  BY DEF Except

LEMMA OneMoreCounted ==
    ASSUME NEW ac, NEW by, Counted(ac, by), NEW s, s \notin DOMAIN ac, NEW a \in Connections
    PROVE  Counted(Put(ac, s, a), Put(by, a, RunningIn(by, a) + 1))
<1> DEFINE ac1 == Put(ac, s, a)
           by1 == Put(by, a, RunningIn(by, a) + 1)
           Of(b) == {x \in DOMAIN ac : ac[x] = b}
           Of1(b) == {x \in DOMAIN ac1 : ac1[x] = b}
<1>1. /\ DOMAIN ac1 = DOMAIN ac \cup {s} /\ ac1[s] = a
      /\ \A x \in DOMAIN ac : ac1[x] = ac[x]
      /\ DOMAIN by1 = DOMAIN by \cup {a} /\ by1[a] = RunningIn(by, a) + 1
      /\ \A b \in DOMAIN by : b # a => by1[b] = by[b]
  <2>1. /\ DOMAIN ac1 = DOMAIN ac \cup {s} /\ ac1[s] = a
        /\ \A x \in DOMAIN ac : x # s => ac1[x] = ac[x]
    BY DEF Put
  <2> DEFINE y == RunningIn(by, a) + 1
  <2> HIDE DEF y
  <2>2. /\ DOMAIN Put(by, a, y) = DOMAIN by \cup {a} /\ Put(by, a, y)[a] = y
        /\ \A b \in DOMAIN by : b # a => Put(by, a, y)[b] = by[b]
    BY PutIs
  <2> HIDE DEF ac1
  <2> QED
    BY <2>1, <2>2 DEF y
<1> HIDE DEF ac1, by1
<1>2. \A b : IsFiniteSet(Of(b)) /\ Cardinality(Of(b)) \in Nat
  <2>1. \A b : Of(b) \subseteq DOMAIN ac
    OBVIOUS
  <2>2. IsFiniteSet(DOMAIN ac)
    BY DEF Counted
  <2> HIDE DEF Of
  <2> QED
    BY <2>1, <2>2, FS_Subset, FS_CardinalityType
<1>3. Of1(a) = Of(a) \cup {s} /\ s \notin Of(a) /\ \A b : b # a => Of1(b) = Of(b)
  BY <1>1
<1> HIDE DEF Of, Of1
<1>4. Cardinality(Of1(a)) = Cardinality(Of(a)) + 1
  BY <1>2, <1>3, FS_AddElement
<1>5. \A b \in Connections : RunningIn(by, b) = Cardinality(Of(b))
  BY DEF Counted, Of
<1>6. \A b \in Connections : RunningIn(by1, b) = Cardinality(Of1(b))
  <2>1. RunningIn(by1, a) = RunningIn(by, a) + 1
    BY <1>1 DEF RunningIn
  <2>2. \A b : b # a => RunningIn(by1, b) = RunningIn(by, b)
    BY <1>1 DEF RunningIn
  <2> QED
    BY <1>3, <1>4, <1>5, <2>1, <2>2
<1>7. by1[a] \in Nat \ {0}
  BY <1>1, <1>2, <1>5
<1>8. IsFiniteSet(DOMAIN ac1)
  BY <1>1, FS_AddElement DEF Counted
<1>9. /\ \A x \in DOMAIN ac1 : ac1[x] \in Connections
      /\ DOMAIN by1 \subseteq Connections
      /\ \A b \in DOMAIN by1 : by1[b] \in Nat \ {0}
  BY <1>1, <1>7 DEF Counted
<1> QED
  BY <1>6, <1>8, <1>9 DEF Counted, Of1, ac1, by1

LEMMA OneLessCounted ==
    ASSUME NEW ac, NEW by, Counted(ac, by), NEW s \in DOMAIN ac
    PROVE  Counted(Except(ac, {s}), IF by[ac[s]] = 1 THEN Except(by, {ac[s]})
                                    ELSE [by EXCEPT ![ac[s]] = @ - 1])
<1> DEFINE a == ac[s]
           ac1 == Except(ac, {s})
           by1 == IF by[a] = 1 THEN Except(by, {a}) ELSE [by EXCEPT ![a] = @ - 1]
           Of(b) == {x \in DOMAIN ac : ac[x] = b}
           Of1(b) == {x \in DOMAIN ac1 : ac1[x] = b}
<1>1. /\ DOMAIN ac1 = DOMAIN ac \ {s}
      /\ \A x \in DOMAIN ac1 : ac1[x] = ac[x]
  BY DEF Except
<1>2. a \in Connections
  BY DEF Counted
<1>3. \A b : IsFiniteSet(Of(b)) /\ Cardinality(Of(b)) \in Nat
  <2>1. \A b : Of(b) \subseteq DOMAIN ac
    OBVIOUS
  <2>2. IsFiniteSet(DOMAIN ac)
    BY DEF Counted
  <2> HIDE DEF Of
  <2> QED
    BY <2>1, <2>2, FS_Subset, FS_CardinalityType
<1> HIDE DEF ac1
<1>4. Of1(a) = Of(a) \ {s} /\ s \in Of(a) /\ \A b : b # a => Of1(b) = Of(b)
  BY <1>1
<1>5. \A b \in Connections : RunningIn(by, b) = Cardinality(Of(b))
  BY DEF Counted
<1> HIDE DEF Of, Of1, a
<1>6. Cardinality(Of1(a)) = Cardinality(Of(a)) - 1
  BY <1>3, <1>4, FS_RemoveElement
<1>7. Cardinality(Of(a)) # 0
  BY <1>3, <1>4, FS_EmptySet
<1>8. a \in DOMAIN by /\ by[a] = Cardinality(Of(a)) /\ by[a] \in Nat \ {0}
  BY <1>2, <1>3, <1>5, <1>7 DEF RunningIn
<1>9. /\ DOMAIN by1 = IF by[a] = 1 THEN DOMAIN by \ {a} ELSE DOMAIN by
      /\ by[a] # 1 => by1[a] = by[a] - 1
      /\ \A b \in DOMAIN by : b # a => by1[b] = by[b]
  <2>1. CASE by[a] = 1
    <3>1. by1 = Except(by, {a})
      BY <2>1
    <3> HIDE DEF by1
    <3> QED
      BY <2>1, <3>1 DEF Except
  <2>2. CASE by[a] # 1
    BY <1>8, <2>2
  <2> QED
    BY <2>1, <2>2
<1> HIDE DEF by1
<1>10. \A b \in Connections : RunningIn(by1, b) = Cardinality(Of1(b))
  <2>1. RunningIn(by1, a) = by[a] - 1
    BY <1>8, <1>9 DEF RunningIn
  <2>2. \A b : b # a => RunningIn(by1, b) = RunningIn(by, b)
    BY <1>9 DEF RunningIn
  <2> QED
    BY <1>4, <1>5, <1>6, <1>8, <2>1, <2>2
<1>11. IsFiniteSet(DOMAIN ac1)
  BY <1>1, FS_RemoveElement DEF Counted
<1>12. /\ \A x \in DOMAIN ac1 : ac1[x] \in Connections
       /\ DOMAIN by1 \subseteq Connections
       /\ \A b \in DOMAIN by1 : by1[b] \in Nat \ {0}
  <2>1. by[a] # 1 => by[a] - 1 \in Nat \ {0}
    BY <1>8
  <2> QED
    BY <1>1, <1>8, <1>9, <2>1 DEF Counted
<1> QED
  BY <1>10, <1>11, <1>12 DEF Counted, Of1, ac1, by1, a

LEMMA NoneLeftCounted ==
    ASSUME NEW ac, NEW by, Counted(ac, by), NEW a
    PROVE  Counted(Except(ac, {s \in DOMAIN ac : ac[s] = a}), Except(by, {a}))
<1> DEFINE ac1 == Except(ac, {s \in DOMAIN ac : ac[s] = a})
           by1 == Except(by, {a})
           Of(b) == {x \in DOMAIN ac : ac[x] = b}
           Of1(b) == {x \in DOMAIN ac1 : ac1[x] = b}
<1>1. /\ DOMAIN ac1 = {s \in DOMAIN ac : ac[s] # a}
      /\ \A x \in DOMAIN ac1 : ac1[x] = ac[x]
      /\ DOMAIN by1 = DOMAIN by \ {a}
      /\ \A b \in DOMAIN by1 : by1[b] = by[b]
  BY DEF Except
<1> HIDE DEF ac1, by1
<1>2. Of1(a) = {} /\ \A b : b # a => Of1(b) = Of(b)
  BY <1>1
<1>3. \A b \in Connections : RunningIn(by, b) = Cardinality(Of(b))
  BY DEF Counted
<1> HIDE DEF Of, Of1
<1>4. \A b \in Connections : RunningIn(by1, b) = Cardinality(Of1(b))
  <2>1. RunningIn(by1, a) = 0
    BY <1>1 DEF RunningIn
  <2>2. \A b : b # a => RunningIn(by1, b) = RunningIn(by, b)
    BY <1>1 DEF RunningIn
  <2>3. Cardinality({}) = 0
    BY FS_EmptySet
  <2> QED
    BY <1>2, <1>3, <2>1, <2>2, <2>3
<1>5. IsFiniteSet(DOMAIN ac1)
  BY <1>1, FS_Subset DEF Counted
<1> QED
  BY <1>1, <1>4, <1>5 DEF Counted, Of1, ac1, by1

-----------------------------------------------------------------------------
(* The inductive invariant. *)

Nodes == [sequence : Nat, owner : Owners]

Trees ==
    [token : Nat, attachment : Connections, nodes : Seq(Nodes), finished : SUBSET Nat,
     tainted : BOOLEAN, omitted : BOOLEAN, complete : BOOLEAN]

\* The markers that wait are few, and their tokens were issued.
Waiting(pd, n) ==
    /\ IsFiniteSet(DOMAIN pd)
    /\ Cardinality(DOMAIN pd) <= MaxPending
    /\ \A a \in DOMAIN pd : a \in Connections /\ pd[a] \in 1..n

\* What the consumer follows is old, and not too much of it.
Old(p, st, ac, fs, ts) ==
    /\ IsFiniteSet(DOMAIN fs)
    /\ Cardinality(DOMAIN fs) <= MaxFrames
    /\ \A s \in DOMAIN ac : Known(p, st, s)
    /\ \A s \in DOMAIN fs : Known(p, st, s) /\ Known(p, st, fs[s])
    /\ \A s \in DOMAIN ts : Known(p, st, s)

\* A tree keeps its root as its first node, and few nodes.
IsTree(tree, r) ==
    /\ tree \in Trees
    /\ tree.nodes # <<>>
    /\ tree.nodes[1].sequence = r
    /\ Len(tree.nodes) <= MaxNodes

Rooted(ts) == \A r \in DOMAIN ts : IsTree(ts[r], r)

\* What is followed is no marker, finishes before the root of its tree, and that
\* tree waits for it.
Following(p, st, fs, ts) ==
    \A t \in DOMAIN fs :
        /\ Plain(p, st, t)
        /\ t # fs[t] => EndsFirst(p, st, t, fs[t])
        /\ fs[t] \in DOMAIN ts
        /\ ~ ts[fs[t]].complete

\* t is of the family of r; or what t may still call is under way already.
Kin(p, st, t, r) == \E C : t \in C /\ Family(p, st, r, C)

Childless(p, st, t) == \E C : t \in C /\ Spent(p, st, C)

\* What is followed has its tree as long as it may call something that would join
\* it.
Familiar(p, st, fs, ts) ==
    \A t \in DOMAIN fs :
        \/ /\ Kin(p, st, t, fs[t])
           /\ fs[t] \in DOMAIN ts
           /\ ~ ts[fs[t]].complete
        \/ Childless(p, st, t)

\* The stream the consumer takes its events from, and what it keeps of it.
ConsumerInv ==
    /\ Ordered(parser, stream, issued)
    /\ Related(parser, stream)
    /\ Waiting(pending, issued)
    /\ Old(parser, stream, active, frames, trees)
    /\ Counted(active, activeByAttachment)
    /\ Rooted(trees)
    /\ Familiar(parser, stream, frames, trees)

\* What holds until an event is dropped.
TreeInv ==
    ~ dropped =>
        /\ Nested(parser, stream)
        /\ Following(parser, stream, frames, trees)

-----------------------------------------------------------------------------
(* What events mean to the activities that are followed. *)

LEMMA EndsFirstOfTwo ==
    ASSUME NEW p, NEW st, NEW t, NEW q, NEW r, EndsFirst(p, st, t, q), EndsFirst(p, st, q, r)
    PROVE  EndsFirst(p, st, t, r)
<1>1. ASSUME NEW j \in Nat, FinishAt(st, j, r)
      PROVE  \E i \in Nat : i < j /\ FinishAt(st, i, t)
  <2>1. PICK i \in Nat : i < j /\ FinishAt(st, i, q)
    BY <1>1 DEF EndsFirst
  <2>2. PICK l \in Nat : l < i /\ FinishAt(st, l, t)
    BY <2>1 DEF EndsFirst
  <2>3. l < j
    BY <2>1, <2>2
  <2> QED
    BY <2>2, <2>3
<1>2. ASSUME NEW k \in Keys, NEW x \in Nat, Stacked(p, k, x, r)
      PROVE  \/ \E i \in Nat : FinishAt(st, i, t)
             \/ \E y \in Nat : x < y /\ Stacked(p, k, y, t)
  <2>1. CASE \E i \in Nat : FinishAt(st, i, q)
    BY <2>1 DEF EndsFirst
  <2>2. CASE \E y \in Nat : x < y /\ Stacked(p, k, y, q)
    <3>1. PICK y \in Nat : x < y /\ Stacked(p, k, y, q)
      BY <2>2
    <3>2. CASE \E i \in Nat : FinishAt(st, i, t)
      BY <3>2
    <3>3. CASE \E z \in Nat : y < z /\ Stacked(p, k, z, t)
      <4>1. PICK z \in Nat : y < z /\ Stacked(p, k, z, t)
        BY <3>3
      <4>2. x < z
        BY <3>1, <4>1
      <4> QED
        BY <4>1, <4>2
    <3> QED
      BY <3>1, <3>2, <3>3 DEF EndsFirst
  <2> QED
    BY <1>2, <2>1, <2>2 DEF EndsFirst
<1> QED
  BY <1>1, <1>2 DEF EndsFirst

\* The head of a nested stream leaves.
LEMMA HeadLeavesNested ==
    ASSUME NEW n \in Nat, NEW p, NEW st, Ordered(p, st, n), st # <<>>
    PROVE  /\ \A t \in Nat : Plain(p, st, t) => Plain(p, Tail(st), t)
           /\ \A t, r \in Nat : EndsFirst(p, st, t, r) /\ ~ FinishAt(st, 1, t)
                 => EndsFirst(p, Tail(st), t, r)
           /\ Nested(p, st) => Nested(p, Tail(st))
<1> DEFINE st1 == Tail(st)
<1>1. /\ \A i, t \in Nat : StartAt(st1, i, t) <=> i # 0 /\ StartAt(st, i + 1, t)
      /\ \A i, t \in Nat : FinishAt(st1, i, t) <=> i # 0 /\ FinishAt(st, i + 1, t)
      /\ \A i \in 1..Len(st1) : st1[i] = st[i + 1]
  <2>1. \A i, t \in Nat : StartAt(st1, i, t) <=> i # 0 /\ StartAt(st, i + 1, t)
    BY HeadLeaves
  <2>2. \A i, t \in Nat : FinishAt(st1, i, t) <=> i # 0 /\ FinishAt(st, i + 1, t)
    BY HeadLeaves
  <2>3. \A i \in 1..Len(st1) : st1[i] = st[i + 1]
    BY HeadLeaves
  <2> QED
    BY <2>1, <2>2, <2>3
<1> HIDE DEF st1
<1>2. ASSUME NEW t \in Nat, Plain(p, st, t)
      PROVE  Plain(p, st1, t)
  <2>1. ASSUME NEW j \in Nat, FinishAt(st1, j, t)
        PROVE  st1[j].token = NoToken
    <3>1. j \in 1..Len(st1) /\ j + 1 \in Nat
      BY <2>1 DEF FinishAt
    <3>2. FinishAt(st, j + 1, t) /\ st1[j] = st[j + 1]
      BY <1>1, <2>1, <3>1
    <3> QED
      BY <1>2, <3>1, <3>2 DEF Plain
  <2> QED
    BY <1>2, <2>1 DEF Plain
<1>3. ASSUME NEW t \in Nat, ~ FinishAt(st, 1, t), NEW i \in Nat, FinishAt(st, i, t)
      PROVE  i - 1 \in Nat /\ FinishAt(st1, i - 1, t)
  <2>1. i # 0 /\ i # 1
    BY <1>3 DEF FinishAt
  <2>2. i - 1 \in Nat /\ i - 1 # 0 /\ (i - 1) + 1 = i
    BY <2>1
  <2> QED
    BY <1>1, <1>3, <2>2
<1>4. ASSUME NEW t \in Nat, NEW r \in Nat, EndsFirst(p, st, t, r), ~ FinishAt(st, 1, t)
      PROVE  EndsFirst(p, st1, t, r)
  <2>1. ASSUME NEW j \in Nat, FinishAt(st1, j, r)
        PROVE  \E i \in Nat : i < j /\ FinishAt(st1, i, t)
    <3>1. j + 1 \in Nat /\ FinishAt(st, j + 1, r)
      BY <1>1, <2>1
    <3>2. PICK i \in Nat : i < j + 1 /\ FinishAt(st, i, t)
      BY <1>4, <3>1 DEF EndsFirst
    <3>3. i - 1 \in Nat /\ FinishAt(st1, i - 1, t)
      BY <1>3, <1>4, <3>2
    <3>4. i - 1 < j
      BY <3>2, <3>3
    <3> QED
      BY <3>3, <3>4
  <2>2. ASSUME NEW k \in Keys, NEW x \in Nat, Stacked(p, k, x, r)
        PROVE  \/ \E i \in Nat : FinishAt(st1, i, t)
               \/ \E y \in Nat : x < y /\ Stacked(p, k, y, t)
    <3>1. CASE \E i \in Nat : FinishAt(st, i, t)
      BY <1>3, <1>4, <3>1
    <3>2. CASE \E y \in Nat : x < y /\ Stacked(p, k, y, t)
      BY <3>2
    <3> QED
      BY <1>4, <2>2, <3>1, <3>2 DEF EndsFirst
  <2> QED
    BY <2>1, <2>2 DEF EndsFirst
<1>5. ASSUME Nested(p, st)
      PROVE  Nested(p, st1)
  <2>1. ASSUME NEW k \in Keys, NEW x \in Nat, NEW t \in Nat, NEW i \in Nat,
               Stacked(p, k, x, t), FinishAt(st1, i, t)
        PROVE  FALSE
    <3>1. i + 1 \in Nat /\ FinishAt(st, i + 1, t)
      BY <1>1, <2>1
    <3> QED
      BY <1>5, <2>1, <3>1 DEF Nested
  <2>2. ASSUME NEW i \in Nat, NEW j \in Nat, NEW t \in Nat, StartAt(st1, i, t), FinishAt(st1, j, t)
        PROVE  i < j
    <3>1. /\ i + 1 \in Nat /\ StartAt(st, i + 1, t)
          /\ j + 1 \in Nat /\ FinishAt(st, j + 1, t)
      BY <1>1, <2>2
    <3>2. i + 1 < j + 1
      BY <1>5, <3>1 DEF Nested
    <3> QED
      BY <3>2
  <2>3. ASSUME NEW i \in Nat, NEW t \in Nat, StartAt(st1, i, t)
        PROVE  /\ st1[i].event.parent # 0 => EndsFirst(p, st1, t, st1[i].event.parent)
               /\ st1[i].token = NoToken => Plain(p, st1, t)
    <3>1. /\ i # 0 /\ i + 1 \in Nat /\ StartAt(st, i + 1, t) /\ st1[i] = st[i + 1]
          /\ i + 1 \in 1..Len(st)
      BY <1>1, <2>3 DEF StartAt
    <3>2. ~ FinishAt(st, 1, t)
      <4>1. ASSUME FinishAt(st, 1, t)
            PROVE  FALSE
        <5>1. i + 1 < 1
          BY <1>5, <3>1, <4>1 DEF Nested
        <5> QED
          BY <5>1
      <4> QED
        BY <4>1
    <3>3. st1[i].event.parent \in Nat
      <4>1. st \in Seq(Messages(n))
        BY DEF Ordered
      <4>2. st[i + 1] \in Messages(n)
        BY <3>1, <4>1
      <4> QED
        BY <3>1, <4>2 DEF Messages, Events
    <3>4. /\ st[i + 1].event.parent # 0 => EndsFirst(p, st, t, st[i + 1].event.parent)
          /\ st[i + 1].token = NoToken => Plain(p, st, t)
      BY <1>5, <3>1 DEF Nested
    <3> QED
      BY <1>2, <1>4, <3>1, <3>2, <3>3, <3>4
  <2> QED
    BY <2>1, <2>2, <2>3 DEF Nested
<1> QED
  BY <1>2, <1>4, <1>5 DEF st1

-----------------------------------------------------------------------------
(* What the consumer drops. *)

\* fs1 and ts1 are what is left of the frames fs and the trees ts: a tree that
\* goes takes its frames along, unless it was complete.
Fewer(fs, ts, fs1, ts1) ==
    /\ DOMAIN fs1 \subseteq DOMAIN fs
    /\ \A s \in DOMAIN fs1 : fs1[s] = fs[s]
    /\ DOMAIN ts1 \subseteq DOMAIN ts
    /\ \A t \in DOMAIN ts1 : ts1[t] = ts[t]
    /\ \A s \in DOMAIN fs1 : fs[s] \in DOMAIN ts => fs[s] \in DOMAIN ts1 \/ ts[fs[s]].complete

LEMMA FlushDrops ==
    ASSUME NEW ts, NEW fs, NEW looked, FlushOf(ts, fs, looked)
    PROVE  Fewer(fs, ts, frames', trees')
<1> DEFINE gone == Gone(registrations, ts)
           ready == Ready(registrations, ts)
           left == {s \in DOMAIN fs : \/ fs[s] \in gone
                                      \/ fs[s] \in ready /\ s \in NodeSequences(ts[fs[s]])}
<1>1. trees' = Except(ts, gone \cup ready) /\ frames' = Except(fs, left)
  BY DEF FlushOf
<1>2. \A t \in ready : ts[t].complete
  BY DEF Ready
<1>3. \A s \in DOMAIN fs \ left : fs[s] \notin gone
  OBVIOUS
<1> HIDE DEF gone, ready, left
<1>4. /\ DOMAIN trees' = DOMAIN ts \ (gone \cup ready)
      /\ \A t \in DOMAIN trees' : trees'[t] = ts[t]
  BY <1>1 DEF Except
<1>5. /\ DOMAIN frames' = DOMAIN fs \ left
      /\ \A s \in DOMAIN frames' : frames'[s] = fs[s]
  BY <1>1 DEF Except
<1> QED
  BY <1>2, <1>3, <1>4, <1>5 DEF Fewer

LEMMA DropDrops ==
    ASSUME NEW roots, NEW more, Drop(roots, more)
    PROVE  /\ Fewer(frames, trees, frames', trees')
           /\ DOMAIN trees \subseteq roots => \A s \in DOMAIN frames' : frames[s] \notin DOMAIN trees
<1>1. trees' = Except(trees, roots) /\ frames' = Except(frames, FramesOf(roots))
  BY DEF Drop
<1>2. /\ DOMAIN trees' = DOMAIN trees \ roots
      /\ \A t \in DOMAIN trees' : trees'[t] = trees[t]
  BY <1>1 DEF Except
<1>3. /\ DOMAIN frames' = DOMAIN frames \ FramesOf(roots)
      /\ \A s \in DOMAIN frames' : frames'[s] = frames[s]
  BY <1>1 DEF Except
<1>4. \A s \in DOMAIN frames' : frames[s] \notin roots
  BY <1>3 DEF FramesOf
<1> QED
  BY <1>2, <1>3, <1>4 DEF Fewer

LEMMA NothingDrops == ASSUME NEW fs, NEW ts PROVE Fewer(fs, ts, fs, ts)
  BY DEF Fewer

LEMMA FewerOld ==
    ASSUME NEW p, NEW st, NEW ac, NEW fs, NEW ts, NEW fs1, NEW ts1,
           Old(p, st, ac, fs, ts), Fewer(fs, ts, fs1, ts1)
    PROVE  Old(p, st, ac, fs1, ts1)
<1>1. IsFiniteSet(DOMAIN fs1) /\ Cardinality(DOMAIN fs1) <= MaxFrames
  <2>1. /\ IsFiniteSet(DOMAIN fs) /\ DOMAIN fs1 \subseteq DOMAIN fs
        /\ Cardinality(DOMAIN fs) <= MaxFrames
    BY DEF Old, Fewer
  <2>2. /\ IsFiniteSet(DOMAIN fs1)
        /\ Cardinality(DOMAIN fs1) <= Cardinality(DOMAIN fs)
        /\ Cardinality(DOMAIN fs1) \in Nat /\ Cardinality(DOMAIN fs) \in Nat
    BY <2>1, FS_Subset, FS_CardinalityType
  <2> QED
    BY <2>1, <2>2, MaxFramesAssumption
<1> QED
  BY <1>1 DEF Old, Fewer

LEMMA FewerFamiliar ==
    ASSUME NEW p, NEW st, NEW fs, NEW ts, NEW fs1, NEW ts1,
           Rooted(ts), Familiar(p, st, fs, ts), Fewer(fs, ts, fs1, ts1)
    PROVE  Rooted(ts1) /\ Familiar(p, st, fs1, ts1)
<1>1. Rooted(ts1)
  BY DEF Rooted, Fewer
<1>2. ASSUME NEW t \in DOMAIN fs1, ~ Childless(p, st, t)
      PROVE  Kin(p, st, t, fs1[t]) /\ fs1[t] \in DOMAIN ts1 /\ ~ ts1[fs1[t]].complete
  <2>1. t \in DOMAIN fs /\ fs1[t] = fs[t]
    BY DEF Fewer
  <2>2. Kin(p, st, t, fs[t]) /\ fs[t] \in DOMAIN ts /\ ~ ts[fs[t]].complete
    BY <1>2, <2>1 DEF Familiar
  <2>3. fs[t] \in DOMAIN ts1 /\ ts1[fs[t]] = ts[fs[t]]
    BY <2>1, <2>2 DEF Fewer
  <2> QED
    BY <2>1, <2>2, <2>3
<1> QED
  BY <1>1, <1>2 DEF Familiar

\* The stream moves on.
LEMMA KinMoves ==
    ASSUME NEW p, NEW st, NEW q, NEW st1, Relates(p, st, q, st1)
    PROVE  /\ \A t, r : Kin(p, st, t, r) => Kin(q, st1, t, r)
           /\ \A t : Childless(p, st, t) => Childless(q, st1, t)
<1>1. ASSUME NEW t, NEW r, Kin(p, st, t, r)
      PROVE  Kin(q, st1, t, r)
  <2>1. PICK C : t \in C /\ Family(p, st, r, C)
    BY <1>1 DEF Kin
  <2>2. PICK D : C \subseteq D /\ Family(q, st1, r, D)
    BY <2>1 DEF Relates
  <2> QED
    BY <2>1, <2>2 DEF Kin
<1>2. ASSUME NEW t, Childless(p, st, t)
      PROVE  Childless(q, st1, t)
  BY <1>2 DEF Childless, Relates
<1> QED
  BY <1>1, <1>2

LEMMA FamiliarMoves ==
    ASSUME NEW p, NEW st, NEW q, NEW st1, Relates(p, st, q, st1), NEW fs, NEW ts,
           Familiar(p, st, fs, ts)
    PROVE  Familiar(q, st1, fs, ts)
  BY KinMoves DEF Familiar

LEMMA FewerFollowing ==
    ASSUME NEW p, NEW st, NEW fs, NEW ts, NEW fs1, NEW ts1,
           Following(p, st, fs, ts), Fewer(fs, ts, fs1, ts1)
    PROVE  Following(p, st, fs1, ts1)
<1>1. ASSUME NEW t \in DOMAIN fs1
      PROVE  /\ Plain(p, st, t)
             /\ t # fs1[t] => EndsFirst(p, st, t, fs1[t])
             /\ fs1[t] \in DOMAIN ts1
             /\ ~ ts1[fs1[t]].complete
  <2>1. t \in DOMAIN fs /\ fs1[t] = fs[t]
    BY DEF Fewer
  <2>2. /\ Plain(p, st, t)
        /\ t # fs[t] => EndsFirst(p, st, t, fs[t])
        /\ fs[t] \in DOMAIN ts
        /\ ~ ts[fs[t]].complete
    BY <2>1 DEF Following
  <2>3. fs[t] \in DOMAIN ts1 /\ ts1[fs[t]] = ts[fs[t]]
    BY <2>1, <2>2 DEF Fewer
  <2> QED
    BY <2>1, <2>2, <2>3
<1> QED
  BY <1>1 DEF Following

-----------------------------------------------------------------------------
(* One event. *)

LEMMA ConsumerFacts ==
    ASSUME HolderInv
    PROVE  issued \in Nat /\ NoToken \notin Nat
  BY HolderFacts

LEMMA HeadIs ==
    ASSUME HolderInv, ConsumerInv, stream # <<>>
    PROVE  LET m == Head(stream) IN
           /\ m \in Messages(issued)
           /\ m.event.sequence \in Nat /\ m.event.parent \in Nat
           /\ m.event.incomplete \in BOOLEAN
           /\ m.owner \in Owners
           /\ m.attachment \in Connections \cup {0}
           /\ m.event.sequence # 0 => m.attachment \in Connections
           /\ m.token # NoToken => m.token \in 1..issued
           /\ m.event.sequence <= parser.sequence
           /\ \A t : FinishAt(stream, 1, t)
                 <=> m.event.phase = "finish" /\ m.event.sequence = t /\ t # 0
           /\ \A t : StartAt(stream, 1, t)
                 <=> m.event.phase = "start" /\ m.event.sequence = t /\ t # 0
           /\ \A t \in Nat : StartAt(stream, 1, t) => m.event.parent < t
<1> DEFINE m == Head(stream)
<1>1. issued \in Nat /\ Ordered(parser, stream, issued)
  BY ConsumerFacts DEF ConsumerInv
<1>2. m = stream[1] /\ m \in Messages(issued) /\ 1 \in 1..Len(stream)
  BY <1>1, HeadLeaves
<1> HIDE DEF m
<1>3. /\ m.event.sequence \in Nat /\ m.event.parent \in Nat
      /\ m.event.incomplete \in BOOLEAN
      /\ m.owner \in Owners
      /\ m.attachment \in Connections \cup {0}
      /\ m.token \in Tokenish(issued)
  BY <1>2 DEF Messages, Events
<1>4. m.token # NoToken => m.token \in 1..issued
  BY <1>1, <1>3 DEF Tokenish
<1>5. /\ \A t : FinishAt(stream, 1, t) <=> m.event.phase = "finish" /\ m.event.sequence = t /\ t # 0
      /\ \A t : StartAt(stream, 1, t) <=> m.event.phase = "start" /\ m.event.sequence = t /\ t # 0
  BY <1>2 DEF FinishAt, StartAt
<1>6. /\ m.event.sequence # 0 => m.attachment \in Connections
      /\ m.event.sequence <= parser.sequence
  BY <1>1, <1>2 DEF Ordered
<1>7. \A t \in Nat : StartAt(stream, 1, t) => m.event.parent < t
  <2>1. 1 \in Nat
    OBVIOUS
  <2> QED
    BY <1>1, <1>2, <2>1 DEF Ordered
<1> QED
  BY <1>2, <1>3, <1>4, <1>5, <1>6, <1>7 DEF m

\* What taking an event from the stream means to everything that is followed.
LEMMA ReceivedIs ==
    ASSUME HolderInv, ConsumerInv, Receive
    PROVE  /\ stream # <<>> /\ parser' = parser /\ issued' = issued /\ dropped' = dropped
           /\ Ordered(parser, stream', issued)
           /\ \A s : Known(parser, stream, s) => Known(parser, stream', s)
           /\ \A s \in Nat : StartAt(stream, 1, s) => Known(parser, stream', s)
           /\ Relates(parser, stream, parser, stream')
           /\ \A t \in Nat : Plain(parser, stream, t) => Plain(parser, stream', t)
           /\ \A t, r \in Nat : EndsFirst(parser, stream, t, r) /\ ~ FinishAt(stream, 1, t)
                 => EndsFirst(parser, stream', t, r)
           /\ Nested(parser, stream) => Nested(parser, stream')
<1>1. /\ stream # <<>> /\ stream' = Tail(stream)
      /\ parser' = parser /\ issued' = issued /\ dropped' = dropped
  BY DEF Receive, regFlags
<1>2. issued \in Nat /\ Ordered(parser, stream, issued)
  BY ConsumerFacts DEF ConsumerInv
<1>3. Ordered(parser, Tail(stream), issued)
  BY <1>1, <1>2, HeadLeaves
<1>4. \A s : Known(parser, stream, s) => Known(parser, Tail(stream), s)
  BY <1>1, <1>2, HeadLeaves
<1>5. \A s \in Nat : StartAt(stream, 1, s) => Known(parser, Tail(stream), s)
  BY <1>1, <1>2, HeadLeaves
<1>6. \A t \in Nat : Plain(parser, stream, t) => Plain(parser, Tail(stream), t)
  BY <1>1, <1>2, HeadLeavesNested
<1>7. \A t, r \in Nat : EndsFirst(parser, stream, t, r) /\ ~ FinishAt(stream, 1, t)
         => EndsFirst(parser, Tail(stream), t, r)
  BY <1>1, <1>2, HeadLeavesNested
<1>8. Nested(parser, stream) => Nested(parser, Tail(stream))
  BY <1>1, <1>2, HeadLeavesNested
<1>9. Relates(parser, stream, parser, Tail(stream))
  BY <1>1, <1>2, HeadLeaves
<1> QED
  BY <1>1, <1>3, <1>4, <1>5, <1>6, <1>7, <1>8, <1>9

\* The consumer might have the frames fs and the trees ts.
Sound(fs, ts) ==
    /\ Old(parser, stream, active, fs, ts)
    /\ Rooted(ts)
    /\ Familiar(parser, stream, fs, ts)
    /\ ~ dropped => Following(parser, stream, fs, ts)

\* The frames fs and trees ts when the event has arrived are sound, and of these
\* the consumer keeps some.
LEMMA EventKeeps ==
    ASSUME HolderInv, ConsumerInv, TreeInv, Receive, NEW fs, NEW ts, Sound(fs, ts),
           Fewer(fs, ts, frames', trees'),
           ~ dropped => \A t \in DOMAIN frames' : ~ FinishAt(stream, 1, t),
           \A s \in DOMAIN active' : s \in DOMAIN active \/ StartAt(stream, 1, s),
           Waiting(pending', issued), Counted(active', activeByAttachment')
    PROVE  (ConsumerInv /\ TreeInv)'
<1>1. stream # <<>> /\ parser' = parser /\ issued' = issued /\ dropped' = dropped
  BY ReceivedIs
<1>2. /\ Ordered(parser, stream', issued)
      /\ \A s : Known(parser, stream, s) => Known(parser, stream', s)
      /\ \A s \in Nat : StartAt(stream, 1, s) => Known(parser, stream', s)
  BY ReceivedIs
<1>3. Old(parser, stream, active, frames', trees')
  BY FewerOld DEF Sound
<1>4. ASSUME NEW s \in DOMAIN active'
      PROVE  Known(parser, stream', s)
  <2>1. CASE s \in DOMAIN active
    BY <1>2, <1>3, <2>1 DEF Old
  <2>2. CASE StartAt(stream, 1, s)
    <3>1. s \in Nat
      BY <1>1, <2>2, HeadIs
    <3> QED
      BY <1>2, <2>2, <3>1
  <2> QED
    BY <2>1, <2>2
<1>5. Old(parser, stream', active', frames', trees')
  BY <1>2, <1>3, <1>4 DEF Old
<1>6. Relates(parser, stream, parser, stream')
  BY ReceivedIs
<1>7. Rooted(trees') /\ Familiar(parser, stream, frames', trees')
  BY FewerFamiliar DEF Sound
<1>8. Familiar(parser, stream', frames', trees')
  BY <1>6, <1>7, FamiliarMoves
<1>9. Related(parser, stream')
  BY <1>6 DEF ConsumerInv, Relates
<1>10. ConsumerInv'
  BY <1>1, <1>2, <1>5, <1>7, <1>8, <1>9 DEF ConsumerInv
<1>11. ASSUME ~ dropped
      PROVE  /\ Nested(parser, stream')
             /\ Following(parser, stream', frames', trees')
  <2>1. /\ \A t \in Nat : Plain(parser, stream, t) => Plain(parser, stream', t)
        /\ \A t, r \in Nat : EndsFirst(parser, stream, t, r) /\ ~ FinishAt(stream, 1, t)
              => EndsFirst(parser, stream', t, r)
        /\ Nested(parser, stream')
    <3>1. Nested(parser, stream)
      BY <1>11 DEF TreeInv
    <3> QED
      BY <3>1, ReceivedIs
  <2>2. Following(parser, stream, frames', trees')
    BY <1>11, FewerFollowing DEF Sound
  <2>3. ASSUME NEW t \in DOMAIN frames'
        PROVE  t \in Nat /\ frames'[t] \in Nat /\ ~ FinishAt(stream, 1, t)
    BY <1>3, <1>11 DEF Old, Known
  <2> QED
    BY <2>1, <2>2, <2>3 DEF Following
<1> QED
  BY <1>1, <1>10, <1>11 DEF TreeInv

-----------------------------------------------------------------------------
(* The markers that wait. *)

LEMMA NobodyWaits == ASSUME NEW n PROVE Waiting(<<>>, n)
<1>1. DOMAIN <<>> = {} /\ IsFiniteSet({}) /\ Cardinality({}) = 0
  BY FS_EmptySet
<1>2. 0 <= MaxPending
  BY MaxPendingAssumption
<1> QED
  BY <1>1, <1>2 DEF Waiting

LEMMA FewerWait ==
    ASSUME NEW pd, NEW n, Waiting(pd, n), NEW S
    PROVE  Waiting(Except(pd, S), n)
<1>1. /\ DOMAIN Except(pd, S) = DOMAIN pd \ S
      /\ \A a \in DOMAIN pd \ S : Except(pd, S)[a] = pd[a]
  BY ExceptIs
<1>2. IsFiniteSet(DOMAIN pd) /\ DOMAIN pd \ S \subseteq DOMAIN pd /\ Cardinality(DOMAIN pd) <= MaxPending
  BY DEF Waiting
<1>3. /\ IsFiniteSet(DOMAIN pd \ S)
      /\ Cardinality(DOMAIN pd \ S) <= Cardinality(DOMAIN pd)
      /\ Cardinality(DOMAIN pd \ S) \in Nat /\ Cardinality(DOMAIN pd) \in Nat
  BY <1>2, FS_Subset, FS_CardinalityType
<1>4. Cardinality(DOMAIN pd \ S) <= MaxPending
  BY <1>2, <1>3, MaxPendingAssumption
<1> QED
  BY <1>1, <1>3, <1>4 DEF Waiting

LEMMA OneMoreWaits ==
    ASSUME NEW pd, NEW n, Waiting(pd, n), Cardinality(DOMAIN pd) < MaxPending,
           NEW a \in Connections, NEW t \in 1..n
    PROVE  Waiting(Put(pd, a, t), n)
<1>1. /\ DOMAIN Put(pd, a, t) = DOMAIN pd \cup {a} /\ Put(pd, a, t)[a] = t
      /\ \A b \in DOMAIN pd : b # a => Put(pd, a, t)[b] = pd[b]
  BY DEF Put
<1>2. IsFiniteSet(DOMAIN pd)
  BY DEF Waiting
<1>3. /\ IsFiniteSet(DOMAIN pd \cup {a})
      /\ Cardinality(DOMAIN pd \cup {a}) \in {Cardinality(DOMAIN pd), Cardinality(DOMAIN pd) + 1}
      /\ Cardinality(DOMAIN pd) \in Nat
  BY <1>2, FS_AddElement, FS_CardinalityType
<1>4. Cardinality(DOMAIN pd \cup {a}) <= MaxPending
  BY <1>3, MaxPendingAssumption
<1> QED
  BY <1>1, <1>3, <1>4 DEF Waiting

-----------------------------------------------------------------------------
(* Events that are no activity, and those that begin or end none the consumer *)
(* follows.                                                                   *)

\* What EventKeeps needs of events that leave the frames and trees alone or drop
\* some.
LEMMA EventLeaves ==
    ASSUME HolderInv, ConsumerInv, TreeInv, Receive,
           Fewer(frames, trees, frames', trees'),
           ~ dropped => \A t \in DOMAIN frames' : ~ FinishAt(stream, 1, t),
           \A s \in DOMAIN active' : s \in DOMAIN active \/ StartAt(stream, 1, s),
           Waiting(pending', issued), Counted(active', activeByAttachment')
    PROVE  (ConsumerInv /\ TreeInv)'
<1>1. Sound(frames, trees)
  BY DEF Sound, ConsumerInv, TreeInv
<1> QED
  BY <1>1, EventKeeps

LEMMA GapKeeps ==
    ASSUME HolderInv, ConsumerInv, TreeInv, NEW m, GapReceived(m)
    PROVE  (ConsumerInv /\ TreeInv)'
<1>1. /\ Receive /\ Drop(DOMAIN trees, {pending[a] : a \in DOMAIN pending})
      /\ pending' = <<>> /\ active' = <<>> /\ activeByAttachment' = <<>>
  BY DEF GapReceived, Invalidate
<1> DEFINE roots == DOMAIN trees
           more == {pending[a] : a \in DOMAIN pending}
<1>2. Drop(roots, more)
  BY <1>1
<1>3. roots = DOMAIN trees
  OBVIOUS
<1> HIDE DEF roots, more
<1>4. /\ Fewer(frames, trees, frames', trees')
      /\ \A s \in DOMAIN frames' : frames[s] \notin DOMAIN trees
  BY <1>2, <1>3, DropDrops
<1>5. ~ dropped => \A t \in DOMAIN frames' : ~ FinishAt(stream, 1, t)
  BY <1>4 DEF TreeInv, Following, Fewer
<1>6. Waiting(pending', issued)
  BY <1>1, NobodyWaits
<1>7. Counted(active', activeByAttachment')
  BY <1>1, NothingCounted, Zenon
<1>8. \A s \in DOMAIN active' : FALSE
  BY <1>1
<1> QED
  BY <1>1, <1>4, <1>5, <1>6, <1>7, <1>8, EventLeaves

\* The head of the stream does not end an activity.
EndsNothing == \A t : ~ FinishAt(stream, 1, t)

LEMMA AttachmentKeeps ==
    ASSUME HolderInv, ConsumerInv, TreeInv, Receive, EndsNothing, NEW a, NEW more,
           InvalidateAttachment(a, more)
    PROVE  (ConsumerInv /\ TreeInv)'
<1>1. \E roots, gone : Drop(roots, gone)
  <2>1. CASE a = 0
    BY <2>1 DEF InvalidateAttachment
  <2>2. CASE a # 0
    BY <2>2 DEF InvalidateAttachment
  <2> QED
    BY <2>1, <2>2
<1>2. Fewer(frames, trees, frames', trees')
  BY <1>1, DropDrops
<1>3. /\ Waiting(pending, issued) /\ Counted(active, activeByAttachment)
  BY DEF ConsumerInv
<1>4. CASE a = 0
  <2>1. pending' = <<>> /\ active' = <<>> /\ activeByAttachment' = <<>>
    BY <1>4 DEF InvalidateAttachment
  <2>2. Waiting(pending', issued)
    BY <2>1, NobodyWaits
  <2>3. Counted(active', activeByAttachment')
    BY <2>1, NothingCounted, Zenon
  <2>4. \A s \in DOMAIN active' : FALSE
    BY <2>1
  <2> QED
    BY <1>2, <2>2, <2>3, <2>4, EventLeaves DEF EndsNothing
<1>5. CASE a # 0
  <2>1. /\ pending' = Except(pending, {a})
        /\ active' = Except(active, {s \in DOMAIN active : active[s] = a})
        /\ activeByAttachment' = Except(activeByAttachment, {a})
    BY <1>5 DEF InvalidateAttachment
  <2>2. Waiting(pending', issued)
    BY <1>3, <2>1, FewerWait
  <2>3. Counted(active', activeByAttachment')
    <3>1. Counted(Except(active, {s \in DOMAIN active : active[s] = a}),
                  Except(activeByAttachment, {a}))
      BY <1>3, NoneLeftCounted
    <3> QED
      BY <2>1, <3>1, Zenon
  <2>4. \A s \in DOMAIN active' : s \in DOMAIN active
    BY <2>1 DEF Except
  <2> QED
    BY <1>2, <2>2, <2>3, <2>4, EventLeaves DEF EndsNothing
<1> QED
  BY <1>4, <1>5

LEMMA InvalidKeeps ==
    ASSUME HolderInv, ConsumerInv, TreeInv, stream # <<>>,
           MarkerUnmatched(Head(stream)) \/ Unidentified(Head(stream))
    PROVE  (ConsumerInv /\ TreeInv)'
<1>1. Receive /\ Head(stream).event.sequence = 0
  BY DEF MarkerUnmatched, Unidentified
<1>2. EndsNothing
  BY <1>1, HeadIs DEF EndsNothing
<1>3. \E more : InvalidateAttachment(Head(stream).attachment, more)
  BY DEF MarkerUnmatched, Unidentified
<1> QED
  BY <1>1, <1>2, <1>3, AttachmentKeeps

LEMMA MarkerStartedKeeps ==
    ASSUME HolderInv, ConsumerInv, TreeInv, stream # <<>>, MarkerStarted(Head(stream))
    PROVE  (ConsumerInv /\ TreeInv)'
<1>1. /\ Receive /\ Head(stream).event.phase = "start"
      /\ frames' = frames /\ trees' = trees /\ active' = active /\ pending' = pending
      /\ activeByAttachment' = activeByAttachment
  BY DEF MarkerStarted, consumerVars
<1>2. \A t : ~ FinishAt(stream, 1, t)
  BY <1>1, HeadIs
<1>3. Fewer(frames, trees, frames', trees')
  BY <1>1, NothingDrops
<1>4. Waiting(pending', issued) /\ Counted(active', activeByAttachment')
  BY <1>1 DEF ConsumerInv
<1> QED
  BY <1>1, <1>2, <1>3, <1>4, EventLeaves

\* The finish of a marker is not that of an activity the consumer follows.
LEMMA MarkerFinishedKeeps ==
    ASSUME HolderInv, ConsumerInv, TreeInv, stream # <<>>, MarkerFinished(Head(stream))
    PROVE  (ConsumerInv /\ TreeInv)'
<1> DEFINE m == Head(stream)
           others == Except(pending, {m.attachment})
<1>1. /\ Receive /\ m.token # NoToken /\ m.event.sequence # 0
      /\ frames' = frames /\ trees' = trees /\ active' = active
      /\ activeByAttachment' = activeByAttachment
  BY DEF MarkerFinished
<1>2. \/ pending' = others
      \/ pending' = Put(others, m.attachment, m.token) /\ Cardinality(DOMAIN others) < MaxPending
  BY DEF MarkerFinished
<1>3. m.token \in 1..issued /\ m.attachment \in Connections
  BY <1>1, HeadIs
<1>4. Waiting(others, issued)
  BY FewerWait DEF ConsumerInv
<1>5. m = stream[1] /\ issued \in Nat /\ Ordered(parser, stream, issued)
  BY HeadLeaves, ConsumerFacts DEF ConsumerInv
<1> HIDE DEF others, m
<1>6. Waiting(pending', issued)
  BY <1>2, <1>3, <1>4, OneMoreWaits
<1>7. ~ dropped => \A t \in DOMAIN frames' : ~ FinishAt(stream, 1, t)
  <2>1. ASSUME ~ dropped, NEW t \in DOMAIN frames
        PROVE  ~ FinishAt(stream, 1, t)
    <3>1. Plain(parser, stream, t)
      BY <2>1 DEF TreeInv, Following
    <3>2. 1 \in Nat
      OBVIOUS
    <3> QED
      BY <1>1, <1>5, <3>1, <3>2 DEF Plain
  <2> QED
    BY <1>1, <2>1
<1>8. Fewer(frames, trees, frames', trees')
  BY <1>1, NothingDrops
<1>9. Counted(active', activeByAttachment')
  BY <1>1 DEF ConsumerInv
<1> QED
  BY <1>1, <1>6, <1>7, <1>8, <1>9, EventLeaves

-----------------------------------------------------------------------------
(* A start. *)

LEMMA StartIs ==
    ASSUME HolderInv, ConsumerInv, stream # <<>>, Started(Head(stream))
    PROVE  LET m == Head(stream)
               s == m.event.sequence IN
           /\ Receive
           /\ s \in Nat /\ s # 0
           /\ StartAt(stream, 1, s) /\ \A t : ~ FinishAt(stream, 1, t)
           /\ m.token = NoToken
           /\ m.event.parent \in Nat /\ m.event.parent < s
           /\ m.attachment \in Connections
           /\ m.event.incomplete \in BOOLEAN /\ m.owner \in Owners
           /\ \A x : Known(parser, stream, x) => x # s
           /\ DOMAIN active' = DOMAIN active \cup {s}
           /\ Waiting(pending', issued)
           /\ Counted(active', activeByAttachment')
<1> DEFINE m == Head(stream)
           s == m.event.sequence
           a == m.attachment
<1>1. Receive /\ m.token = NoToken /\ m.event.phase = "start" /\ s # 0
  BY DEF Started
<1>2. /\ s \in Nat /\ m.event.parent \in Nat
      /\ m.event.incomplete \in BOOLEAN /\ m.owner \in Owners
      /\ a \in Connections
      /\ \A t : FinishAt(stream, 1, t) <=> m.event.phase = "finish" /\ s = t /\ t # 0
      /\ StartAt(stream, 1, s)
      /\ m.event.parent < s
  BY <1>1, HeadIs
<1>3. ASSUME NEW x, Known(parser, stream, x)
      PROVE  x # s
  <2>1. 1 \in Nat
    OBVIOUS
  <2>2. x < s
    BY <1>2, <1>3, <2>1 DEF Known
  <2>3. x \in Nat
    BY <1>3 DEF Known
  <2> QED
    BY <1>2, <2>2, <2>3
<1>4. /\ active' = Put(active, s, a)
      /\ activeByAttachment' = Put(activeByAttachment, a, RunningIn(activeByAttachment, a) + 1)
      /\ pending' = pending \/ pending' = Except(pending, {a})
  BY DEF Started, Running, RunningIn
<1> HIDE DEF m, s, a
<1>5. Waiting(pending', issued)
  <2>1. Waiting(pending, issued)
    BY DEF ConsumerInv
  <2> QED
    BY <1>4, <2>1, FewerWait
<1>6. s \notin DOMAIN active /\ Counted(active, activeByAttachment)
  BY <1>3 DEF ConsumerInv, Old
<1>7. Counted(active', activeByAttachment')
  <2>1. Counted(Put(active, s, a), Put(activeByAttachment, a, RunningIn(activeByAttachment, a) + 1))
    BY <1>2, <1>6, OneMoreCounted
  <2> QED
    BY <1>4, <2>1, Zenon
<1>8. DOMAIN active' = DOMAIN active \cup {s}
  BY <1>4 DEF Put
<1>9. \A t : ~ FinishAt(stream, 1, t)
  BY <1>1, <1>2
<1> QED
  BY <1>1, <1>2, <1>3, <1>5, <1>7, <1>8, <1>9 DEF m, s, a

LEMMA StartLeaves ==
    ASSUME HolderInv, ConsumerInv, TreeInv, stream # <<>>,
           StartOutsideTrees(Head(stream)) \/ StartDropsTree(Head(stream))
    PROVE  (ConsumerInv /\ TreeInv)'
<1> DEFINE s == Head(stream).event.sequence
<1>1. Started(Head(stream))
  BY DEF StartOutsideTrees, StartDropsTree
<1>2. /\ Receive
      /\ StartAt(stream, 1, s)
      /\ \A t : ~ FinishAt(stream, 1, t)
      /\ DOMAIN active' = DOMAIN active \cup {s}
      /\ Waiting(pending', issued)
      /\ Counted(active', activeByAttachment')
  BY <1>1, StartIs
<1>3. Fewer(frames, trees, frames', trees')
  <2>1. CASE StartOutsideTrees(Head(stream))
    <3>1. frames' = frames /\ trees' = trees
      BY <2>1 DEF StartOutsideTrees
    <3> QED
      BY <3>1, NothingDrops
  <2>2. CASE StartDropsTree(Head(stream))
    <3>1. \E roots, more : Drop(roots, more)
      BY <2>2 DEF StartDropsTree
    <3> QED
      BY <3>1, DropDrops
  <2> QED
    BY <2>1, <2>2
<1> HIDE DEF s
<1> QED
  BY <1>2, <1>3, EventLeaves

-----------------------------------------------------------------------------
(* A node joins a tree. *)

\* A tree after a node was added, or left out for MaxNodes.
Grown(tree, node, b) ==
    IF Room(tree) THEN [tree EXCEPT !.nodes = Append(@, node), !.tainted = @ \/ b]
    ELSE [tree EXCEPT !.omitted = TRUE]

LEMMA GrownIs ==
    ASSUME NEW tree \in Trees, NEW node \in Nodes, NEW b \in BOOLEAN
    PROVE  /\ Grown(tree, node, b) \in Trees
           /\ Grown(tree, node, b).complete = tree.complete
           /\ Grown(tree, node, b).nodes = IF Room(tree) THEN Append(tree.nodes, node) ELSE tree.nodes
<1>1. tree.nodes \in Seq(Nodes) /\ tree.tainted \in BOOLEAN
  BY DEF Trees
<1>2. CASE Room(tree)
  <2> DEFINE ns == Append(tree.nodes, node)
             c == tree.tainted \/ b
             g == [tree EXCEPT !.nodes = ns, !.tainted = c]
  <2>1. Grown(tree, node, b) = g
    BY <1>2 DEF Grown
  <2>2. ns \in Seq(Nodes) /\ c \in BOOLEAN
    BY <1>1
  <2> HIDE DEF ns, c
  <2>3. g \in Trees /\ g.complete = tree.complete /\ g.nodes = ns
    BY <2>2 DEF Trees
  <2> QED
    BY <1>2, <2>1, <2>3, Zenon DEF ns
<1>3. CASE ~ Room(tree)
  <2> DEFINE g == [tree EXCEPT !.omitted = TRUE]
  <2>1. Grown(tree, node, b) = g
    BY <1>3 DEF Grown
  <2>2. g \in Trees /\ g.complete = tree.complete /\ g.nodes = tree.nodes
    BY DEF Trees
  <2> HIDE DEF g
  <2> QED
    BY <1>3, <2>1, <2>2
<1> QED
  BY <1>2, <1>3

\* A tree that has its root, or that the root joins, stays a tree.
LEMMA GrownIsTree ==
    ASSUME NEW tree \in Trees, NEW r, Len(tree.nodes) <= MaxNodes,
           NEW node \in Nodes, NEW b \in BOOLEAN,
           \/ tree.nodes = <<>> /\ node.sequence = r
           \/ tree.nodes # <<>> /\ tree.nodes[1].sequence = r
    PROVE  IsTree(Grown(tree, node, b), r) /\ Grown(tree, node, b).complete = tree.complete
<1> DEFINE g == Grown(tree, node, b)
           ns == tree.nodes
<1>1. /\ g \in Trees /\ g.complete = tree.complete
      /\ g.nodes = IF Room(tree) THEN Append(ns, node) ELSE ns
  BY GrownIs
<1>2. ns \in Seq(Nodes) /\ Len(ns) \in Nat /\ MaxNodes \in Nat \ {0} /\ Len(ns) <= MaxNodes
  BY MaxNodesAssumption DEF Trees
<1>3. Room(tree) <=> Len(ns) < MaxNodes
  BY DEF Room
<1>4. \/ ns = <<>> /\ node.sequence = r
      \/ ns # <<>> /\ ns[1].sequence = r
  BY Zenon
<1> HIDE DEF g, ns
<1>5. CASE Room(tree)
  <2>1. g.nodes = Append(ns, node)
    BY <1>1, <1>5
  <2>2. /\ Append(ns, node) # <<>> /\ Len(Append(ns, node)) = Len(ns) + 1
        /\ Append(ns, node)[Len(ns) + 1] = node
        /\ \A i \in 1..Len(ns) : Append(ns, node)[i] = ns[i]
    BY <1>2, AppendProperties
  <2>3. g.nodes[1].sequence = r
    <3>1. CASE ns = <<>>
      <4>1. Len(ns) = 0
        BY <3>1
      <4>2. Append(ns, node)[1] = node
        BY <2>2, <4>1
      <4> QED
        BY <1>4, <2>1, <3>1, <4>2
    <3>2. CASE ns # <<>>
      <4>1. 1 \in 1..Len(ns)
        BY <1>2, <3>2
      <4>2. Append(ns, node)[1] = ns[1]
        BY <2>2, <4>1
      <4> QED
        BY <1>4, <2>1, <3>2, <4>2
    <3> QED
      BY <3>1, <3>2
  <2>4. g.nodes # <<>> /\ Len(g.nodes) <= MaxNodes
    BY <1>2, <1>3, <1>5, <2>1, <2>2
  <2> QED
    BY <1>1, <2>3, <2>4 DEF IsTree, g
<1>6. CASE ~ Room(tree)
  <2>1. g.nodes = ns
    BY <1>1, <1>6
  <2>2. ns # <<>>
    <3>1. Len(<<>>) = 0
      OBVIOUS
    <3> QED
      BY <1>2, <1>3, <1>6, <3>1
  <2> QED
    BY <1>1, <1>2, <1>4, <2>1, <2>2 DEF IsTree, g
<1> QED
  BY <1>5, <1>6

\* A tree after one of its nodes has ended.
WithFinish(tree, s, b) == [tree EXCEPT !.finished = @ \cup {s}, !.tainted = @ \/ b]

\* A tree after one of its nodes has ended, or its root.
LEMMA EndedIsTree ==
    ASSUME NEW tree, NEW r, IsTree(tree, r), NEW s \in Nat, NEW b \in BOOLEAN
    PROVE  /\ IsTree(WithFinish(tree, s, b), r)
           /\ WithFinish(tree, s, b).complete = tree.complete
           /\ IsTree([tree EXCEPT !.finished = @ \cup {s}, !.complete = TRUE, !.tainted = @ \/ b], r)
<1> DEFINE f == tree.finished \cup {s}
           c == tree.tainted \/ b
           g == [tree EXCEPT !.finished = f, !.tainted = c]
           h == [tree EXCEPT !.finished = f, !.complete = TRUE, !.tainted = c]
<1>1. tree \in Trees
  BY DEF IsTree
<1>2. f \in SUBSET Nat /\ c \in BOOLEAN
  BY <1>1 DEF Trees
<1> HIDE DEF f, c
<1>3. g \in Trees /\ g.nodes = tree.nodes /\ g.complete = tree.complete
  BY <1>1, <1>2 DEF Trees
<1>4. h \in Trees /\ h.nodes = tree.nodes
  BY <1>1, <1>2 DEF Trees
<1>5. /\ g = WithFinish(tree, s, b)
      /\ h = [tree EXCEPT !.finished = @ \cup {s}, !.complete = TRUE, !.tainted = @ \/ b]
  BY DEF f, c, WithFinish
<1> HIDE DEF g, h
<1> QED
  BY <1>3, <1>4, <1>5, Zenon DEF IsTree

\* The tree that a start joins is a new one, or that of its parent.
LEMMA JoinsIs ==
    ASSUME NEW m, Joins(m) # 0
    PROVE  \/ /\ Joins(m) = m.event.sequence
              /\ Claims(m) /\ m.attachment \in DOMAIN pending
              /\ TreeFor(m) = NewTree(pending[m.attachment], m)
           \/ /\ Joins(m) = frames[m.event.parent] /\ m.event.parent \in DOMAIN frames
              /\ Joins(m) # m.event.sequence
              /\ TreeFor(m) = trees[Joins(m)]
           \/ frames[m.event.parent] = m.event.sequence /\ m.event.parent \in DOMAIN frames
<1>1. CASE Claims(m) /\ Live(registrations, pending[m.attachment])
  BY <1>1 DEF Joins, Claims, TreeFor
<1>2. CASE ~ (Claims(m) /\ Live(registrations, pending[m.attachment]))
  BY <1>2 DEF Joins, TreeFor
<1> QED
  BY <1>1, <1>2

\* A start that an activity calls the consumer follows joins a tree that is
\* there and waits.
LEMMA ParentHasTree ==
    ASSUME HolderInv, ConsumerInv, stream # <<>>, Started(Head(stream)),
           Head(stream).event.parent \in DOMAIN frames
    PROVE  LET r == frames[Head(stream).event.parent] IN
           /\ Kin(parser, stream, Head(stream).event.sequence, r)
           /\ r \in DOMAIN trees /\ ~ trees[r].complete
<1> DEFINE m == Head(stream)
           s == m.event.sequence
           q == m.event.parent
           r == frames[q]
<1>1. s \in Nat /\ s # 0 /\ StartAt(stream, 1, s)
  BY StartIs
<1>2. m = stream[1] /\ 1 \in Nat
  BY ConsumerFacts, HeadLeaves DEF ConsumerInv
<1>3. stream[1].event.parent = q /\ q \in DOMAIN frames
  BY <1>2
<1> HIDE DEF m, s, q, r
<1>4. ~ Childless(parser, stream, q)
  BY <1>1, <1>2, <1>3 DEF Childless, Spent
<1>5. Kin(parser, stream, q, r) /\ r \in DOMAIN trees /\ ~ trees[r].complete
  BY <1>3, <1>4 DEF ConsumerInv, Familiar, r
<1>6. PICK C : q \in C /\ Family(parser, stream, r, C)
  BY <1>5 DEF Kin
<1>7. s \in C
  BY <1>1, <1>2, <1>3, <1>6 DEF Family
<1>8. Kin(parser, stream, s, r)
  BY <1>6, <1>7 DEF Kin
<1> QED
  BY <1>5, <1>8 DEF m, s, q, r

LEMMA JoinKeeps ==
    ASSUME HolderInv, ConsumerInv, TreeInv, stream # <<>>, StartJoinsTree(Head(stream))
    PROVE  (ConsumerInv /\ TreeInv)'
<1> DEFINE m == Head(stream)
           s == m.event.sequence
           q == m.event.parent
           a == m.attachment
           b == m.event.incomplete
           r == Joins(m)
           tree == TreeFor(m)
           g == Grown(tree, Node(m), b)
<1>1. /\ Started(m) /\ r # 0
      /\ Cardinality(DOMAIN frames) < MaxFrames
      /\ frames' = Put(frames, s, r)
      /\ trees' = Put(trees, r, g)
  BY DEF StartJoinsTree, Grown
<1>2. /\ Receive
      /\ s \in Nat /\ s # 0
      /\ StartAt(stream, 1, s) /\ \A t : ~ FinishAt(stream, 1, t)
      /\ m.token = NoToken
      /\ q \in Nat /\ q < s
      /\ a \in Connections
      /\ b \in BOOLEAN /\ m.owner \in Owners
      /\ \A x : Known(parser, stream, x) => x # s
      /\ DOMAIN active' = DOMAIN active \cup {s}
      /\ Waiting(pending', issued)
      /\ Counted(active', activeByAttachment')
  BY <1>1, StartIs
<1>3. /\ parser' = parser /\ issued' = issued /\ dropped' = dropped
      /\ Ordered(parser, stream', issued)
      /\ \A x : Known(parser, stream, x) => Known(parser, stream', x)
      /\ \A x \in Nat : StartAt(stream, 1, x) => Known(parser, stream', x)
      /\ \A t \in Nat : Plain(parser, stream, t) => Plain(parser, stream', t)
      /\ \A t, x \in Nat : EndsFirst(parser, stream, t, x) /\ ~ FinishAt(stream, 1, t)
            => EndsFirst(parser, stream', t, x)
      /\ Nested(parser, stream) => Nested(parser, stream')
  BY <1>2, ReceivedIs
<1>4. /\ IsFiniteSet(DOMAIN frames)
      /\ \A x \in DOMAIN active : Known(parser, stream, x)
      /\ \A x \in DOMAIN frames : Known(parser, stream, x) /\ Known(parser, stream, frames[x])
      /\ \A x \in DOMAIN trees : Known(parser, stream, x)
  BY DEF ConsumerInv, Old
<1>5. \/ r = s /\ a \in DOMAIN pending /\ tree = NewTree(pending[a], m)
      \/ q \in DOMAIN frames /\ r = frames[q] /\ r # s /\ tree = trees[r]
  <2>1. q \in DOMAIN frames => frames[q] # s
    BY <1>2, <1>4
  <2> QED
    BY <1>1, <2>1, JoinsIs
<1>6. m = stream[1] /\ 1 \in 1..Len(stream) /\ issued \in Nat
  BY <1>2, ReceivedIs, ConsumerFacts, HeadLeaves DEF ConsumerInv
<1>7. Node(m) \in Nodes /\ Node(m).sequence = s
  BY <1>2 DEF Node, Nodes
<1>8. pending[a] \in Nat \/ a \notin DOMAIN pending
  BY <1>6 DEF ConsumerInv, Waiting
<1>9. LET new == NewTree(pending[a], m)
      IN  a \in DOMAIN pending => new \in Trees /\ new.nodes = <<>> /\ ~ new.complete
  <2>1. <<>> \in Seq(Nodes)
    OBVIOUS
  <2>2. {} \in SUBSET Nat
    OBVIOUS
  <2> QED
    BY <1>2, <1>8, <2>1, <2>2 DEF NewTree, Trees
<1> HIDE DEF m, s, q, a, b, r, tree, g
<1>10. /\ DOMAIN frames' = DOMAIN frames \cup {s}
       /\ frames'[s] = r
       /\ \A x \in DOMAIN frames : frames'[x] = frames[x]
  <2>1. s \notin DOMAIN frames
    BY <1>2, <1>4
  <2> QED
    BY <1>1, <2>1 DEF Put
<1>11. /\ DOMAIN trees' = DOMAIN trees \cup {r}
       /\ trees'[r] = g
       /\ \A x \in DOMAIN trees : x # r => trees'[x] = trees[x]
  BY <1>1 DEF Put
<1>12. Known(parser, stream', s) /\ Known(parser, stream', r)
  BY <1>2, <1>3, <1>4, <1>5
<1>13. IsFiniteSet(DOMAIN frames') /\ Cardinality(DOMAIN frames') <= MaxFrames
  <2>1. s \notin DOMAIN frames
    BY <1>2, <1>4
  <2>2. /\ IsFiniteSet(DOMAIN frames')
        /\ Cardinality(DOMAIN frames') = Cardinality(DOMAIN frames) + 1
        /\ Cardinality(DOMAIN frames) \in Nat
    BY <1>4, <1>10, <2>1, FS_AddElement, FS_CardinalityType
  <2> QED
    BY <1>1, <2>2, MaxFramesAssumption
<1>14. Old(parser, stream', active', frames', trees')
  BY <1>2, <1>3, <1>4, <1>10, <1>11, <1>12, <1>13 DEF Old
<1>15. Relates(parser, stream, parser, stream')
  BY <1>2, ReceivedIs
<1>16. q \in DOMAIN frames /\ r = frames[q] =>
         Kin(parser, stream, s, r) /\ r \in DOMAIN trees /\ ~ trees[r].complete
  BY <1>1, <1>2, ReceivedIs, ParentHasTree DEF m, s, q
<1>17. Kin(parser, stream, s, r)
  <2>1. CASE r = s
    <3>1. PICK C : Family(parser, stream, s, C)
      <4>1. 1 \in Nat
        OBVIOUS
      <4> QED
        BY <1>2, <4>1 DEF ConsumerInv, Related
    <3>2. s \in C
      BY <3>1 DEF Family
    <3> QED
      BY <2>1, <3>1, <3>2 DEF Kin
  <2> QED
    BY <1>5, <1>16, <2>1
<1>18. IsTree(g, r) /\ ~ g.complete
  <2>1. CASE r = s /\ a \in DOMAIN pending /\ tree = NewTree(pending[a], m)
    <3>1. tree \in Trees /\ tree.nodes = <<>> /\ ~ tree.complete
      BY <1>9, <2>1
    <3>2. Len(tree.nodes) <= MaxNodes
      <4>1. Len(<<>>) = 0 /\ 0 <= MaxNodes
        BY MaxNodesAssumption
      <4> QED
        BY <3>1, <4>1
    <3>3. Node(m) \in Nodes /\ Node(m).sequence = r /\ b \in BOOLEAN
      BY <1>2, <1>7, <2>1
    <3>4. IsTree(Grown(tree, Node(m), b), r) /\ Grown(tree, Node(m), b).complete = tree.complete
      BY <3>1, <3>2, <3>3, GrownIsTree
    <3> QED
      BY <3>1, <3>4 DEF g
  <2>2. CASE q \in DOMAIN frames /\ r = frames[q] /\ r # s /\ tree = trees[r]
    <3>1. r \in DOMAIN trees /\ ~ trees[r].complete
      BY <1>16, <2>2
    <3>2. IsTree(tree, r) /\ ~ tree.complete
      BY <2>2, <3>1 DEF ConsumerInv, Rooted
    <3>3. /\ tree \in Trees /\ Len(tree.nodes) <= MaxNodes
          /\ tree.nodes # <<>> /\ tree.nodes[1].sequence = r
      BY <3>2 DEF IsTree
    <3> QED
      BY <1>2, <1>7, <3>2, <3>3, GrownIsTree DEF g
  <2> QED
    BY <1>5, <2>1, <2>2
<1>19. Rooted(trees')
  BY <1>11, <1>18 DEF ConsumerInv, Rooted
<1>20. Familiar(parser, stream, frames', trees')
  <2>1. ASSUME NEW t \in DOMAIN frames, ~ Childless(parser, stream, t)
        PROVE  /\ Kin(parser, stream, t, frames'[t])
               /\ frames'[t] \in DOMAIN trees' /\ ~ trees'[frames'[t]].complete
    <3>1. /\ Kin(parser, stream, t, frames[t])
          /\ frames[t] \in DOMAIN trees /\ ~ trees[frames[t]].complete
      BY <2>1 DEF ConsumerInv, Familiar
    <3>2. frames'[t] = frames[t]
      BY <1>10
    <3> QED
      BY <1>11, <1>18, <3>1, <3>2
  <2>2. frames'[s] = r /\ r \in DOMAIN trees' /\ trees'[r] = g
    BY <1>10, <1>11
  <2> QED
    BY <1>10, <1>17, <1>18, <2>1, <2>2 DEF Familiar
<1>21. Familiar(parser, stream', frames', trees') /\ Related(parser, stream')
  BY <1>15, <1>20, FamiliarMoves DEF ConsumerInv, Relates
<1>22. ConsumerInv'
  BY <1>2, <1>3, <1>14, <1>19, <1>21 DEF ConsumerInv
<1>23. ASSUME ~ dropped
       PROVE  /\ Nested(parser, stream')
              /\ Following(parser, stream', frames', trees')
  <2>1. Nested(parser, stream) /\ Following(parser, stream, frames, trees)
    BY <1>23 DEF TreeInv
  <2>2. ASSUME NEW t \in DOMAIN frames
        PROVE  /\ Plain(parser, stream', t)
               /\ t # frames'[t] => EndsFirst(parser, stream', t, frames'[t])
               /\ frames'[t] \in DOMAIN trees'
               /\ ~ trees'[frames'[t]].complete
    <3>1. t \in Nat /\ frames[t] \in Nat /\ frames'[t] = frames[t]
      BY <1>4, <1>10 DEF Known
    <3>2. /\ Plain(parser, stream, t)
          /\ t # frames[t] => EndsFirst(parser, stream, t, frames[t])
          /\ frames[t] \in DOMAIN trees
          /\ ~ trees[frames[t]].complete
      BY <2>1 DEF Following
    <3>3. Plain(parser, stream', t)
      BY <1>3, <3>1, <3>2
    <3>4. t # frames[t] => EndsFirst(parser, stream', t, frames[t])
      BY <1>2, <1>3, <3>1, <3>2
    <3>5. frames[t] \in DOMAIN trees' /\ ~ trees'[frames[t]].complete
      BY <1>11, <1>18, <3>2
    <3> QED
      BY <3>1, <3>3, <3>4, <3>5
  <2>3. /\ q # 0 => EndsFirst(parser, stream, s, q)
        /\ Plain(parser, stream, s)
    <3>1. 1 \in Nat
      OBVIOUS
    <3> QED
      BY <1>2, <1>6, <2>1, <3>1 DEF Nested, q
  <2>4. r # s => EndsFirst(parser, stream', s, r)
    <3>1. ASSUME r # s
          PROVE  EndsFirst(parser, stream, s, r) /\ r \in Nat
      <4>1. q \in DOMAIN frames /\ r = frames[q]
        BY <1>5, <3>1
      <4>2. q \in 1..parser.sequence /\ r \in 1..parser.sequence
        BY <1>4, <4>1 DEF Known
      <4>3. EndsFirst(parser, stream, s, q)
        BY <2>3, <4>2
      <4>4. q # r => EndsFirst(parser, stream, q, r)
        BY <2>1, <4>1 DEF Following
      <4>5. EndsFirst(parser, stream, s, r)
        <5>1. CASE q = r
          BY <4>3, <5>1
        <5>2. CASE q # r
          BY <4>3, <4>4, <5>2, EndsFirstOfTwo
        <5> QED
          BY <5>1, <5>2
      <4> QED
        BY <4>2, <4>5
    <3> QED
      BY <1>2, <1>3, <3>1
  <2>5. Plain(parser, stream', s)
    BY <1>2, <1>3, <2>3
  <2>6. Following(parser, stream', frames', trees')
    <3>1. /\ frames'[s] = r /\ r \in DOMAIN trees' /\ trees'[r] = g
          /\ DOMAIN frames' = DOMAIN frames \cup {s}
      BY <1>10, <1>11
    <3> QED
      BY <1>18, <2>2, <2>4, <2>5, <3>1 DEF Following
  <2> QED
    BY <1>3, <2>1, <2>6
<1> QED
  BY <1>3, <1>22, <1>23 DEF TreeInv

-----------------------------------------------------------------------------
(* A finish. *)

LEMMA EndIs ==
    ASSUME HolderInv, ConsumerInv, stream # <<>>, Ended(Head(stream))
    PROVE  LET m == Head(stream)
               s == m.event.sequence IN
           /\ Receive
           /\ s \in Nat /\ s # 0
           /\ FinishAt(stream, 1, s) /\ \A t : FinishAt(stream, 1, t) => t = s
           /\ m.event.incomplete \in BOOLEAN
           /\ DOMAIN active' \subseteq DOMAIN active
           /\ Waiting(pending', issued)
           /\ Counted(active', activeByAttachment')
<1> DEFINE m == Head(stream)
           s == m.event.sequence
<1>1. /\ Receive /\ m.event.phase = "finish" /\ s # 0 /\ pending' = pending
      /\ IF s \in DOMAIN active
         THEN /\ active' = Except(active, {s})
              /\ activeByAttachment' =
                    IF activeByAttachment[active[s]] = 1
                    THEN Except(activeByAttachment, {active[s]})
                    ELSE [activeByAttachment EXCEPT ![active[s]] = @ - 1]
         ELSE active' = active /\ activeByAttachment' = activeByAttachment
  BY DEF Ended
<1>2. /\ s \in Nat /\ m.event.incomplete \in BOOLEAN
      /\ \A t : FinishAt(stream, 1, t) <=> m.event.phase = "finish" /\ s = t /\ t # 0
  BY HeadIs
<1> HIDE DEF m, s
<1>3. Counted(active, activeByAttachment)
  BY DEF ConsumerInv
<1>4. DOMAIN active' \subseteq DOMAIN active /\ Counted(active', activeByAttachment')
  <2>1. CASE s \in DOMAIN active
    <3>1. Counted(Except(active, {s}),
                  IF activeByAttachment[active[s]] = 1 THEN Except(activeByAttachment, {active[s]})
                  ELSE [activeByAttachment EXCEPT ![active[s]] = @ - 1])
      BY <1>3, <2>1, OneLessCounted
    <3>2. Counted(active', activeByAttachment')
      BY <1>1, <2>1, <3>1, Zenon
    <3>3. active' = Except(active, {s})
      BY <1>1, <2>1
    <3> QED
      BY <3>2, <3>3 DEF Except
  <2>2. CASE s \notin DOMAIN active
    BY <1>1, <1>3, <2>2
  <2> QED
    BY <2>1, <2>2
<1>5. Waiting(pending', issued)
  BY <1>1 DEF ConsumerInv
<1>6. FinishAt(stream, 1, s) /\ \A t : FinishAt(stream, 1, t) => t = s
  BY <1>1, <1>2
<1> QED
  BY <1>1, <1>2, <1>4, <1>5, <1>6 DEF m, s

LEMMA FinishLeaves ==
    ASSUME HolderInv, ConsumerInv, TreeInv, stream # <<>>, FinishOutsideTrees(Head(stream))
    PROVE  (ConsumerInv /\ TreeInv)'
<1> DEFINE s == Head(stream).event.sequence
<1>1. /\ Ended(Head(stream)) /\ s \notin DOMAIN frames
      /\ frames' = frames /\ trees' = trees
  BY DEF FinishOutsideTrees
<1>2. /\ Receive
      /\ \A t : FinishAt(stream, 1, t) => t = s
      /\ DOMAIN active' \subseteq DOMAIN active
      /\ Waiting(pending', issued)
      /\ Counted(active', activeByAttachment')
  BY <1>1, EndIs
<1> HIDE DEF s
<1>3. \A t \in DOMAIN frames' : ~ FinishAt(stream, 1, t)
  BY <1>1, <1>2
<1>4. Fewer(frames, trees, frames', trees')
  BY <1>1, NothingDrops
<1> QED
  BY <1>2, <1>3, <1>4, EventLeaves

LEMMA FinishInTreeKeeps ==
    ASSUME HolderInv, ConsumerInv, TreeInv, stream # <<>>, FinishInTree(Head(stream))
    PROVE  (ConsumerInv /\ TreeInv)'
<1> DEFINE m == Head(stream)
           s == m.event.sequence
           b == m.event.incomplete
           root == frames[s]
           g == WithFinish(trees[root], s, b)
<1>1. /\ Ended(m) /\ s \in DOMAIN frames /\ s # root
      /\ frames' = Except(frames, {s})
      /\ \/ trees' = trees
         \/ trees' = [trees EXCEPT ![root].finished = @ \cup {s}, ![root].tainted = @ \/ b]
  BY DEF FinishInTree
<1>2. /\ Receive /\ s \in Nat
      /\ \A t : FinishAt(stream, 1, t) => t = s
      /\ b \in BOOLEAN
      /\ DOMAIN active' \subseteq DOMAIN active
      /\ Waiting(pending', issued)
      /\ Counted(active', activeByAttachment')
  BY <1>1, EndIs
<1> HIDE DEF m, s, b
<1>3. /\ DOMAIN trees' = DOMAIN trees
      /\ \A r \in DOMAIN trees : r # root => trees'[r] = trees[r]
      /\ root \in DOMAIN trees => trees'[root] = trees[root] \/ trees'[root] = g
  BY <1>1 DEF WithFinish
<1> HIDE DEF root, g
<1>4. DOMAIN frames' = DOMAIN frames \ {s} /\ \A t \in DOMAIN frames' : frames'[t] = frames[t]
  BY <1>1 DEF Except
<1>5. Old(parser, stream, active, frames', trees')
  <2>1. Fewer(frames, trees, frames', trees)
    BY <1>4 DEF Fewer
  <2>2. Old(parser, stream, active, frames', trees)
    BY <2>1, FewerOld DEF ConsumerInv
  <2> QED
    BY <1>3, <2>2 DEF Old
<1>6. ASSUME NEW r \in DOMAIN trees
      PROVE  IsTree(trees'[r], r) /\ (~ trees[r].complete => ~ trees'[r].complete)
  <2>1. IsTree(trees[r], r)
    BY DEF ConsumerInv, Rooted
  <2>2. CASE trees'[r] = trees[r]
    BY <2>1, <2>2
  <2>3. CASE r = root /\ trees'[r] = g
    <3>1. IsTree(trees[root], root)
      BY <2>1, <2>3
    <3>2. IsTree(g, root) /\ g.complete = trees[root].complete
      BY <1>2, <3>1, EndedIsTree DEF g
    <3> QED
      BY <2>3, <3>2
  <2> QED
    BY <1>3, <2>2, <2>3
<1>7. Rooted(trees')
  BY <1>3, <1>6 DEF Rooted
<1>8. Familiar(parser, stream, frames', trees')
  BY <1>3, <1>4, <1>6 DEF ConsumerInv, Familiar
<1>9. ASSUME ~ dropped
      PROVE  Following(parser, stream, frames', trees')
  <2>1. Following(parser, stream, frames, trees)
    BY <1>9 DEF TreeInv
  <2> QED
    BY <1>3, <1>4, <1>6, <2>1 DEF Following
<1>10. Fewer(frames', trees', frames', trees')
  BY NothingDrops
<1>11. \A t \in DOMAIN frames' : ~ FinishAt(stream, 1, t)
  BY <1>2, <1>4
<1> DEFINE fs == frames'
           ts == trees'
<1>12. Sound(fs, ts) /\ Fewer(fs, ts, frames', trees')
  BY <1>5, <1>7, <1>8, <1>9, <1>10 DEF Sound
<1> HIDE DEF fs, ts
<1> QED
  BY <1>2, <1>11, <1>12, EventKeeps

\* When the root ends, everything it called has ended: its frame is the last of
\* its tree.
LEMMA FinishRootKeeps ==
    ASSUME HolderInv, ConsumerInv, TreeInv, stream # <<>>, FinishRoot(Head(stream))
    PROVE  (ConsumerInv /\ TreeInv)'
<1> DEFINE m == Head(stream)
           s == m.event.sequence
           b == m.event.incomplete
           g == [trees[s] EXCEPT !.finished = @ \cup {s}, !.complete = TRUE, !.tainted = @ \/ b]
           fs == Except(frames, {s})
           ts == [trees EXCEPT ![s] = g]
           none == {}
<1>1. Ended(m) /\ s \in DOMAIN frames /\ frames[s] = s /\ FlushOf(ts, fs, none)
  BY DEF FinishRoot
<1>2. /\ Receive /\ s \in Nat
      /\ FinishAt(stream, 1, s) /\ \A t : FinishAt(stream, 1, t) => t = s
      /\ b \in BOOLEAN
      /\ DOMAIN active' \subseteq DOMAIN active
      /\ Waiting(pending', issued)
      /\ Counted(active', activeByAttachment')
  BY <1>1, EndIs
<1>3. DOMAIN fs = DOMAIN frames \ {s} /\ \A t \in DOMAIN fs : fs[t] = frames[t]
  BY DEF Except
<1>4. /\ DOMAIN ts = DOMAIN trees
      /\ \A r \in DOMAIN trees : r # s => ts[r] = trees[r]
      /\ s \in DOMAIN trees => ts[s] = g
  OBVIOUS
<1> HIDE DEF m, s, b, fs, ts, none
<1>5. Fewer(fs, ts, frames', trees')
  BY <1>1, FlushDrops
<1>6. Old(parser, stream, active, fs, ts)
  <2>1. Fewer(frames, trees, fs, trees)
    BY <1>3 DEF Fewer
  <2>2. Old(parser, stream, active, fs, trees)
    BY <2>1, FewerOld DEF ConsumerInv
  <2> QED
    BY <1>4, <2>2 DEF Old
<1>7. Rooted(ts)
  <2>1. s \in DOMAIN trees => IsTree(g, s)
    BY <1>2, EndedIsTree DEF ConsumerInv, Rooted
  <2> HIDE DEF g
  <2> QED
    BY <1>4, <2>1 DEF ConsumerInv, Rooted
<1> HIDE DEF g
<1>8. ASSUME NEW t, Kin(parser, stream, t, s)
       PROVE  Childless(parser, stream, t)
  <2>1. PICK C : t \in C /\ Family(parser, stream, s, C)
    BY <1>8 DEF Kin
  <2>2. 1 \in Nat
    OBVIOUS
  <2>3. \A i, x \in Nat : StartAt(stream, i, x) => stream[i].event.parent \notin C
    <3>1. ASSUME NEW i \in Nat, NEW x \in Nat, StartAt(stream, i, x), stream[i].event.parent \in C
          PROVE  FALSE
      <4>1. i < 1
        BY <1>2, <2>1, <2>2, <3>1 DEF Family
      <4>2. i \in 1..Len(stream)
        BY <3>1 DEF StartAt
      <4> QED
        BY <4>1, <4>2
    <3> QED
      BY <3>1
  <2>4. \A k \in Keys : \A x, y \in Nat : Stacked(parser, k, x, y) => y \notin C
    BY <1>2, <2>1, <2>2 DEF Family
  <2>5. Spent(parser, stream, C)
    BY <2>1, <2>3, <2>4 DEF Family, Spent
  <2> QED
    BY <2>1, <2>5 DEF Childless
<1>9. Familiar(parser, stream, fs, ts)
  <2>1. ASSUME NEW t \in DOMAIN fs, ~ Childless(parser, stream, t)
        PROVE  Kin(parser, stream, t, fs[t]) /\ fs[t] \in DOMAIN ts /\ ~ ts[fs[t]].complete
    <3>1. /\ Kin(parser, stream, t, frames[t])
          /\ frames[t] \in DOMAIN trees /\ ~ trees[frames[t]].complete
      BY <1>3, <2>1 DEF ConsumerInv, Familiar
    <3>2. frames[t] # s
      BY <1>8, <2>1, <3>1
    <3> QED
      BY <1>3, <1>4, <3>1, <3>2
  <2> QED
    BY <2>1 DEF Familiar
<1>10. ASSUME ~ dropped
      PROVE  Following(parser, stream, fs, ts)
  <2>1. Following(parser, stream, frames, trees)
    BY <1>10 DEF TreeInv
  <2>2. ASSUME NEW t \in DOMAIN fs
        PROVE  frames[t] # s
    <3>1. ASSUME frames[t] = s
          PROVE  FALSE
      <4>1. EndsFirst(parser, stream, t, s)
        BY <1>3, <2>1, <3>1 DEF Following
      <4>2. PICK i \in Nat : i < 1 /\ FinishAt(stream, i, t)
        <5>1. 1 \in Nat
          OBVIOUS
        <5> QED
          BY <1>2, <4>1, <5>1 DEF EndsFirst
      <4>3. i \in 1..Len(stream)
        BY <4>2 DEF FinishAt
      <4> QED
        BY <4>2, <4>3
    <3> QED
      BY <3>1
  <2> QED
    BY <1>3, <1>4, <2>1, <2>2 DEF Following
<1>11. \A t \in DOMAIN frames' : ~ FinishAt(stream, 1, t)
  BY <1>2, <1>3, <1>5 DEF Fewer
<1>12. Sound(fs, ts)
  BY <1>6, <1>7, <1>9, <1>10 DEF Sound
<1> QED
  BY <1>2, <1>5, <1>12, <1>11, EventKeeps

LEMMA EventReceivedKeeps ==
    ASSUME HolderInv, ConsumerInv, TreeInv, EventReceived
    PROVE  (ConsumerInv /\ TreeInv)'
<1> DEFINE m == Head(stream)
<1>1. /\ stream # <<>>
      /\ \/ GapReceived(m)
         \/ MarkerStarted(m)
         \/ MarkerUnmatched(m)
         \/ MarkerFinished(m)
         \/ Unidentified(m)
         \/ StartOutsideTrees(m)
         \/ StartDropsTree(m)
         \/ StartJoinsTree(m)
         \/ FinishOutsideTrees(m)
         \/ FinishInTree(m)
         \/ FinishRoot(m)
  BY DEF EventReceived
<1>2. CASE GapReceived(m)
  BY <1>2, GapKeeps
<1>3. CASE MarkerUnmatched(m) \/ Unidentified(m)
  BY <1>1, <1>3, InvalidKeeps
<1>4. CASE MarkerStarted(m)
  BY <1>1, <1>4, MarkerStartedKeeps
<1>5. CASE MarkerFinished(m)
  BY <1>1, <1>5, MarkerFinishedKeeps
<1>6. CASE StartOutsideTrees(m) \/ StartDropsTree(m)
  BY <1>1, <1>6, StartLeaves
<1>7. CASE StartJoinsTree(m)
  BY <1>1, <1>7, JoinKeeps
<1>8. CASE FinishOutsideTrees(m)
  BY <1>1, <1>8, FinishLeaves
<1>9. CASE FinishInTree(m)
  BY <1>1, <1>9, FinishInTreeKeeps
<1>10. CASE FinishRoot(m)
  BY <1>1, <1>10, FinishRootKeeps
<1> QED
  BY <1>1, <1>2, <1>3, <1>4, <1>5, <1>6, <1>7, <1>8, <1>9, <1>10

-----------------------------------------------------------------------------
(* All the steps. *)

LEMMA ConsumerStarts == Init => ConsumerInv /\ TreeInv
<1> SUFFICES ASSUME Init PROVE ConsumerInv /\ TreeInv
  OBVIOUS
<1>1. /\ parser = NewParser /\ stream = <<>> /\ issued = 0
      /\ pending = <<>> /\ frames = <<>> /\ trees = <<>> /\ active = <<>>
      /\ activeByAttachment = <<>>
  BY DEF Init, StreamInit, ConsumerInit
<1>2. IsParser(parser) /\ \A k \in Keys : StackOf(parser, k) = <<>>
  <2>1. <<>> \in Seq(Frames) /\ DOMAIN <<>> = {}
    OBVIOUS
  <2> QED
    BY <1>1, <2>1 DEF NewParser, NoStacks, IsParser, StackOf
<1>3. /\ stream \in Seq(Messages(issued)) /\ Len(stream) = 0
      /\ \A i, t \in Nat : ~ StartAt(stream, i, t) /\ ~ FinishAt(stream, i, t)
      /\ \A k \in Keys : \A x, t \in Nat : ~ Stacked(parser, k, x, t)
  <2>1. Len(<<>>) = 0 /\ \A i : i \notin 1..0
    OBVIOUS
  <2>2. <<>> \in Seq(Messages(issued))
    OBVIOUS
  <2> QED
    BY <1>1, <1>2, <2>1, <2>2 DEF StartAt, FinishAt, Stacked
<1>4. Ordered(parser, stream, issued)
  BY <1>2, <1>3 DEF Ordered
<1>5. Nested(parser, stream) /\ Related(parser, stream)
  BY <1>3 DEF Nested, Related
<1>6. DOMAIN <<>> = {} /\ IsFiniteSet({}) /\ Cardinality({}) = 0 /\ 0 <= MaxFrames
  BY FS_EmptySet, MaxFramesAssumption
<1>7. Old(parser, stream, active, frames, trees)
  BY <1>1, <1>6 DEF Old
<1>8. Rooted(trees) /\ Familiar(parser, stream, frames, trees) /\ Following(parser, stream, frames, trees)
  BY <1>1, <1>6 DEF Rooted, Familiar, Following
<1>9. Waiting(pending, issued)
  BY <1>1, NobodyWaits, Zenon
<1>10. Counted(active, activeByAttachment)
  BY <1>1, NothingCounted, Zenon
<1> QED
  BY <1>4, <1>5, <1>7, <1>8, <1>9, <1>10 DEF ConsumerInv, TreeInv

\* The stream does not move, and the consumer drops some of what it keeps.
LEMMA WakeupKeeps ==
    ASSUME ConsumerInv, TreeInv, UNCHANGED <<parser, stream, issued, dropped, active, activeByAttachment>>,
           Fewer(frames, trees, frames', trees'), Waiting(pending', issued)
    PROVE  (ConsumerInv /\ TreeInv)'
<1>1. Old(parser, stream, active, frames', trees')
  BY FewerOld DEF ConsumerInv
<1>2. Rooted(trees') /\ Familiar(parser, stream, frames', trees')
  BY FewerFamiliar DEF ConsumerInv
<1>3. ~ dropped => Following(parser, stream, frames', trees')
  BY FewerFollowing DEF TreeInv
<1> QED
  BY <1>1, <1>2, <1>3 DEF ConsumerInv, TreeInv

LEMMA ConsumerNextKeeps ==
    ASSUME HolderInv, ConsumerInv, TreeInv, ConsumerNext
    PROVE  (ConsumerInv /\ TreeInv)'
<1>1. Waiting(pending, issued)
  BY DEF ConsumerInv
<1>2. CASE EventReceived
  BY <1>2, EventReceivedKeeps
<1>3. CASE Flush
  <2>1. Fewer(frames, trees, frames', trees')
    BY <1>3, FlushDrops DEF Flush
  <2>2. UNCHANGED <<parser, stream, issued, dropped, active, activeByAttachment, pending>>
    BY <1>3 DEF Flush, regFlags, streamVars
  <2> QED
    BY <1>1, <2>1, <2>2, WakeupKeeps
<1>4. CASE Tick
  <2> DEFINE looked == {pending[a] : a \in DOMAIN pending}
             forgotten == {a \in DOMAIN pending : ~ Live(registrations', pending[a])}
  <2>1. FlushOf(trees, frames, looked) /\ pending' = Except(pending, forgotten)
    BY <1>4 DEF Tick
  <2>2. UNCHANGED <<parser, stream, issued, dropped, active, activeByAttachment>>
    BY <1>4 DEF Tick, regFlags, streamVars
  <2> HIDE DEF looked, forgotten
  <2>3. Fewer(frames, trees, frames', trees')
    BY <2>1, FlushDrops
  <2>4. Waiting(pending', issued)
    BY <1>1, <2>1, FewerWait
  <2> QED
    BY <2>2, <2>3, <2>4, WakeupKeeps
<1>5. CASE ConsumerEnds
  <2>1. UNCHANGED <<parser, stream, issued, dropped, active, activeByAttachment, pending>>
        /\ trees' = <<>> /\ frames' = <<>>
    BY <1>5 DEF ConsumerEnds, streamVars
  <2>2. Fewer(frames, trees, frames', trees')
    BY <2>1 DEF Fewer
  <2> QED
    BY <1>1, <2>1, <2>2, WakeupKeeps
<1> QED
  BY <1>2, <1>3, <1>4, <1>5 DEF ConsumerNext

\* The parser reads on while the consumer waits.
LEMMA ReadsOnKeeps ==
    ASSUME HolderInv, ConsumerInv, TreeInv, ReadsOn, UNCHANGED consumerVars
    PROVE  (ConsumerInv /\ TreeInv)'
<1>1. /\ Grows(parser, stream, parser', stream', issued')
      /\ issued \in Nat /\ issued' \in Nat /\ issued <= issued' /\ dropped' = dropped
      /\ IsParser(parser)
  BY ConsumerFacts DEF ReadsOn, ConsumerInv, Ordered
<1>2. UNCHANGED <<pending, frames, trees, active, activeByAttachment>>
  BY DEF consumerVars
<1>3. \A s : Known(parser, stream, s) => Known(parser', stream', s)
  BY <1>1, KnownGrows
<1>4. Old(parser', stream', active', frames', trees')
  BY <1>2, <1>3 DEF ConsumerInv, Old
<1>5. Waiting(pending', issued')
  <2>1. 1..issued \subseteq 1..issued'
    BY <1>1
  <2> QED
    BY <1>2, <2>1 DEF ConsumerInv, Waiting
<1>6. Relates(parser, stream, parser', stream')
  BY <1>1 DEF Grows
<1>7. Related(parser', stream')
  BY <1>6 DEF ConsumerInv, Relates
<1>8. Rooted(trees') /\ Familiar(parser', stream', frames', trees')
  <2>1. Familiar(parser', stream', frames, trees)
    BY <1>6, FamiliarMoves DEF ConsumerInv
  <2> QED
    BY <1>2, <2>1 DEF ConsumerInv
<1>9. ConsumerInv'
  BY <1>1, <1>2, <1>4, <1>5, <1>7, <1>8 DEF ConsumerInv, Grows
<1>10. ASSUME ~ dropped
      PROVE  /\ Nested(parser', stream')
             /\ Following(parser', stream', frames', trees')
  <2>1. Nested(parser, stream) /\ Following(parser, stream, frames, trees)
    BY <1>10 DEF TreeInv
  <2>2. /\ Nested(parser', stream')
        /\ \A t \in 1..parser.sequence : Plain(parser, stream, t) => Plain(parser', stream', t)
        /\ \A t, r \in 1..parser.sequence :
              EndsFirst(parser, stream, t, r) => EndsFirst(parser', stream', t, r)
    BY <1>1, <2>1 DEF Grows
  <2>3. \A t \in DOMAIN frames : t \in 1..parser.sequence /\ frames[t] \in 1..parser.sequence
    BY DEF ConsumerInv, Old, Known
  <2>4. Following(parser', stream', frames', trees')
    BY <1>2, <2>1, <2>2, <2>3 DEF Following
  <2> QED
    BY <1>2, <2>1, <2>2, <2>4
<1> QED
  BY <1>1, <1>9, <1>10 DEF TreeInv

LEMMA OverflowKeeps ==
    ASSUME HolderInv, ConsumerInv, ChannelOverflows
    PROVE  (ConsumerInv /\ TreeInv)'
<1> DEFINE i == Capacity + 1
<1>1. /\ Len(stream) > Capacity /\ stream' = RemoveAt(stream, i) /\ dropped' = TRUE
      /\ UNCHANGED <<parser, issued, pending, frames, trees, active, activeByAttachment>>
  BY DEF ChannelOverflows, EventDropped, regVars, consumerVars
<1>2. issued \in Nat /\ Ordered(parser, stream, issued)
  BY ConsumerFacts DEF ConsumerInv
<1>3. i \in 1..Len(stream)
  <2>1. stream \in Seq(Messages(issued))
    BY <1>2 DEF Ordered
  <2>2. Len(stream) \in Nat
    BY <2>1
  <2> QED
    BY <1>1, <2>2, CapacityAssumption
<1> HIDE DEF i
<1>4. Ordered(parser, stream', issued)
  BY <1>1, <1>2, <1>3, DropLeaves
<1>5. \A s : Known(parser, stream, s) => Known(parser, stream', s)
  BY <1>1, <1>2, <1>3, DropLeaves
<1>6. Old(parser, stream', active, frames, trees)
  BY <1>5 DEF ConsumerInv, Old
<1>7. Relates(parser, stream, parser, stream')
  BY <1>1, <1>2, <1>3, DropLeaves
<1>8. Related(parser, stream') /\ Familiar(parser, stream', frames, trees)
  BY <1>7, FamiliarMoves DEF ConsumerInv, Relates
<1> QED
  BY <1>1, <1>4, <1>6, <1>8 DEF ConsumerInv, TreeInv

LEMMA ConsumerStep == HolderInv /\ ConsumerInv /\ TreeInv /\ [Next]_vars => (ConsumerInv /\ TreeInv)'
<1> SUFFICES ASSUME HolderInv, ConsumerInv, TreeInv, [Next]_vars PROVE (ConsumerInv /\ TreeInv)'
  OBVIOUS
<1>1. Ordered(parser, stream, issued)
  BY DEF ConsumerInv
<1>2. CASE ClientNext
  <2>1. UNCHANGED consumerVars
    BY <1>2 DEF ClientNext
  <2> QED
    BY <1>1, <1>2, <2>1, ClientGrows, ReadsOnKeeps
<1>3. CASE ConsumerNext
  BY <1>3, ConsumerNextKeeps
<1>4. CASE StrayRecord \/ StreamEnds
  <2>1. UNCHANGED consumerVars
    BY <1>4 DEF StrayRecord, StreamEnds
  <2> QED
    BY <1>1, <1>4, <2>1, StrayGrows, ReadsOnKeeps
<1>5. CASE ChannelOverflows
  BY <1>5, OverflowKeeps
<1>6. CASE (\E t \in DOMAIN registrations : ScopeElapses(t)) \/ ShutdownBegins \/ UNCHANGED vars
  <2>1. UNCHANGED <<issued, streamVars, consumerVars>>
    BY <1>6 DEF ScopeElapses, Elapse, ShutdownBegins, BeginShutdown, vars, regVars
  <2>2. UNCHANGED <<parser, stream, issued, dropped, active, activeByAttachment, pending, frames, trees>>
    BY <2>1 DEF streamVars, consumerVars
  <2>3. Fewer(frames, trees, frames', trees')
    BY <2>2, NothingDrops
  <2>4. Waiting(pending', issued)
    BY <2>2 DEF ConsumerInv
  <2> QED
    BY <2>2, <2>3, <2>4, WakeupKeeps
<1> QED
  BY <1>2, <1>3, <1>4, <1>5, <1>6 DEF Next

-----------------------------------------------------------------------------
(* What it is all for. *)

\* The stream stays ordered, whatever the server writes, whatever records are
\* damaged and whatever events are dropped, and what the consumer keeps of it is
\* older than the starts to come; without a dropped event it is well nested, too.
THEOREM ConsumerInvariant == Spec => [](ConsumerInv /\ TreeInv)
<1>1. Init => HolderInv /\ ConsumerInv /\ TreeInv
  BY HolderInit, ConsumerStarts
<1>2. HolderInv /\ ConsumerInv /\ TreeInv /\ [Next]_vars => (HolderInv /\ ConsumerInv /\ TreeInv)'
  BY HolderStep, ConsumerStep
<1> QED
  BY <1>1, <1>2, PTL DEF Spec

\* The counters of startActive, finishActive, invalidateAttachment and
\* invalidateAll never part from the map they count: no marker is blocked by an
\* activity that is gone, and none is claimed beside one that runs.
THEOREM CountsStayTrue == Spec => []CountsAgree
<1>1. ConsumerInv => CountsAgree
  <2>1. \A a : Running(a) = RunningIn(activeByAttachment, a)
    BY DEF Running, RunningIn
  <2>2. \A n \in Nat \ {0} : n > 0
    OBVIOUS
  <2> QED
    BY <2>1, <2>2 DEF ConsumerInv, Counted, CountsAgree
<1> QED
  BY <1>1, ConsumerInvariant, PTL

\* A frame the consumer keeps (startNode) always leads to a tree it still has,
\* and every tree has its root first: what finishNode, flush and
\* invalidateAttachment look up is there, until an event is dropped.
THEOREM FramesKeepTheirTrees == Spec => []FramesBelongToTrees
<1>1. ConsumerInv /\ TreeInv => FramesBelongToTrees
  BY DEF ConsumerInv, TreeInv, Following, Rooted, IsTree, FramesBelongToTrees
<1> QED
  BY <1>1, ConsumerInvariant, PTL

\* The consumer's memory keeps its limits (claimMarker, startNode) in every
\* behaviour, after dropped events, too: no start joins a tree that is gone.
THEOREM MemoryIsBounded == Spec => []ConsumerBounded
<1>1. ConsumerInv => ConsumerBounded
  BY DEF ConsumerInv, Waiting, Old, Rooted, IsTree, ConsumerBounded
<1> QED
  BY <1>1, ConsumerInvariant, PTL

\* Every variable of the path has values of its kind, in every behaviour: a
\* connection has no more rows open than calls that read them (serverRows, which
\* queryResult counts up and down), no token and no sequence is from the future,
\* and Register never runs out of the tokens the bound of the model leaves it.
THEOREM PathIsTyped == Spec => []TypeOK
<1>1. Init => HolderInv /\ ClientTypes
  BY HolderInit, ClientTypesStart
<1>2. HolderInv /\ ClientTypes /\ [Next]_vars => (HolderInv /\ ClientTypes)'
  BY HolderStep, ClientTypesStep
<1>3. HolderInv /\ ClientTypes /\ ConsumerInv => TypeOK
  <2> SUFFICES ASSUME HolderInv, ClientTypes, ConsumerInv PROVE TypeOK
    OBVIOUS
  <2>1. \A a \in DOMAIN pending : a \in Connections /\ pending[a] \in 1..issued
    BY DEF ConsumerInv, Waiting
  <2>2. \A s \in DOMAIN active : active[s] \in Connections /\ s \in 1..parser.sequence
    BY DEF ConsumerInv, Counted, Old, Known
  <2>3. DOMAIN frames \cup DOMAIN trees \subseteq 1..parser.sequence
    BY DEF ConsumerInv, Old, Known
  <2> QED
    BY <2>1, <2>2, <2>3, ClientTypesMean DEF TypeOK
<1> QED
  BY <1>1, <1>2, <1>3, ConsumerInvariant, PTL DEF Spec

-----------------------------------------------------------------------------
(* One tree at most for each token. *)

\* A token marks once in the stream st; after that it waits in pd or has a tree
\* in ts, in one place only.
Apart(st, pd, ts) ==
    /\ \A i, j \in 1..Len(st) :
          Marks(st[i]) /\ Marks(st[j]) /\ st[i].token = st[j].token => i = j
    /\ \A i \in 1..Len(st) : Marks(st[i]) =>
          /\ \A a \in DOMAIN pd : pd[a] # st[i].token
          /\ \A r \in DOMAIN ts : ts[r].token # st[i].token
    /\ \A a, b \in DOMAIN pd : pd[a] = pd[b] => a = b
    /\ \A r, s \in DOMAIN ts : ts[r].token = ts[s].token => r = s
    /\ \A a \in DOMAIN pd : \A r \in DOMAIN ts : pd[a] # ts[r].token

TokensIn(ts, n) == \A r \in DOMAIN ts : ts[r].token \in 1..n

ApartInv == Apart(stream, pending, trees) /\ TokensIn(trees, issued)

\* Some markers wait no longer, and some trees are gone.
Waits(pd1, pd) == \A a \in DOMAIN pd1 : a \in DOMAIN pd /\ pd1[a] = pd[a]

TokensKept(ts1, ts) == \A r \in DOMAIN ts1 : r \in DOMAIN ts /\ ts1[r].token = ts[r].token

LEMMA FewerApart ==
    ASSUME NEW st, NEW pd, NEW ts, Apart(st, pd, ts), NEW pd1, NEW ts1, Waits(pd1, pd), TokensKept(ts1, ts)
    PROVE  Apart(st, pd1, ts1)
  BY DEF Apart, Waits, TokensKept

LEMMA LeftApart ==
    ASSUME NEW S, NEW st \in Seq(S), NEW st1 \in Seq(S), NEW e, Left(st1, e, st),
           NEW pd, NEW ts, Apart(st, pd, ts)
    PROVE  Apart(st1, pd, ts)
<1>1. /\ Len(st1) \in Nat /\ Len(st) \in Nat
      /\ \A j \in 1..Len(st1) : e[j] \in 1..Len(st) /\ st1[j] = st[e[j]]
      /\ \A i, j \in 1..Len(st1) : i < j => e[i] < e[j]
  BY DEF Left
<1>2. ASSUME NEW i \in 1..Len(st1), NEW j \in 1..Len(st1), e[i] = e[j]
      PROVE  i = j
  <2>1. e[i] \in Nat /\ e[j] \in Nat /\ ~ e[i] < e[j] /\ ~ e[j] < e[i]
    BY <1>1, <1>2
  <2>2. ~ i < j /\ ~ j < i
    BY <1>1, <2>1
  <2> QED
    BY <1>1, <2>2
<1>3. ASSUME NEW i \in 1..Len(st1), NEW j \in 1..Len(st1),
             Marks(st1[i]), Marks(st1[j]), st1[i].token = st1[j].token
      PROVE  i = j
  <2>1. e[i] \in 1..Len(st) /\ e[j] \in 1..Len(st) /\ st1[i] = st[e[i]] /\ st1[j] = st[e[j]]
    BY <1>1
  <2>2. e[i] = e[j]
    BY <1>3, <2>1 DEF Apart
  <2> QED
    BY <1>2, <2>2
<1>4. \A i \in 1..Len(st1) : Marks(st1[i]) =>
          /\ \A a \in DOMAIN pd : pd[a] # st1[i].token
          /\ \A r \in DOMAIN ts : ts[r].token # st1[i].token
  BY <1>1 DEF Apart
<1> QED
  BY <1>3, <1>4 DEF Apart

LEMMA HeadApart ==
    ASSUME NEW S, NEW st \in Seq(S), st # <<>>, NEW pd, NEW ts, Apart(st, pd, ts)
    PROVE  /\ Apart(Tail(st), pd, ts)
           /\ \A i \in 1..Len(Tail(st)) : Marks(st[1]) /\ Marks(Tail(st)[i]) => Tail(st)[i].token # st[1].token
<1> DEFINE st1 == Tail(st)
           e == [j \in 1..Len(st1) |-> j + 1]
<1>1. /\ st1 \in Seq(S)
      /\ Len(st) \in Nat \ {0}
      /\ Len(st1) = Len(st) - 1
      /\ \A i \in 1..Len(st1) : st1[i] = st[i + 1]
  OBVIOUS
<1>2. \A j \in 1..Len(st1) : e[j] = j + 1
  OBVIOUS
<1> HIDE DEF e, st1
<1>3. Left(st1, e, st)
  BY <1>1, <1>2 DEF Left
<1>4. Apart(st1, pd, ts)
  BY <1>1, <1>3, LeftApart
<1>5. ASSUME NEW i \in 1..Len(st1), Marks(st[1]), Marks(st1[i])
      PROVE  st1[i].token # st[1].token
  <2>1. i + 1 \in 1..Len(st) /\ 1 \in 1..Len(st) /\ i + 1 # 1 /\ st1[i] = st[i + 1]
    BY <1>1
  <2> QED
    BY <1>5, <2>1 DEF Apart
<1> QED
  BY <1>4, <1>5 DEF st1

\* Token t is nowhere.
Fresh(t, st, pd, ts) ==
    /\ \A i \in 1..Len(st) : Marks(st[i]) => st[i].token # t
    /\ \A a \in DOMAIN pd : pd[a] # t
    /\ \A r \in DOMAIN ts : ts[r].token # t

LEMMA PutApart ==
    ASSUME NEW st, NEW pd, NEW ts, Apart(st, pd, ts), NEW t, Fresh(t, st, pd, ts), NEW a
    PROVE  Apart(st, Put(pd, a, t), ts)
<1> DEFINE pd1 == Put(pd, a, t)
<1>1. DOMAIN pd1 = DOMAIN pd \cup {a} /\ pd1[a] = t /\ \A b \in DOMAIN pd : b # a => pd1[b] = pd[b]
  BY DEF Put
<1> HIDE DEF pd1
<1> QED
  BY <1>1 DEF Apart, Fresh, pd1

LEMMA PlantApart ==
    ASSUME NEW st, NEW pd, NEW ts, Apart(st, pd, ts), NEW g, Fresh(g.token, st, pd, ts), NEW r
    PROVE  Apart(st, pd, Put(ts, r, g))
<1> DEFINE ts1 == Put(ts, r, g)
<1>1. DOMAIN ts1 = DOMAIN ts \cup {r} /\ ts1[r] = g /\ \A s \in DOMAIN ts : s # r => ts1[s] = ts[s]
  BY DEF Put
<1> HIDE DEF ts1
<1> QED
  BY <1>1 DEF Apart, Fresh, ts1

\* The server writes new marks, if any.
LEMMA MarksApart ==
    ASSUME NEW n \in Nat, NoToken \notin Nat, NEW st \in Seq(Messages(n)), NEW m, NEW st1 \in Seq(Messages(m)),
           NEW pd, NEW ts, Apart(st, pd, ts), TokensIn(ts, n), \A a \in DOMAIN pd : pd[a] \in 1..n,
           m \in Nat, MarksOn(st, st1, (n + 1)..m)
    PROVE  Apart(st1, pd, ts)
<1> DEFINE T == (n + 1)..m
<1>1. PICK k : MarksAt(k, st, st1, T)
  BY DEF MarksOn
<1>2. /\ Len(st) \in Nat /\ Len(st1) \in Nat /\ Len(st) <= Len(st1)
      /\ \A i \in 1..Len(st) : st1[i] = st[i]
  BY DEF MarksOn
<1>7. ASSUME NEW i \in 1..Len(st), Marks(st[i])
      PROVE  st[i].token \in 1..n
  <2>1. st[i] \in Messages(n)
    OBVIOUS
  <2>2. st[i].token \in Tokenish(n)
    BY <2>1 DEF Messages
  <2> QED
    BY <1>7, <2>2 DEF Marks, Tokenish
<1>3. \A t \in T : t \notin 1..n
  OBVIOUS
<1> HIDE DEF T
<1>4. ASSUME NEW i \in 1..Len(st1), Marks(st1[i])
      PROVE  \/ i \in 1..Len(st) /\ st1[i] = st[i] /\ st[i].token \in 1..n
             \/ i = k /\ st1[i].token \notin 1..n
  <2>1. CASE i <= Len(st)
    BY <1>2, <1>4, <1>7, <2>1
  <2>2. CASE ~ i <= Len(st)
    BY <1>1, <1>3, <1>4, <2>2 DEF MarksAt
  <2> QED
    BY <2>1, <2>2
<1>5. \A i, j \in 1..Len(st1) : Marks(st1[i]) /\ Marks(st1[j]) /\ st1[i].token = st1[j].token => i = j
  BY <1>4 DEF Apart
<1>6. \A i \in 1..Len(st1) : Marks(st1[i]) =>
          /\ \A a \in DOMAIN pd : pd[a] # st1[i].token
          /\ \A r \in DOMAIN ts : ts[r].token # st1[i].token
  BY <1>4 DEF Apart, TokensIn
<1> QED
  BY <1>5, <1>6 DEF Apart

-----------------------------------------------------------------------------
(* The consumer keeps tokens apart. *)

LEMMA FewerTokens ==
    ASSUME NEW fs, NEW ts, NEW fs1, NEW ts1, Fewer(fs, ts, fs1, ts1)
    PROVE  TokensKept(ts1, ts)
  BY DEF Fewer, TokensKept

LEMMA ExceptWaits == ASSUME NEW pd, NEW S PROVE Waits(Except(pd, S), pd)
  BY DEF Except, Waits

LEMMA ReceivedApart ==
    ASSUME HolderInv, ConsumerInv, ApartInv, Receive
    PROVE  /\ issued' = issued
           /\ Apart(stream', pending, trees)
           /\ \A i \in 1..Len(stream') : Marks(stream[1]) /\ Marks(stream'[i])
                 => stream'[i].token # stream[1].token
<1>1. stream \in Seq(Messages(issued)) /\ stream # <<>> /\ stream' = Tail(stream) /\ issued' = issued
  BY DEF ConsumerInv, Ordered, Receive, regFlags
<1>2. Apart(stream, pending, trees)
  BY DEF ApartInv
<1>3. /\ Apart(Tail(stream), pending, trees)
      /\ \A i \in 1..Len(Tail(stream)) : Marks(stream[1]) /\ Marks(Tail(stream)[i])
            => Tail(stream)[i].token # stream[1].token
  BY <1>1, <1>2, HeadApart
<1> QED
  BY <1>1, <1>3

\* The event adds no token.
LEMMA EventApart ==
    ASSUME HolderInv, ConsumerInv, ApartInv, Receive, Waits(pending', pending), TokensKept(trees', trees)
    PROVE  ApartInv'
<1>1. issued' = issued /\ Apart(stream', pending, trees)
  BY ReceivedApart
<1> DEFINE st == stream'
           pd1 == pending'
           ts1 == trees'
<1>2. Apart(st, pending, trees) /\ Waits(pd1, pending) /\ TokensKept(ts1, trees)
  BY <1>1
<1> HIDE DEF st, pd1, ts1
<1>3. Apart(st, pd1, ts1)
  BY <1>2, FewerApart
<1>4. TokensIn(ts1, issued)
  BY <1>2 DEF ApartInv, TokensIn, TokensKept
<1> QED
  BY <1>1, <1>3, <1>4 DEF ApartInv, st, pd1, ts1

LEMMA InvalidateApart ==
    ASSUME NEW a, NEW more, InvalidateAttachment(a, more)
    PROVE  Waits(pending', pending) /\ TokensKept(trees', trees)
<1>1. \E roots, gone : Drop(roots, gone)
  <2>1. CASE a = 0
    BY <2>1 DEF InvalidateAttachment
  <2>2. CASE a # 0
    BY <2>2 DEF InvalidateAttachment
  <2> QED
    BY <2>1, <2>2
<1>2. Fewer(frames, trees, frames', trees')
  BY <1>1, DropDrops
<1>3. TokensKept(trees', trees)
  BY <1>2, FewerTokens
<1>4. pending' = <<>> \/ pending' = Except(pending, {a})
  BY DEF InvalidateAttachment
<1>5. Waits(pending', pending)
  BY <1>4 DEF Except, Waits
<1> QED
  BY <1>3, <1>5

LEMMA StartedWaits ==
    ASSUME NEW m, Started(m)
    PROVE  /\ Waits(pending', pending)
           /\ Claims(m) => pending' = Except(pending, {m.attachment})
<1>1. pending' = IF Claims(m) THEN Except(pending, {m.attachment}) ELSE pending
  BY DEF Started
<1> QED
  BY <1>1 DEF Except, Waits

\* The marker was in the stream only; now it waits, or is forgotten.
LEMMA MarkerFinishedApart ==
    ASSUME HolderInv, ConsumerInv, ApartInv, stream # <<>>, MarkerFinished(Head(stream))
    PROVE  ApartInv'
<1> DEFINE m == Head(stream)
           a == m.attachment
           others == Except(pending, {a})
           pd1 == pending'
           ts1 == trees'
<1>1. Receive /\ m.token # NoToken /\ m.event.phase = "finish" /\ trees' = trees
  BY DEF MarkerFinished
<1>2. pd1 = others \/ pd1 = Put(others, a, m.token)
  BY DEF MarkerFinished
<1>3. m = stream[1]
  BY ConsumerFacts, HeadLeaves DEF ConsumerInv
<1>4. Marks(m)
  BY <1>1 DEF Marks
<1>5. Waits(others, pending) /\ TokensKept(trees, trees)
  BY ExceptWaits DEF TokensKept
<1>6. CASE pd1 = others
  BY <1>1, <1>5, <1>6, EventApart
<1>7. CASE pd1 = Put(others, a, m.token)
  <2>1. /\ issued' = issued
        /\ Apart(stream', pending, trees)
        /\ \A i \in 1..Len(stream') : Marks(m) /\ Marks(stream'[i]) => stream'[i].token # m.token
    BY <1>1, <1>3, ReceivedApart
  <2>2. /\ \A b \in DOMAIN pending : pending[b] # m.token
        /\ \A r \in DOMAIN trees : trees[r].token # m.token
    <3>1. 1 \in 1..Len(stream) /\ Marks(stream[1])
      BY <1>3, <1>4, ConsumerFacts, HeadLeaves DEF ConsumerInv
    <3> QED
      BY <1>3, <3>1 DEF ApartInv, Apart
  <2> DEFINE st == stream'
             t == m.token
  <2>3. Apart(st, pending, trees) /\ \A i \in 1..Len(st) : Marks(st[i]) => st[i].token # t
    BY <1>4, <2>1
  <2>4. /\ \A b \in DOMAIN pending : pending[b] # t
        /\ \A r \in DOMAIN trees : trees[r].token # t
    BY <2>2
  <2>5. pd1 = Put(others, a, t)
    BY <1>7
  <2> HIDE DEF st, t, others, pd1, a
  <2>6. Apart(st, others, trees)
    BY <1>5, <2>3, FewerApart
  <2>7. Fresh(t, st, others, trees)
    BY <1>5, <2>3, <2>4 DEF Fresh, Waits
  <2>8. Apart(st, pd1, trees)
    BY <2>5, <2>6, <2>7, PutApart
  <2> QED
    BY <1>1, <2>1, <2>8 DEF ApartInv, st, pd1
<1> QED
  BY <1>2, <1>6, <1>7

\* A tree keeps its token.
LEMMA TokenStays ==
    ASSUME NEW tree \in Trees, NEW node, NEW s, NEW b
    PROVE  /\ Grown(tree, node, b).token = tree.token
           /\ WithFinish(tree, s, b).token = tree.token
           /\ [tree EXCEPT !.finished = @ \cup {s}, !.complete = TRUE, !.tainted = @ \/ b].token = tree.token
  BY DEF Grown, WithFinish, Trees

\* The marker waited only; now its token has a tree.
LEMMA JoinApart ==
    ASSUME HolderInv, ConsumerInv, ApartInv, stream # <<>>, StartJoinsTree(Head(stream))
    PROVE  ApartInv'
<1> DEFINE m == Head(stream)
           s == m.event.sequence
           q == m.event.parent
           a == m.attachment
           b == m.event.incomplete
           r == Joins(m)
           tree == TreeFor(m)
           g == Grown(tree, Node(m), b)
<1>1. /\ Started(m) /\ r # 0
      /\ trees' = Put(trees, r, g)
  BY DEF StartJoinsTree, Grown
<1>2. Receive /\ s # 0 /\ a \in Connections /\ \A x : Known(parser, stream, x) => x # s
  BY <1>1, StartIs
<1>3. \A x \in DOMAIN frames : Known(parser, stream, frames[x])
  BY DEF ConsumerInv, Old
<1>4. \/ r = s /\ Claims(m) /\ a \in DOMAIN pending /\ tree = NewTree(pending[a], m)
      \/ q \in DOMAIN frames /\ r = frames[q] /\ tree = trees[r]
  <2>1. q \in DOMAIN frames => frames[q] # s
    BY <1>2, <1>3
  <2>2. \/ Joins(m) = s /\ Claims(m) /\ a \in DOMAIN pending /\ TreeFor(m) = NewTree(pending[a], m)
        \/ Joins(m) = frames[q] /\ q \in DOMAIN frames /\ TreeFor(m) = trees[Joins(m)]
        \/ frames[q] = s /\ q \in DOMAIN frames
    BY <1>1, JoinsIs
  <2> QED
    BY <2>1, <2>2
<1>5. Waits(pending', pending) /\ (Claims(m) => pending' = Except(pending, {a}))
  BY <1>1, StartedWaits
<1>6. CASE q \in DOMAIN frames /\ r = frames[q] /\ tree = trees[r]
  <2>1. r \in DOMAIN trees
    BY <1>1, <1>6, ParentHasTree
  <2>2. trees[r] \in Trees
    BY <2>1 DEF ConsumerInv, Rooted, IsTree
  <2>3. g.token = trees[r].token
    BY <1>6, <2>2, TokenStays
  <2> HIDE DEF g, r
  <2>4. TokensKept(trees', trees)
    BY <1>1, <2>1, <2>3 DEF Put, TokensKept
  <2> QED
    BY <1>2, <1>5, <2>4, EventApart
<1>7. CASE r = s /\ Claims(m) /\ a \in DOMAIN pending /\ tree = NewTree(pending[a], m)
  <2>1. issued' = issued /\ Apart(stream', pending, trees)
    BY <1>2, ReceivedApart
  <2> DEFINE st == stream'
             t == pending[a]
             pd1 == Except(pending, {a})
             ts1 == Put(trees, r, g)
  <2>2. t \in 1..issued
    BY <1>7 DEF ConsumerInv, Waiting
  <2>3. g.token = t
    <3>1. tree.token = t /\ tree \in Trees
      <4>1. t \in Nat /\ <<>> \in Seq(Nodes) /\ {} \in SUBSET Nat
        BY <2>2
      <4> HIDE DEF t
      <4>2. NewTree(t, m).token = t /\ NewTree(t, m) \in Trees
        BY <1>2, <4>1 DEF NewTree, Trees
      <4> QED
        BY <1>7, <4>2 DEF t
    <3> QED
      BY <3>1, TokenStays
  <2>4. DOMAIN pd1 = DOMAIN pending \ {a} /\ \A x \in DOMAIN pd1 : pd1[x] = pending[x]
    BY DEF Except
  <2>5. Waits(pd1, pending) /\ TokensKept(trees, trees)
    BY <2>4 DEF Waits, TokensKept
  <2>6. Apart(st, pending, trees) /\ a \in DOMAIN pending /\ t = pending[a]
    BY <1>7, <2>1
  <2> HIDE DEF st, pd1, t, g, r, a
  <2>7. Apart(st, pd1, trees)
    BY <2>5, <2>6, FewerApart
  <2>8. Fresh(t, st, pd1, trees)
    BY <2>4, <2>6 DEF Fresh, Apart
  <2>9. Fresh(g.token, st, pd1, trees)
    BY <2>3, <2>8
  <2>10. Apart(st, pd1, ts1)
    <3> HIDE DEF ts1
    <3>1. ts1 = Put(trees, r, g)
      BY DEF ts1
    <3> QED
      BY <2>7, <2>9, <3>1, PlantApart
  <2>11. TokensIn(ts1, issued)
    BY <2>2, <2>3 DEF ApartInv, TokensIn, Put
  <2>12. pending' = pd1 /\ trees' = ts1
    BY <1>1, <1>5, <1>7 DEF pd1, a
  <2> QED
    BY <2>1, <2>10, <2>11, <2>12 DEF ApartInv, st
<1> QED
  BY <1>4, <1>6, <1>7

LEMMA FinishApart ==
    ASSUME HolderInv, ConsumerInv, ApartInv, stream # <<>>,
           FinishInTree(Head(stream)) \/ FinishRoot(Head(stream))
    PROVE  ApartInv'
<1> DEFINE m == Head(stream)
           s == m.event.sequence
           b == m.event.incomplete
           root == frames[s]
           g == WithFinish(trees[root], s, b)
           h == [trees[s] EXCEPT !.finished = @ \cup {s}, !.complete = TRUE, !.tainted = @ \/ b]
<1>1. Ended(m) /\ Receive /\ pending' = pending
  BY DEF FinishInTree, FinishRoot, Ended
<1>2. \A t \in DOMAIN trees : trees[t] \in Trees
  BY DEF ConsumerInv, Rooted, IsTree
<1>3. Waits(pending', pending)
  BY <1>1 DEF Waits
<1>4. CASE FinishInTree(m)
  <2>1. \/ trees' = trees
        \/ trees' = [trees EXCEPT ![root].finished = @ \cup {s}, ![root].tainted = @ \/ b]
    BY <1>4 DEF FinishInTree
  <2> HIDE DEF m, s, b
  <2>2. /\ DOMAIN trees' = DOMAIN trees
        /\ \A r \in DOMAIN trees : r # root => trees'[r] = trees[r]
        /\ root \in DOMAIN trees => trees'[root] = trees[root] \/ trees'[root] = g
    BY <2>1 DEF WithFinish
  <2>3. root \in DOMAIN trees => g.token = trees[root].token
    BY <1>2, TokenStays
  <2> HIDE DEF g, root
  <2>4. TokensKept(trees', trees)
    BY <2>2, <2>3 DEF TokensKept
  <2> QED
    BY <1>1, <1>3, <2>4, EventApart
<1>5. CASE FinishRoot(m)
  <2> DEFINE ts == [trees EXCEPT ![s] = h]
             fs == Except(frames, {s})
             none == {}
  <2>1. FlushOf(ts, fs, none)
    BY <1>5 DEF FinishRoot
  <2>2. s \in DOMAIN trees => h.token = trees[s].token
    BY <1>2, TokenStays
  <2> HIDE DEF h, s
  <2>3. TokensKept(ts, trees)
    BY <2>2 DEF TokensKept
  <2> HIDE DEF ts, fs, none
  <2>4. Fewer(fs, ts, frames', trees')
    BY <2>1, FlushDrops
  <2>5. TokensKept(trees', ts)
    BY <2>4, FewerTokens
  <2>6. TokensKept(trees', trees)
    BY <2>3, <2>5 DEF TokensKept
  <2> QED
    BY <1>1, <1>3, <2>6, EventApart
<1> QED
  BY <1>4, <1>5

LEMMA ConsumerApart ==
    ASSUME HolderInv, ConsumerInv, ApartInv, ConsumerNext
    PROVE  ApartInv'
<1> DEFINE m == Head(stream)
<1>1. Waits(pending, pending) /\ TokensKept(trees, trees)
  BY DEF Waits, TokensKept
<1>2. CASE Flush \/ Tick \/ ConsumerEnds
  <2>1. issued' = issued /\ stream' = stream
    BY <1>2 DEF Flush, Tick, ConsumerEnds, regFlags, streamVars
  <2>2. TokensKept(trees', trees)
    <3>1. CASE Flush \/ Tick
      <4>1. PICK looked : FlushOf(trees, frames, looked)
        BY <3>1 DEF Flush, Tick
      <4> QED
        BY <4>1, FlushDrops, FewerTokens
    <3>2. CASE ConsumerEnds
      BY <3>2 DEF ConsumerEnds, TokensKept
    <3> QED
      BY <1>2, <3>1, <3>2
  <2>3. Waits(pending', pending)
    <3>1. pending' = pending \/ \E S : pending' = Except(pending, S)
      BY <1>2 DEF Flush, Tick, ConsumerEnds
    <3> QED
      BY <1>1, <3>1, ExceptWaits
  <2> DEFINE pd1 == pending'
             ts1 == trees'
  <2>4. Apart(stream, pending, trees) /\ Waits(pd1, pending) /\ TokensKept(ts1, trees)
    BY <2>2, <2>3 DEF ApartInv
  <2> HIDE DEF pd1, ts1
  <2>5. Apart(stream, pd1, ts1)
    BY <2>4, FewerApart
  <2>6. TokensIn(ts1, issued)
    BY <2>4 DEF ApartInv, TokensIn, TokensKept
  <2> QED
    BY <2>1, <2>5, <2>6 DEF ApartInv, pd1, ts1
<1>3. CASE EventReceived
  <2>1. stream # <<>>
    BY <1>3 DEF EventReceived
  <2>2. CASE GapReceived(m)
    <3>1. Receive /\ Drop(DOMAIN trees, {pending[a] : a \in DOMAIN pending}) /\ pending' = <<>>
      BY <2>2 DEF GapReceived, Invalidate
    <3>2. \E roots, more : Drop(roots, more)
      BY <3>1
    <3>3. TokensKept(trees', trees)
      BY <3>2, DropDrops, FewerTokens
    <3>4. Waits(pending', pending)
      BY <3>1 DEF Waits
    <3> QED
      BY <3>1, <3>3, <3>4, EventApart
  <2>3. CASE MarkerUnmatched(m) \/ Unidentified(m)
    <3>1. Receive /\ \E a, more : InvalidateAttachment(a, more)
      BY <2>3 DEF MarkerUnmatched, Unidentified
    <3> QED
      BY <3>1, InvalidateApart, EventApart
  <2>4. CASE MarkerStarted(m)
    <3>1. Receive /\ pending' = pending /\ trees' = trees
      BY <2>4 DEF MarkerStarted, consumerVars
    <3> QED
      BY <1>1, <3>1, EventApart
  <2>5. CASE MarkerFinished(m)
    BY <2>1, <2>5, MarkerFinishedApart
  <2>6. CASE StartOutsideTrees(m) \/ StartDropsTree(m)
    <3>1. Started(m) /\ Receive
      BY <2>6 DEF StartOutsideTrees, StartDropsTree, Started
    <3>2. trees' = trees \/ \E roots, more : Drop(roots, more)
      BY <2>6 DEF StartOutsideTrees, StartDropsTree
    <3>3. TokensKept(trees', trees)
      BY <1>1, <3>2, DropDrops, FewerTokens
    <3> QED
      BY <3>1, <3>3, StartedWaits, EventApart
  <2>7. CASE StartJoinsTree(m)
    BY <2>1, <2>7, JoinApart
  <2>8. CASE FinishOutsideTrees(m)
    <3>1. Receive /\ pending' = pending /\ trees' = trees
      BY <2>8 DEF FinishOutsideTrees, Ended
    <3> QED
      BY <1>1, <3>1, EventApart
  <2>9. CASE FinishInTree(m) \/ FinishRoot(m)
    BY <2>1, <2>9, FinishApart
  <2> QED
    BY <1>3, <2>2, <2>3, <2>4, <2>5, <2>6, <2>7, <2>8, <2>9 DEF EventReceived
<1> QED
  BY <1>2, <1>3 DEF ConsumerNext

\* The server writes, with new tokens only.
LEMMA WritingApart ==
    ASSUME HolderInv, ConsumerInv, ApartInv, NewMarks, Ordered(parser', stream', issued'),
           issued' \in Nat, issued <= issued', UNCHANGED consumerVars
    PROVE  ApartInv'
<1> DEFINE n == issued'
           st1 == stream'
<1>1. issued \in Nat /\ NoToken \notin Nat
  BY ConsumerFacts
<1>2. /\ stream \in Seq(Messages(issued)) /\ st1 \in Seq(Messages(n)) /\ n \in Nat
      /\ \A a \in DOMAIN pending : pending[a] \in 1..issued
  BY DEF ConsumerInv, Ordered, Waiting
<1>3. Apart(stream, pending, trees) /\ TokensIn(trees, issued) /\ MarksOn(stream, st1, (issued + 1)..n)
  BY DEF ApartInv, NewMarks
<1>4. pending' = pending /\ trees' = trees
  BY DEF consumerVars
<1> HIDE DEF n, st1
<1>5. Apart(st1, pending, trees)
  BY <1>1, <1>2, <1>3, MarksApart
<1>6. TokensIn(trees, n)
  <2>1. 1..issued \subseteq 1..n
    BY <1>1, <1>2 DEF n
  <2> QED
    BY <1>3, <2>1 DEF TokensIn
<1> QED
  BY <1>4, <1>5, <1>6 DEF ApartInv, n, st1

LEMMA OverflowApart ==
    ASSUME HolderInv, ConsumerInv, ApartInv, ChannelOverflows
    PROVE  ApartInv'
<1> DEFINE i == Capacity + 1
           st1 == RemoveAt(stream, i)
           S == Messages(issued)
<1>1. /\ Len(stream) > Capacity /\ stream' = st1
      /\ issued' = issued /\ pending' = pending /\ trees' = trees
  BY DEF ChannelOverflows, EventDropped, regVars, consumerVars
<1>2. stream \in Seq(S)
  BY DEF ConsumerInv, Ordered
<1>3. i \in 1..Len(stream)
  <2>1. Len(stream) \in Nat
    BY <1>2
  <2> QED
    BY <1>1, <2>1, CapacityAssumption
<1> HIDE DEF i, S
<1>4. st1 \in Seq(S) /\ \E e : Left(st1, e, stream)
  BY <1>2, <1>3, RemovedLeft
<1> HIDE DEF st1
<1>5. Apart(st1, pending, trees)
  BY <1>2, <1>4, LeftApart DEF ApartInv
<1> QED
  BY <1>1, <1>5 DEF ApartInv

LEMMA ApartStep == HolderInv /\ ConsumerInv /\ ApartInv /\ [Next]_vars => ApartInv'
<1> SUFFICES ASSUME HolderInv, ConsumerInv, ApartInv, [Next]_vars PROVE ApartInv'
  OBVIOUS
<1>1. Ordered(parser, stream, issued)
  BY DEF ConsumerInv
<1>2. CASE ClientNext \/ StrayRecord \/ StreamEnds
  <2>1. UNCHANGED consumerVars
    BY <1>2 DEF ClientNext, StrayRecord, StreamEnds
  <2>2. ReadsOn /\ NewMarks
    BY <1>1, <1>2, ClientGrows, StrayGrows
  <2>3. Ordered(parser', stream', issued') /\ issued' \in Nat /\ issued <= issued'
    BY <2>2 DEF ReadsOn, Grows
  <2> QED
    BY <2>1, <2>2, <2>3, WritingApart
<1>3. CASE ConsumerNext
  BY <1>3, ConsumerApart
<1>4. CASE ChannelOverflows
  BY <1>4, OverflowApart
<1>5. CASE (\E t \in DOMAIN registrations : ScopeElapses(t)) \/ ShutdownBegins \/ UNCHANGED vars
  <2>1. UNCHANGED <<issued, streamVars, consumerVars>>
    BY <1>5 DEF ScopeElapses, Elapse, ShutdownBegins, BeginShutdown, vars, regVars
  <2>2. stream' = stream /\ issued' = issued /\ pending' = pending /\ trees' = trees
    BY <2>1 DEF streamVars, consumerVars
  <2> QED
    BY <2>2 DEF ApartInv
<1> QED
  BY <1>2, <1>3, <1>4, <1>5 DEF Next

LEMMA ApartStart == Init => ApartInv
  BY DEF Init, StreamInit, ConsumerInit, ApartInv, Apart, TokensIn

-----------------------------------------------------------------------------
(* Exported trees. *)

\* A client span is bound to one scope at most, and not to one whose tree was
\* exported; a tree hangs under a span that has ended, as the only one.
ExportInv ==
    /\ \A t, u \in DOMAIN registrations :
          registrations[t].parent = registrations[u].parent /\ registrations[t].parent # NoSpan => t = u
    /\ \A t \in DOMAIN registrations : registrations[t].parent # NoSpan =>
          \A x \in exported : x.parent # registrations[t].parent
    /\ \A x \in exported : x.parent \in clientSpans
    /\ \A x, y \in exported : x.parent = y.parent => x = y

\* What the consumer adds to the trees it has exported.
NewTreesHang ==
    /\ exported \subseteq exported'
    /\ \A x \in exported' \ exported :
          /\ x.parent \in clientSpans \ Promise!Parents(exported)
          /\ x.nodes # <<>>
          /\ \A y \in exported' : y.parent = x.parent => y = x

\* The trees of ts that are ready are exported, and their scopes removed.
Exports(ts) ==
    /\ \A t \in DOMAIN ts : ts[t].nodes # <<>>
    /\ \A t, u \in DOMAIN ts : ts[t].token = ts[u].token => t = u
    /\ exported' = exported \cup
          {Export(ts[t], registrations[ts[t].token].parent) : t \in Ready(registrations, ts)}
    /\ \A t \in Ready(registrations, ts) : ts[t].token \notin DOMAIN registrations'

LEMMA ExportsHang ==
    ASSUME SpansInv, ExportInv, NEW ts, Exports(ts), Within(registrations', registrations),
           clientSpans' = clientSpans
    PROVE  NewTreesHang /\ ExportInv'
<1> DEFINE r == registrations
           ready == Ready(r, ts)
           X(t) == Export(ts[t], r[ts[t].token].parent)
<1>1. \A t \in ready :
         /\ t \in DOMAIN ts
         /\ ts[t].token \in DOMAIN r /\ r[ts[t].token].parent # NoSpan
         /\ ts[t].token \notin DOMAIN registrations'
         /\ ts[t].nodes # <<>>
  BY DEF Ready, Live, Exports
<1>2. \A t : X(t).parent = r[ts[t].token].parent /\ X(t).nodes = ts[t].nodes
  BY DEF Export
<1>3. exported' = exported \cup {X(t) : t \in ready}
  BY DEF Exports
<1>4. \A t, u \in DOMAIN ts : ts[t].token = ts[u].token => t = u
  BY DEF Exports
<1>5. \A t, u \in DOMAIN r : r[t].parent = r[u].parent /\ r[t].parent # NoSpan => t = u
  BY DEF ExportInv
<1>6. \A t \in DOMAIN r : r[t].parent # NoSpan => \A x \in exported : x.parent # r[t].parent
  BY DEF ExportInv
<1>7. \A t \in DOMAIN r : r[t].parent \in clientSpans \cup {NoSpan}
  BY DEF SpansInv, BoundIn
<1> HIDE DEF X, ready, r
<1>8. ASSUME NEW t \in ready, NEW u \in ready, X(t).parent = X(u).parent
      PROVE  X(t) = X(u)
  <2>1. ts[t].token = ts[u].token
    BY <1>1, <1>2, <1>5, <1>8
  <2> QED
    BY <1>1, <1>4, <2>1
<1>9. ASSUME NEW x \in exported' \ exported
      PROVE  /\ x.parent \in clientSpans /\ x.nodes # <<>>
             /\ \A y \in exported : y.parent # x.parent
             /\ \A y \in exported' : y.parent = x.parent => y = x
  <2>1. PICK t \in ready : x = X(t)
    BY <1>3, <1>9
  <2>2. x.parent \in clientSpans /\ x.nodes # <<>> /\ \A y \in exported : y.parent # x.parent
    BY <1>1, <1>2, <1>6, <1>7, <2>1
  <2>3. \A y \in exported' : y.parent = x.parent => y = x
    BY <1>3, <1>8, <2>1, <2>2
  <2> QED
    BY <2>2, <2>3
<1>10. NewTreesHang
  <2>1. \A x \in exported' \ exported : x.parent \notin Promise!Parents(exported)
    BY <1>9 DEF Promise!Parents
  <2>2. exported \subseteq exported'
    BY <1>3
  <2> QED
    BY <1>9, <2>1, <2>2 DEF NewTreesHang
<1>11. /\ \A t \in DOMAIN registrations' : t \in DOMAIN r /\ registrations'[t].parent = r[t].parent
  BY DEF Within, r
<1>12. ASSUME NEW t \in DOMAIN registrations', registrations'[t].parent # NoSpan, NEW x \in exported'
       PROVE  x.parent # registrations'[t].parent
  <2>1. CASE x \in exported
    BY <1>6, <1>11, <1>12, <2>1
  <2>2. CASE x \notin exported
    <3>1. PICK u \in ready : x = X(u)
      BY <1>3, <2>2
    <3>2. t # ts[u].token
      BY <1>1
    <3> QED
      BY <1>1, <1>2, <1>5, <1>11, <1>12, <3>1, <3>2
  <2> QED
    BY <2>1, <2>2
<1>13. \A x \in exported' : x.parent \in clientSpans
  BY <1>9 DEF ExportInv
<1>14. \A x, y \in exported' : x.parent = y.parent => x = y
  BY <1>9 DEF ExportInv
<1>15. \A t, u \in DOMAIN registrations' :
          registrations'[t].parent = registrations'[u].parent /\ registrations'[t].parent # NoSpan => t = u
  BY <1>5, <1>11
<1>16. ExportInv'
  BY <1>12, <1>13, <1>14, <1>15 DEF ExportInv
<1> QED
  BY <1>10, <1>16

LEMMA FlushExports ==
    ASSUME NEW ts, NEW fs, NEW looked, FlushOf(ts, fs, looked),
           \A t \in DOMAIN ts : ts[t].nodes # <<>>,
           \A t, u \in DOMAIN ts : ts[t].token = ts[u].token => t = u
    PROVE  Exports(ts)
<1> DEFINE ready == Ready(registrations, ts)
           T == {ts[t].token : t \in Gone(registrations, ts) \cup ready}
<1>1. /\ exported' = exported \cup {Export(ts[t], registrations[ts[t].token].parent) : t \in ready}
      /\ registrations' = LookedUp(Without(registrations, T), looked)
  BY DEF FlushOf
<1>2. \A t \in ready : ts[t].token \in T
  OBVIOUS
<1> HIDE DEF ready, T
<1>3. DOMAIN registrations' \cap T = {}
  BY <1>1 DEF LookedUp, Without
<1>4. \A t \in ready : ts[t].token \notin DOMAIN registrations'
  BY <1>2, <1>3
<1> QED
  BY <1>1, <1>4 DEF Exports, ready

LEMMA ConsumerExports ==
    ASSUME Rooted(trees), ApartInv, ConsumerNext
    PROVE  exported' = exported \/ \E ts : Exports(ts)
<1>1. \A t \in DOMAIN trees : trees[t] \in Trees /\ trees[t].nodes # <<>>
  BY DEF Rooted, IsTree
<1>2. \A t, u \in DOMAIN trees : trees[t].token = trees[u].token => t = u
  BY DEF ApartInv, Apart
<1>3. CASE Flush \/ Tick
  <2>1. PICK looked : FlushOf(trees, frames, looked)
    BY <1>3 DEF Flush, Tick
  <2> QED
    BY <1>1, <1>2, <2>1, FlushExports
<1>4. CASE ConsumerEnds
  <2>1. DOMAIN registrations' = {}
    BY <1>4 DEF ConsumerEnds
  <2>2. Exports(trees)
    BY <1>1, <1>2, <1>4, <2>1 DEF ConsumerEnds, Exports
  <2> QED
    BY <2>2
<1>5. CASE EventReceived
  <2> DEFINE m == Head(stream)
  <2>1. CASE FinishRoot(m)
    <3> DEFINE s == m.event.sequence
               tree == [trees[s] EXCEPT !.finished = @ \cup {s}, !.complete = TRUE,
                                        !.tainted = @ \/ m.event.incomplete]
               ts == [trees EXCEPT ![s] = tree]
               fs == Except(frames, {s})
               none == {}
    <3>1. FlushOf(ts, fs, none)
      BY <2>1 DEF FinishRoot
    <3>2. s \in DOMAIN trees => tree.nodes = trees[s].nodes /\ tree.token = trees[s].token
      BY <1>1 DEF Trees
    <3> HIDE DEF tree, s
    <3>3. DOMAIN ts = DOMAIN trees /\ \A t \in DOMAIN ts : ts[t].nodes = trees[t].nodes /\ ts[t].token = trees[t].token
      BY <3>2
    <3> HIDE DEF ts, fs, none
    <3>4. Exports(ts)
      BY <1>1, <1>2, <3>1, <3>3, FlushExports
    <3> QED
      BY <3>4
  <2>2. CASE GapReceived(m) \/ MarkerUnmatched(m) \/ Unidentified(m) \/ StartDropsTree(m)
    BY <2>2 DEF GapReceived, Invalidate, MarkerUnmatched, Unidentified, InvalidateAttachment,
                StartDropsTree, Drop
  <2>3. CASE MarkerStarted(m) \/ MarkerFinished(m)
    BY <2>3 DEF MarkerStarted, MarkerFinished, consumerVars
  <2>4. CASE \/ StartOutsideTrees(m) \/ StartJoinsTree(m) \/ FinishOutsideTrees(m) \/ FinishInTree(m)
    BY <2>4 DEF StartOutsideTrees, StartJoinsTree, FinishOutsideTrees, FinishInTree
  <2> QED
    BY <1>5, <2>1, <2>2, <2>3, <2>4 DEF EventReceived
<1> QED
  BY <1>3, <1>4, <1>5 DEF ConsumerNext

\* No tree is exported, and one scope at most is bound, to a span that ends now.
LEMMA ClientExports ==
    ASSUME SpansInv, ExportInv, Binding, exported' = exported, clientSpans \subseteq clientSpans'
    PROVE  ExportInv'
<1>1. CASE Unbinding(registrations', registrations)
  <2>1. \A t \in DOMAIN registrations' : registrations'[t].parent = NoSpan
           \/ (t \in DOMAIN registrations /\ registrations'[t].parent = registrations[t].parent)
    BY <1>1 DEF Unbinding
  <2> QED
    BY <2>1 DEF ExportInv
<1>2. CASE \E t, o : BindsAt(t, o)
  <2>1. PICK t, o : BindsAt(t, o)
    BY <1>2
  <2>2. /\ o \notin clientSpans
        /\ \A u \in DOMAIN registrations' :
              \/ u = t /\ registrations'[u].parent = o
              \/ u # t /\ u \in DOMAIN registrations /\ registrations'[u].parent = registrations[u].parent
    BY <2>1 DEF BindsAt
  <2>3. \A u \in DOMAIN registrations : registrations[u].parent \in clientSpans \cup {NoSpan}
    BY DEF SpansInv, BoundIn
  <2>4. \A x \in exported : x.parent \in clientSpans
    BY DEF ExportInv
  <2>5. \A u, v \in DOMAIN registrations' :
           registrations'[u].parent = registrations'[v].parent /\ registrations'[u].parent # NoSpan => u = v
    BY <2>2, <2>3 DEF ExportInv
  <2>6. \A u \in DOMAIN registrations' : registrations'[u].parent # NoSpan =>
           \A x \in exported : x.parent # registrations'[u].parent
    BY <2>2, <2>4 DEF ExportInv
  <2> QED
    BY <2>4, <2>5, <2>6 DEF ExportInv
<1> QED
  BY <1>1, <1>2 DEF Binding

\* What every step keeps, and what the trees rest on.
Attached == HolderInv /\ ClientTypes /\ SpansInv /\ ConsumerInv /\ TreeInv /\ ApartInv /\ ExportInv

LEMMA ExportStep ==
    ASSUME Attached, [Next]_vars
    PROVE  ExportInv' /\ (exported' = exported \/ (clientSpans' = clientSpans /\ NewTreesHang))
<1>1. /\ HolderInv /\ CallsCounted /\ SpansInv /\ ApartInv /\ ExportInv
      /\ Rooted(trees)
  BY DEF Attached, ClientTypes, ConsumerInv
<1>2. Binding /\ (clientSpans' = clientSpans \/ \E g \in Callers : Ending(g))
  BY <1>1, SpansStep
<1>3. clientSpans \subseteq clientSpans'
  BY <1>2 DEF Ending
<1>4. ASSUME exported' = exported
      PROVE  ExportInv'
  BY <1>1, <1>2, <1>3, <1>4, ClientExports
<1>5. CASE ConsumerNext
  <2>1. clientSpans' = clientSpans
    BY <1>5 DEF ConsumerNext, clientVars
  <2>2. Within(registrations', registrations)
    BY <1>1, <1>5, ConsumerShrinks DEF ConsumerNext
  <2>3. CASE \E ts : Exports(ts)
    <3>1. PICK ts : Exports(ts)
      BY <2>3
    <3>2. NewTreesHang /\ ExportInv'
      BY <1>1, <2>1, <2>2, <3>1, ExportsHang
    <3> QED
      BY <2>1, <3>2
  <2> QED
    BY <1>1, <1>4, <1>5, <2>3, ConsumerExports
<1>6. CASE ~ ConsumerNext
  <2>1. exported' = exported
    BY <1>6 DEF Next, ClientNext, StrayRecord, StreamEnds, ChannelOverflows, ShutdownBegins, ScopeElapses,
                vars, consumerVars
  <2> QED
    BY <1>4, <2>1
<1> QED
  BY <1>5, <1>6

LEMMA AttachedStart == Init => Attached
<1>1. Init => ExportInv
  BY DEF Init, ClientInit, ConsumerInit, ExportInv
<1> QED
  BY <1>1, HolderInit, ClientTypesStart, SpansStart, ConsumerStarts, ApartStart DEF Attached

LEMMA AttachedStep == Attached /\ [Next]_vars => Attached'
  BY HolderStep, ClientTypesStep, SpansStep, ConsumerStep, ApartStep, ExportStep DEF Attached, ClientTypes

LEMMA AttachedInvariant == Spec => []Attached
  BY AttachedStart, AttachedStep, PTL DEF Spec

\* A client operation gets one tree of server spans at most, whatever is late,
\* lost or damaged: a token is bound to one span (Bind removes an unfinished
\* call's scope, scopeFor issues a token once), only one tree carries it (the
\* marker's record is written once), and exportTree forgets the scope with it.
OneTreePerSpan == \A x, y \in exported : x.parent = y.parent => x = y

THEOREM SpansGetOneTree == Spec => []OneTreePerSpan
<1>1. Attached => OneTreePerSpan
  BY DEF Attached, ExportInv, OneTreePerSpan
<1> QED
  BY <1>1, AttachedInvariant, PTL

\* A step ends the span of one operation that has none, or adds trees under
\* spans that have ended and have no tree, or does neither.
SpansBeforeTrees ==
    \/ UNCHANGED <<clientSpans, exported>>
    \/ \E o \in 1..MaxOps : Promise!SpanEnds(o)
    \/ clientSpans' = clientSpans /\ NewTreesHang

LEMMA SpansComeFirst == Attached /\ [Next]_vars => [SpansBeforeTrees]_vars
<1> SUFFICES ASSUME Attached, [Next]_vars
             PROVE  SpansBeforeTrees
  OBVIOUS
<1>1. CASE clientSpans' # clientSpans
  <2>1. PICK g \in Callers : UNCHANGED consumerVars /\ Ending(g)
    BY <1>1, SpansStep DEF Attached, ClientTypes
  <2>2. Promise!SpanEnds(caller[g].op) /\ caller[g].op \in 1..MaxOps
    BY <1>1, <2>1 DEF Ending, Promise!SpanEnds, consumerVars
  <2> QED
    BY <2>2 DEF SpansBeforeTrees
<1>2. CASE clientSpans' = clientSpans
  BY <1>2, ExportStep DEF SpansBeforeTrees
<1> QED
  BY <1>1, <1>2

\* The promise of ServerSpans but for whose work a tree shows, for every
\* configuration and all that may be dropped: the span of an operation ends once
\* (finish, whichever of the calls of database/sql it was), a tree is only ever
\* attached to a span that has ended, was recorded and has no tree (Bind before
\* exportTree), is never empty and is never taken back.
THEOREM TreesFollowSpans == Spec => [][SpansBeforeTrees]_vars
  BY AttachedInvariant, SpansComeFirst, PTL DEF Spec

\* What shared activity and lost records can spoil: every statement and procedure
\* of a tree was executed for the operation it hangs under (TreePurity, with
\* nothing excepted).
OwnWork == \A x \in exported : \A i \in DOMAIN x.nodes : x.nodes[i].owner = x.parent

\* As long as no tree shows foreign work the path from the client's calls to the
\* exported trees implements the promise made to readers of traces: everything
\* else that ServerSpans says is kept by every behaviour.
THEOREM PureTreesImplement == Spec /\ []OwnWork => ImplementsServerSpans
<1>1. Init => Promise!AbstractInit
  BY DEF Init, ClientInit, ConsumerInit, Promise!AbstractInit
<1>2. OwnWork' /\ [SpansBeforeTrees]_vars => [Promise!AbstractNext]_<<clientSpans, exported>>
  <2> SUFFICES ASSUME OwnWork', SpansBeforeTrees, ~ UNCHANGED <<clientSpans, exported>>
               PROVE  Promise!AbstractNext
    BY DEF vars, clientVars, consumerVars
  <2>1. CASE \E o \in 1..MaxOps : Promise!SpanEnds(o)
    BY <2>1 DEF Promise!AbstractNext
  <2>2. CASE clientSpans' = clientSpans /\ NewTreesHang
    <3>1. \A x \in exported' : \A i \in DOMAIN x.nodes : x.nodes[i].owner = x.parent
      BY DEF OwnWork
    <3>2. Promise!TreesAttached
      BY <2>2, <3>1 DEF NewTreesHang, Promise!TreesAttached, Promise!Shows
    <3> QED
      BY <3>2 DEF Promise!AbstractNext
  <2> QED
    BY <2>1, <2>2 DEF SpansBeforeTrees
<1> QED
  BY <1>1, <1>2, TreesFollowSpans, PTL DEF Spec, ImplementsServerSpans, Promise!AbstractSpec
=============================================================================
