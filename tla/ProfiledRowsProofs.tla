------------------------- MODULE ProfiledRowsProofs -------------------------
(***************************************************************************)
(* Theorems about the calls that share a pool: their profiler sessions,    *)
(* the profiles these leave, and the outcome of their rows, for any number *)
(* of connections, calls, sessions and failures.                           *)
(***************************************************************************)
EXTENDS ProfiledRows, TLAPS

\* What the server may hold for an attachment, and the sessions in it.
Attached == [current : {NoSession} \cup Sessions, ended : SUBSET Sessions]

Kept(a) == a.ended \cup Current(a)

Busy(o) == op[o].pc \notin {"idle", "done"}

Typed ==
    /\ config \in Configs
    /\ op \in [Ops -> OpState]
    /\ attachment \in [Connections -> Attached]
    /\ tx \in [Connections -> {"none", "open", "ended"}]
    /\ dirty \in [Connections -> BOOLEAN]
    /\ started \in 0..MaxSessions
    /\ stored \subseteq Sessions /\ troubled \subseteq Sessions

\* Rows are open, or being closed, during their call.
RowsOK ==
    /\ rows \in [Ops -> RowsState]
    /\ \A o \in Ops : rows[o].pc \in {"open", "checking"} => op[o].pc = "rows"

\* A call outside of a transaction has its connection to itself.
Leased ==
    \A o \in Ops : Busy(o) =>
        IF op[o].tx THEN tx[op[o].conn] = "open"
        ELSE /\ tx[op[o].conn] # "open"
             /\ \A p \in Ops : Busy(p) /\ op[p].conn = op[o].conn => p = o

\* o has still to end the session, or it will make its connection dirty.
Answers(o, s) ==
    /\ op[o].session = s
    /\ \/ op[o].pc \in {"rows", "finishing"}
       \/ op[o].pc \in {"cancelling", "reporting", "deleting"} /\ s \in troubled

\* A session on a connection that is not dirty is the business of a call there.
Owned ==
    \A c \in Connections : ~ dirty[c] =>
        \A s \in Kept(attachment[c]) : \E o \in Ops : op[o].conn = c /\ Answers(o, s)

DirtyIsLeased ==
    config.validator => \A c \in Connections : dirty[c] => ~ Free(c)

\* The sessions the server holds or has stored are those of calls in progress,
\* or have seen a failure.
Known ==
    /\ \A c \in Connections : Kept(attachment[c]) \subseteq Held \cup troubled
    /\ stored \subseteq Held \cup troubled

\* What a call knows of its session.
SessionOK ==
    \A o \in Ops :
       /\ op[o].session \in 0..started
       /\ op[o].pc = "idle" => op[o].session = NoSession
       /\ op[o].pc \in Stages => op[o].session # NoSession
       /\ op[o].pc = "cancelling" => op[o].session \in troubled
       /\ \A c \in Connections : op[o].session \in Kept(attachment[c]) =>
             /\ c = op[o].conn
             /\ op[o].pc \in {"reporting", "deleting"} => op[o].session \in troubled

\* Sessions are numbered in the order in which they start.
Numbered == \A c \in Connections : Kept(attachment[c]) \subseteq 1..started

\* The inductive invariant.  ReusableIsClean speaks of free connections only:
\* before one is free, Owned says who will end each of its sessions, and
\* DirtyIsLeased that what was not ended has been seen.
LeaseInv ==
    /\ Typed /\ RowsOK /\ Leased /\ Owned /\ DirtyIsLeased
    /\ Known /\ SessionOK /\ Numbered

-----------------------------------------------------------------------------
(* Attachments. *)

LEMMA NewKept ==
    /\ NewAttachment \in Attached
    /\ Kept(NewAttachment) = {}
    /\ \A a \in Attached : Kept(a) = {} => a = NewAttachment
<1>1. NewAttachment \in Attached /\ Kept(NewAttachment) = {}
  BY DEF NewAttachment, Attached, Kept, Current
<1>2. ASSUME NEW a \in Attached, Kept(a) = {} PROVE a = NewAttachment
  <2>1. a.ended = {} /\ a.current = NoSession
    BY <1>2 DEF Kept, Current
  <2> QED
    BY <1>2, <2>1 DEF Attached, NewAttachment
<1> QED
  BY <1>1, <1>2

LEMMA StartKept ==
    ASSUME NEW a \in Attached, NEW s \in Sessions
    PROVE  AfterStart(a, s) \in Attached /\ Kept(AfterStart(a, s)) = Kept(a) \cup {s}
<1>1. s # NoSession
  BY SessionsAssumption DEF Sessions, NoSession
<1> QED
  BY <1>1 DEF AfterStart, Attached, Kept, Current

LEMMA CancelKept ==
    ASSUME NEW a \in Attached
    PROVE  AfterCancel(a) \in Attached /\ Kept(AfterCancel(a)) \subseteq Kept(a)
  BY DEF AfterCancel, Attached, Kept, Current

LEMMA SkipKept ==
    ASSUME NEW a \in Attached, NEW s \in Sessions, s \notin Kept(a)
    PROVE  Kept(AfterCancel(AfterStart(a, s))) = Kept(a)
  BY DEF AfterCancel, AfterStart, Attached, Kept, Current

\* A start leaves its session behind unless it is cancelled.
LEMMA StartedKept ==
    ASSUME NEW a \in Attached, NEW s \in Sessions, NEW so \in Outcomes, NEW co \in Outcomes
    PROVE  /\ Started(a, s, so, co) \in Attached
           /\ Kept(Started(a, s, so, co)) \subseteq Kept(a) \cup {s}
           /\ so = "ok" => Started(a, s, so, co) = AfterStart(a, s)
<1>1. AfterStart(a, s) \in Attached /\ Kept(AfterStart(a, s)) = Kept(a) \cup {s}
  BY StartKept
<1>2. /\ AfterCancel(AfterStart(a, s)) \in Attached /\ AfterCancel(a) \in Attached
      /\ Kept(AfterCancel(AfterStart(a, s))) \subseteq Kept(AfterStart(a, s))
      /\ Kept(AfterCancel(a)) \subseteq Kept(a)
  BY <1>1, CancelKept
<1> QED
  BY <1>1, <1>2 DEF Started, Outcomes, Executed

-----------------------------------------------------------------------------
(* The rows. *)

LEMMA RowsStayTyped ==
    ASSUME NEW r \in RowsState
    PROVE  /\ \A k \in Causes : /\ Callback(r, k) \in RowsState
                               /\ Callback(r, k).pc = r.pc
           /\ \A a \in {"row", "set", "end", "error"} :
                 Fetched(r, a) \in RowsState /\ Fetched(r, a).pc = r.pc
           /\ \A e \in {"none", "error"}, done \in SUBSET Causes :
                 CloseBegun(r, e, done) \in RowsState /\ CloseBegun(r, e, done).pc = "checking"
           /\ \A k \in Causes, done \in SUBSET Causes : r.check <= 2 =>
                 Checked(r, k, done) \in RowsState /\ Checked(r, k, done).pc = r.pc
           /\ Closed(r) \in RowsState /\ Closed(r).pc = "closed"
<1>1. ASSUME NEW k \in Causes PROVE Callback(r, k) \in RowsState /\ Callback(r, k).pc = r.pc
  <2>1. [r.signal EXCEPT ![k] = "sent"] \in [Causes -> Signals]
    BY DEF RowsState, Signals
  <2>2. Callback(r, k) = [r EXCEPT !.signal = [r.signal EXCEPT ![k] = "sent"]]
    BY DEF Callback, RowsState
  <2> QED
    BY <2>1, <2>2 DEF RowsState
<1>2. ASSUME NEW a \in {"row", "set", "end", "error"}
      PROVE  Fetched(r, a) \in RowsState /\ Fetched(r, a).pc = r.pc
  BY DEF Fetched, RowsState, Errors
<1>3. ASSUME NEW e \in {"none", "error"}, NEW done \in SUBSET Causes
      PROVE  CloseBegun(r, e, done) \in RowsState /\ CloseBegun(r, e, done).pc = "checking"
  <2> DEFINE due == {k \in done : r.signal[k] # "absent"}
         q == [r EXCEPT !.pc = "checking", !.closeErr = e, !.observed = r.nextErr]
         p == [q EXCEPT !.check = 1]
  <2>1. due \in SUBSET Causes /\ e \in Errors /\ 1 \in 1..3
    BY DEF Errors
  <2>2. r.nextErr \in Errors
    BY DEF RowsState
  <2>3. q \in RowsState /\ q.pc = "checking"
    BY <2>1, <2>2 DEF RowsState
  <2>4. p \in RowsState /\ p.pc = "checking"
    <3> HIDE DEF q
    <3> QED
      BY <2>1, <2>3 DEF RowsState
  <2>5. CloseBegun(r, e, done) = [p EXCEPT !.due = due]
    BY DEF CloseBegun
  <2> HIDE DEF due, p
  <2> QED
    BY <2>1, <2>4, <2>5 DEF RowsState
<1>4. ASSUME NEW k \in Causes, NEW done \in SUBSET Causes, r.check <= 2
      PROVE  Checked(r, k, done) \in RowsState /\ Checked(r, k, done).pc = r.pc
  <2> DEFINE seen == IF k \in done /\ ~ r.eof /\ r.observed = "none" /\ r.signal[k] = "sent"
                     THEN "canceled" ELSE r.observed
             sig  == [r.signal EXCEPT ![k] = "absent"]
  <2>1. sig \in [Causes -> Signals]
    BY DEF RowsState, Signals
  <2>3. seen \in Errors
    BY DEF RowsState, Errors
  <2>4. r.check + 1 \in 1..3
    <3>1. r.check \in 1..3
      BY DEF RowsState
    <3> QED
      BY <1>4, <3>1
  <2>2. Checked(r, k, done) = [r EXCEPT !.observed = seen, !.signal = sig, !.check = r.check + 1]
    BY DEF Checked, RowsState
  <2> HIDE DEF seen, sig
  <2> QED
    BY <2>1, <2>2, <2>3, <2>4 DEF RowsState
<1>5. Closed(r) \in RowsState /\ Closed(r).pc = "closed"
  <2>1. Outcome(r) \in {"eof", "early_close", "transaction_close_unknown", "error", "canceled"}
    BY DEF Outcome, RowsState, Errors
  <2> QED
    BY <2>1 DEF Closed, RowsState
<1> QED
  BY <1>1, <1>2, <1>3, <1>4, <1>5

-----------------------------------------------------------------------------
(* Steps of a call that goes on with the same connection and session. *)

\* The call o goes on at another place of the driver call.
GoesOn(o, v) ==
    /\ v \in OpState
    /\ v.pc \notin {"idle", "done"}
    /\ v.conn = op[o].conn /\ v.tx = op[o].tx /\ v.session = op[o].session
    /\ op' = [op EXCEPT ![o] = v]

LEMMA GoesOnKeepsLeases ==
    ASSUME LeaseInv, NEW o \in Ops, NEW v, Busy(o), GoesOn(o, v), UNCHANGED <<tx, config>>
    PROVE  /\ op' \in [Ops -> OpState]
           /\ \A p \in Ops : op'[p] = IF p = o THEN v ELSE op[p]
           /\ Leased'
           /\ \A c \in Connections : Free(c)' <=> Free(c)
<1>1. op' \in [Ops -> OpState] /\ \A p \in Ops : op'[p] = IF p = o THEN v ELSE op[p]
  BY DEF GoesOn, LeaseInv, Typed
<1>2. \A p \in Ops : /\ op'[p].conn = op[p].conn /\ op'[p].tx = op[p].tx
                     /\ (op'[p].pc \notin {"idle", "done"}) <=> (op[p].pc \notin {"idle", "done"})
  BY <1>1 DEF GoesOn, Busy
<1>3. Leased'
  BY <1>2 DEF Leased, LeaseInv, Busy
<1>4. \A c \in Connections : On(c)' = On(c)
  BY <1>2 DEF On
<1> QED
  BY <1>1, <1>3, <1>4 DEF Free

\* Its session is held as long as it has not finished.
LEMMA GoesOnHolds ==
    ASSUME LeaseInv, NEW o \in Ops, NEW v, GoesOn(o, v)
    PROVE  /\ Held \subseteq Held' \cup {op[o].session}
           /\ v.pc # "returning" => Held \subseteq Held'
<1>1. \A p \in Ops : op'[p] = IF p = o THEN v ELSE op[p]
  BY DEF GoesOn, LeaseInv, Typed
<1>2. ASSUME NEW s \in Held
      PROVE  (s # op[o].session => s \in Held') /\ (v.pc # "returning" => s \in Held')
  <2>1. PICK p \in Ops : op[p].pc \notin {"returning", "done"} /\ s = op[p].session
    BY DEF Held
  <2>2. CASE p = o
    BY <1>1, <2>1, <2>2 DEF Held, GoesOn
  <2>3. CASE p # o
    BY <1>1, <2>1, <2>3 DEF Held
  <2> QED
    BY <2>2, <2>3
<1> QED
  BY <1>2

-----------------------------------------------------------------------------
(* One lemma for each step that touches a session. *)

LEMMA CloseEndsKeeps ==
    ASSUME LeaseInv, NEW o \in Ops, CloseEnds(o)
    PROVE  LeaseInv'
<1> DEFINE pc == IF op[o].session = NoSession THEN "returning" ELSE "finishing"
           v == [op[o] EXCEPT !.pc = pc]
<1>1. op[o].pc = "rows" /\ op[o] \in OpState
  BY DEF LeaseInv, RowsOK, Typed, CloseEnds
<1>2. v \in OpState /\ v.pc = pc /\ v.conn = op[o].conn /\ v.tx = op[o].tx
      /\ v.session = op[o].session /\ pc \in {"returning", "finishing"}
  BY <1>1 DEF OpState, Stages
<1>3. GoesOn(o, v) /\ Busy(o)
  BY <1>1, <1>2 DEF GoesOn, Busy, CloseEnds
<1>4. UNCHANGED <<config, tx, attachment, stored, started, dirty, troubled>>
  BY DEF CloseEnds, profilerVars
<1>5. /\ op' \in [Ops -> OpState]
      /\ \A p \in Ops : op'[p] = IF p = o THEN v ELSE op[p]
      /\ Leased'
      /\ \A c \in Connections : Free(c)' <=> Free(c)
  BY <1>3, <1>4, GoesOnKeepsLeases
<1>6. Held \subseteq Held' \cup {NoSession}
  BY <1>2, <1>3, GoesOnHolds
<1>7. Typed' /\ DirtyIsLeased' /\ Numbered'
  BY <1>4, <1>5 DEF LeaseInv, Typed, DirtyIsLeased, Numbered
<1>8. RowsOK'
  <2>1. Closed(rows[o]) \in RowsState /\ Closed(rows[o]).pc = "closed"
    BY RowsStayTyped DEF LeaseInv, RowsOK
  <2>2. rows' = [rows EXCEPT ![o] = Closed(rows[o])]
    BY DEF CloseEnds
  <2> QED
    BY <1>5, <2>1, <2>2 DEF LeaseInv, RowsOK
<1>9. Owned'
  <2> SUFFICES ASSUME NEW c \in Connections, ~ dirty[c], NEW s \in Kept(attachment[c])
               PROVE  \E q \in Ops : op'[q].conn = c /\ Answers(q, s)'
    BY <1>4 DEF Owned
  <2>1. PICK q \in Ops : op[q].conn = c /\ Answers(q, s)
    BY DEF LeaseInv, Owned
  <2>2. s # NoSession
    BY <1>4 DEF LeaseInv, Typed, Kept, Current, Attached, Sessions, NoSession
  <2> QED
    BY <1>1, <1>2, <1>4, <1>5, <2>1, <2>2 DEF Answers
<1>10. Known'
  BY <1>4, <1>6 DEF LeaseInv, Known, Typed, Kept, Current, Attached, Sessions, NoSession
<1>11. SessionOK'
  <2> SUFFICES ASSUME NEW q \in Ops
               PROVE  /\ op'[q].session \in 0..started
                      /\ op'[q].pc = "idle" => op'[q].session = NoSession
                      /\ op'[q].pc \in Stages => op'[q].session # NoSession
                      /\ op'[q].pc = "cancelling" => op'[q].session \in troubled
                      /\ \A c \in Connections : op'[q].session \in Kept(attachment[c]) =>
                            /\ c = op'[q].conn
                            /\ op'[q].pc \in {"reporting", "deleting"} => op'[q].session \in troubled
    BY <1>4 DEF SessionOK
  <2>1. CASE q # o
    BY <1>5, <2>1 DEF LeaseInv, SessionOK
  <2>2. CASE q = o
    <3>1. op'[q].session = op[o].session /\ op'[q].conn = op[o].conn /\ op'[q].pc = pc
      BY <1>2, <1>5, <2>2
    <3>2. pc \in Stages => op[o].session # NoSession
      BY DEF Stages
    <3> QED
      BY <1>2, <3>1, <3>2 DEF LeaseInv, SessionOK
  <2> QED
    BY <2>1, <2>2
<1> QED
  BY <1>5, <1>7, <1>8, <1>9, <1>10, <1>11 DEF LeaseInv

\* The call o in one of the stages goes on to the place pc.
Place(o, pc, n, f) == [op[o] EXCEPT !.pc = pc, !.attempt = n, !.finish = f]

\* A stage: no attachment gains a session, and only the call's own connection
\* may become dirty.
StageStep(o, pc, n, f) ==
    /\ pc \in Stages \cup {"returning"} /\ n \in 1..MaxAttempts /\ f \in {"none"} \cup Outcomes
    /\ op[o].pc \in Stages
    /\ op' = [op EXCEPT ![o] = Place(o, pc, n, f)]
    /\ UNCHANGED <<config, rows, tx, started>>
    /\ attachment' \in [Connections -> Attached]
    /\ \A c \in Connections : Kept(attachment'[c]) \subseteq Kept(attachment[c])
    /\ dirty' \in [Connections -> BOOLEAN]
    /\ \A c \in Connections : dirty[c] => dirty'[c]
    /\ \A c \in Connections : dirty'[c] => dirty[c] \/ c = op[o].conn
    /\ stored' \subseteq Sessions /\ troubled' \subseteq Sessions /\ troubled \subseteq troubled'

LEMMA StageKeeps ==
    ASSUME LeaseInv, NEW o \in Ops, NEW pc, NEW n, NEW f, StageStep(o, pc, n, f)
    PROVE  /\ op[o].session \in Sessions /\ op[o].conn \in Connections
           /\ Place(o, pc, n, f).pc = pc
           /\ Place(o, pc, n, f).conn = op[o].conn /\ Place(o, pc, n, f).session = op[o].session
           /\ GoesOn(o, Place(o, pc, n, f))
           /\ \A q \in Ops : op'[q] = IF q = o THEN Place(o, pc, n, f) ELSE op[q]
           /\ Typed' /\ RowsOK' /\ Leased' /\ DirtyIsLeased' /\ Numbered'
<1> DEFINE v == Place(o, pc, n, f)
<1>1. op[o] \in OpState /\ op[o].pc \in Stages
  BY DEF LeaseInv, Typed, StageStep
<1>2. v \in OpState
  <2>1. pc \in {"idle", "rows", "returning", "done"} \cup Stages /\ n \in 1..MaxAttempts
        /\ f \in {"none"} \cup Outcomes
    BY DEF Stages, StageStep
  <2> QED
    BY <1>1, <2>1 DEF OpState, Place
<1>3. v.pc = pc /\ v.conn = op[o].conn /\ v.tx = op[o].tx /\ v.session = op[o].session
  BY <1>1 DEF OpState, Place
<1>4. pc \notin {"idle", "done"} /\ op[o].pc \notin {"idle", "done", "rows"}
  BY <1>1 DEF Stages, StageStep
<1> HIDE DEF v
<1>5. GoesOn(o, v) /\ Busy(o)
  BY <1>2, <1>3, <1>4 DEF GoesOn, Busy, StageStep, v
<1>6. /\ op' \in [Ops -> OpState]
      /\ \A q \in Ops : op'[q] = IF q = o THEN v ELSE op[q]
      /\ Leased'
      /\ \A c \in Connections : Free(c)' <=> Free(c)
  BY <1>5, GoesOnKeepsLeases DEF StageStep
<1>7. op[o].session \in Sessions /\ op[o].conn \in Connections
  <2>1. op[o].session \in {NoSession} \cup Sessions /\ op[o].conn \in Connections
    BY <1>1 DEF OpState
  <2>2. op[o].session # NoSession
    BY <1>1 DEF LeaseInv, SessionOK
  <2> QED
    BY <2>1, <2>2
<1>8. Typed'
  BY <1>6 DEF LeaseInv, Typed, StageStep
<1>9. RowsOK'
  BY <1>4, <1>6 DEF LeaseInv, RowsOK, StageStep
<1>10. DirtyIsLeased'
  <2>1. ~ Free(op[o].conn)
    BY <1>5 DEF Free, On, Busy
  <2> QED
    BY <1>6, <2>1 DEF LeaseInv, DirtyIsLeased, StageStep
<1>11. Numbered'
  BY DEF LeaseInv, Numbered, StageStep
<1> QED
  BY <1>3, <1>5, <1>6, <1>7, <1>8, <1>9, <1>10, <1>11 DEF v

\* Its sessions are still its own: what a stage must do for Owned and SessionOK.
LEMMA StageKeepsSessions ==
    ASSUME LeaseInv, NEW o \in Ops, NEW pc, NEW n, NEW f, StageStep(o, pc, n, f),
           pc = "cancelling" => op[o].session \in troubled',
           \A c \in Connections : op[o].session \in Kept(attachment'[c]) =>
              /\ op[o].session \in troubled'
              /\ pc = "returning" => dirty'[c]
    PROVE  Owned' /\ SessionOK'
<1> DEFINE s0 == op[o].session
<1>1. /\ s0 \in Sessions
      /\ Place(o, pc, n, f).pc = pc
      /\ Place(o, pc, n, f).conn = op[o].conn /\ Place(o, pc, n, f).session = s0
      /\ \A q \in Ops : op'[q] = IF q = o THEN Place(o, pc, n, f) ELSE op[q]
  BY StageKeeps
<1>2. troubled \subseteq troubled' /\ started' = started
      /\ \A c \in Connections : /\ Kept(attachment'[c]) \subseteq Kept(attachment[c])
                                /\ dirty[c] => dirty'[c]
  BY DEF StageStep
<1>3. Owned'
  <2> SUFFICES ASSUME NEW c \in Connections, ~ dirty'[c], NEW s \in Kept(attachment'[c])
               PROVE  \E q \in Ops : op'[q].conn = c /\ Answers(q, s)'
    BY DEF Owned
  <2>1. PICK q \in Ops : op[q].conn = c /\ Answers(q, s)
    BY <1>2 DEF LeaseInv, Owned
  <2>2. CASE q # o
    BY <1>1, <1>2, <2>1, <2>2 DEF Answers
  <2>3. CASE q = o
    <3>1. s = s0 /\ s0 \in troubled' /\ pc # "returning"
      BY <2>1, <2>3 DEF Answers
    <3>2. pc \in {"finishing", "cancelling", "reporting", "deleting"}
      BY <3>1 DEF StageStep, Stages
    <3> QED
      BY <1>1, <2>1, <2>3, <3>1, <3>2 DEF Answers
  <2> QED
    BY <2>2, <2>3
<1>4. SessionOK'
  <2> SUFFICES ASSUME NEW q \in Ops
               PROVE  /\ op'[q].session \in 0..started
                      /\ op'[q].pc = "idle" => op'[q].session = NoSession
                      /\ op'[q].pc \in Stages => op'[q].session # NoSession
                      /\ op'[q].pc = "cancelling" => op'[q].session \in troubled'
                      /\ \A c \in Connections : op'[q].session \in Kept(attachment'[c]) =>
                            /\ c = op'[q].conn
                            /\ op'[q].pc \in {"reporting", "deleting"} => op'[q].session \in troubled'
    BY <1>2 DEF SessionOK
  <2>1. CASE q # o
    BY <1>1, <1>2, <2>1 DEF LeaseInv, SessionOK
  <2>2. CASE q = o
    <3>1. op'[q].session = s0 /\ op'[q].conn = op[o].conn /\ op'[q].pc = pc
      BY <1>1, <2>2
    <3>2. s0 \in 0..started /\ \A c \in Connections : s0 \in Kept(attachment[c]) => c = op[o].conn
      BY DEF LeaseInv, SessionOK
    <3>3. s0 # NoSession /\ pc # "idle"
      BY <1>1 DEF Sessions, NoSession, StageStep, Stages
    <3> QED
      BY <1>2, <3>1, <3>2, <3>3
  <2> QED
    BY <2>1, <2>2
<1> QED
  BY <1>3, <1>4

LEMMA FinishStageKeeps ==
    ASSUME LeaseInv, NEW o \in Ops, FinishStage(o)
    PROVE  LeaseInv'
<1>1. PICK r \in Outcomes :
         /\ Stage(o, "finishing", [To(o, IF r = "ok" THEN "reporting" ELSE "cancelling") EXCEPT !.finish = r])
         /\ Finish(op[o].conn, op[o].session, r)
  BY DEF FinishStage
<1> DEFINE pc == IF r = "ok" THEN "reporting" ELSE "cancelling"
           c0 == op[o].conn
           s0 == op[o].session
           n0 == op[o].attempt
<1>2. op[o] \in OpState /\ op[o].pc = "finishing" /\ n0 \in 1..MaxAttempts /\ c0 \in Connections
  BY <1>1 DEF LeaseInv, Typed, Stage, OpState
<1>3. op' = [op EXCEPT ![o] = Place(o, pc, n0, r)]
  <2>1. [[op[o] EXCEPT !.pc = pc] EXCEPT !.finish = r] = Place(o, pc, n0, r)
    BY <1>2 DEF OpState, Place
  <2> QED
    BY <1>1, <2>1 DEF Stage, To
<1>4. UNCHANGED <<config, rows, tx, started, dirty>> /\ troubled' = Trouble(s0, r)
  BY <1>1 DEF Stage, Finish
<1>5. s0 \in Sessions
  BY <1>2 DEF LeaseInv, SessionOK, Stages, OpState
<1>6. troubled' \subseteq Sessions /\ troubled \subseteq troubled' /\ (r # "ok" => s0 \in troubled')
  BY <1>4, <1>5 DEF Trouble, LeaseInv, Typed
<1>7. \/ /\ stored' = stored \cup Kept(attachment[c0])
         /\ attachment' = [attachment EXCEPT ![c0] = NewAttachment]
      \/ r # "ok" /\ UNCHANGED <<attachment, stored>>
  BY <1>1 DEF Finish, FinishSession, Executed, Outcomes, Kept
<1>8. /\ attachment' \in [Connections -> Attached]
      /\ \A c \in Connections : Kept(attachment'[c]) \subseteq Kept(attachment[c])
      /\ stored' \subseteq Sessions
      /\ stored' \subseteq stored \cup Kept(attachment[c0])
      /\ r = "ok" => Kept(attachment'[c0]) = {}
  <2>1. attachment \in [Connections -> Attached] /\ stored \subseteq Sessions
    BY DEF LeaseInv, Typed
  <2>2. Kept(attachment[c0]) \subseteq Sessions
    BY <1>2, <2>1 DEF Kept, Current, Attached
  <2> QED
    BY <1>2, <1>7, <2>1, <2>2, NewKept
<1>9. pc \in Stages /\ op[o].pc \in Stages /\ pc # "returning"
  BY <1>2 DEF Stages
<1>10. StageStep(o, pc, n0, r)
  <2>1. /\ dirty' \in [Connections -> BOOLEAN]
        /\ \A c \in Connections : (dirty[c] => dirty'[c]) /\ (dirty'[c] => dirty[c] \/ c = op[o].conn)
    BY <1>4 DEF LeaseInv, Typed
  <2> HIDE DEF pc
  <2> QED
    BY <1>2, <1>3, <1>4, <1>6, <1>8, <1>9, <2>1 DEF StageStep
<1>11. /\ GoesOn(o, Place(o, pc, n0, r)) /\ Place(o, pc, n0, r).pc = pc
       /\ Typed' /\ RowsOK' /\ Leased' /\ DirtyIsLeased' /\ Numbered'
  BY <1>10, StageKeeps
<1>12. Known'
  <2>1. Held \subseteq Held'
    BY <1>9, <1>11, GoesOnHolds
  <2> QED
    BY <1>2, <1>6, <1>8, <2>1 DEF LeaseInv, Known
<1>13. Owned' /\ SessionOK'
  <2>1. ASSUME NEW c \in Connections, s0 \in Kept(attachment'[c]) PROVE s0 \in troubled'
    <3>1. c = c0
      BY <1>8, <2>1 DEF LeaseInv, SessionOK
    <3> QED
      BY <1>6, <1>8, <2>1, <3>1
  <2>2. pc = "cancelling" => s0 \in troubled'
    BY <1>6
  <2> HIDE DEF pc
  <2> QED
    BY <1>9, <1>10, <2>1, <2>2, StageKeepsSessions
<1> QED
  BY <1>11, <1>12, <1>13 DEF LeaseInv

LEMMA CancelStageKeeps ==
    ASSUME LeaseInv, NEW o \in Ops, CancelStage(o)
    PROVE  LeaseInv'
<1>1. PICK r \in Outcomes :
         Stage(o, "cancelling", To(o, "deleting")) /\ CancelUnfinished(op[o].conn, r)
  BY DEF CancelStage
<1> DEFINE c0 == op[o].conn
           n0 == op[o].attempt
<1>2. op[o] \in OpState /\ op[o].pc = "cancelling" /\ n0 \in 1..MaxAttempts
      /\ op[o].finish \in {"none"} \cup Outcomes /\ c0 \in Connections
  BY <1>1 DEF LeaseInv, Typed, Stage, OpState
<1>3. op' = [op EXCEPT ![o] = Place(o, "deleting", n0, op[o].finish)]
  <2>1. [op[o] EXCEPT !.pc = "deleting"] = Place(o, "deleting", n0, op[o].finish)
    BY <1>2 DEF OpState, Place
  <2> QED
    BY <1>1, <2>1 DEF Stage, To
<1>4. UNCHANGED <<config, rows, tx, started, dirty, stored, troubled>>
      /\ attachment' = [attachment EXCEPT ![c0] = Cancelled(attachment[c0], r)]
  BY <1>1 DEF Stage, CancelUnfinished
<1>5. /\ attachment' \in [Connections -> Attached]
      /\ \A c \in Connections : Kept(attachment'[c]) \subseteq Kept(attachment[c])
  <2>1. Cancelled(attachment[c0], r) \in Attached
        /\ Kept(Cancelled(attachment[c0], r)) \subseteq Kept(attachment[c0])
    BY <1>2, CancelKept DEF Cancelled, LeaseInv, Typed
  <2> QED
    BY <1>2, <1>4, <2>1 DEF LeaseInv, Typed
<1>6. StageStep(o, "deleting", n0, op[o].finish)
  BY <1>2, <1>3, <1>4, <1>5 DEF StageStep, Stages, LeaseInv, Typed
<1>7. op[o].session \in troubled
  BY <1>2 DEF LeaseInv, SessionOK
<1>8. Owned' /\ SessionOK'
  BY <1>4, <1>6, <1>7, StageKeepsSessions
<1>9. /\ GoesOn(o, Place(o, "deleting", n0, op[o].finish)) /\ Place(o, "deleting", n0, op[o].finish).pc = "deleting"
      /\ Typed' /\ RowsOK' /\ Leased' /\ DirtyIsLeased' /\ Numbered'
  BY <1>6, StageKeeps
<1>10. Known'
  <2>1. Held \subseteq Held'
    BY <1>9, GoesOnHolds
  <2> QED
    BY <1>4, <1>5, <2>1 DEF LeaseInv, Known
<1> QED
  BY <1>8, <1>9, <1>10 DEF LeaseInv

LEMMA TroubleGrows ==
    ASSUME LeaseInv, NEW s \in Sessions, NEW r, troubled' = Trouble(s, r)
    PROVE  /\ troubled' \subseteq Sessions /\ troubled \subseteq troubled'
           /\ r # "ok" => s \in troubled'
  BY DEF Trouble, LeaseInv, Typed

LEMMA ReportStageKeeps ==
    ASSUME LeaseInv, NEW o \in Ops, ReportStage(o)
    PROVE  LeaseInv'
<1>1. PICK r \in {"ok", "refused"} :
         Stage(o, "reporting", To(o, "deleting")) /\ Report(op[o].session, r)
  BY DEF ReportStage
<1> DEFINE s0 == op[o].session
           n0 == op[o].attempt
<1>2. op[o] \in OpState /\ op[o].pc = "reporting" /\ n0 \in 1..MaxAttempts
      /\ op[o].finish \in {"none"} \cup Outcomes
  BY <1>1 DEF LeaseInv, Typed, Stage, OpState
<1>3. op' = [op EXCEPT ![o] = Place(o, "deleting", n0, op[o].finish)]
  <2>1. [op[o] EXCEPT !.pc = "deleting"] = Place(o, "deleting", n0, op[o].finish)
    BY <1>2 DEF OpState, Place
  <2> QED
    BY <1>1, <2>1 DEF Stage, To
<1>4. UNCHANGED <<config, rows, tx, started, dirty, stored, attachment>> /\ troubled' = Trouble(s0, r)
  BY <1>1 DEF Stage, Report
<1>5. s0 \in Sessions
  BY <1>2 DEF LeaseInv, SessionOK, Stages, OpState
<1>6. troubled' \subseteq Sessions /\ troubled \subseteq troubled'
  BY <1>4, <1>5, TroubleGrows
<1>7. StageStep(o, "deleting", n0, op[o].finish)
  BY <1>2, <1>3, <1>4, <1>6 DEF StageStep, Stages, LeaseInv, Typed
<1>8. \A c \in Connections : s0 \in Kept(attachment[c]) => s0 \in troubled
  BY <1>2 DEF LeaseInv, SessionOK
<1>9. Owned' /\ SessionOK'
  BY <1>4, <1>6, <1>7, <1>8, StageKeepsSessions
<1>10. /\ GoesOn(o, Place(o, "deleting", n0, op[o].finish)) /\ Place(o, "deleting", n0, op[o].finish).pc = "deleting"
       /\ Typed' /\ RowsOK' /\ Leased' /\ DirtyIsLeased' /\ Numbered'
  BY <1>7, StageKeeps
<1>11. Known'
  <2>1. Held \subseteq Held'
    BY <1>10, GoesOnHolds
  <2> QED
    BY <1>4, <1>6, <2>1 DEF LeaseInv, Known
<1> QED
  BY <1>9, <1>10, <1>11 DEF LeaseInv

LEMMA DeleteStageKeeps ==
    ASSUME LeaseInv, NEW o \in Ops, DeleteStage(o)
    PROVE  LeaseInv'
<1> DEFINE c0 == op[o].conn
           s0 == op[o].session
           n0 == op[o].attempt
<1>1. PICK r \in Attempts :
         \/ Stage(o, "deleting", [op[o] EXCEPT !.attempt = @ + 1]) /\ DeleteAgain(s0, n0, r)
         \/ Stage(o, "deleting", [op[o] EXCEPT !.pc = "returning", !.attempt = 1])
            /\ DeleteLast(c0, s0, n0, r)
  BY DEF DeleteStage
<1>2. op[o] \in OpState /\ op[o].pc = "deleting" /\ n0 \in 1..MaxAttempts
      /\ op[o].finish \in {"none"} \cup Outcomes /\ c0 \in Connections
  BY <1>1 DEF LeaseInv, Typed, Stage, OpState
<1>3. s0 \in Sessions
  BY <1>2 DEF LeaseInv, SessionOK, Stages, OpState
<1>4. /\ UNCHANGED <<config, rows, tx, started, attachment>>
      /\ stored' = IF Deletes(r) THEN stored \ {s0} ELSE stored
  BY <1>1 DEF Stage, DeleteAgain, DeleteLast
<1>5. \A c \in Connections : s0 \in Kept(attachment[c]) => c = c0 /\ s0 \in troubled
  BY <1>2 DEF LeaseInv, SessionOK
<1>6. CASE Stage(o, "deleting", [op[o] EXCEPT !.attempt = @ + 1]) /\ DeleteAgain(s0, n0, r)
  <2>1. op' = [op EXCEPT ![o] = Place(o, "deleting", n0 + 1, op[o].finish)]
    <3>1. [op[o] EXCEPT !.attempt = n0 + 1] = Place(o, "deleting", n0 + 1, op[o].finish)
      BY <1>2 DEF OpState, Place
    <3> QED
      BY <1>6, <3>1 DEF Stage
  <2>2. n0 + 1 \in 1..MaxAttempts
    <3>1. n0 < MaxAttempts
      BY <1>6 DEF DeleteAgain, Retries
    <3>2. n0 \in 1..MaxAttempts
      BY <1>2
    <3> QED
      BY <3>1, <3>2 DEF MaxAttempts
  <2>3. UNCHANGED <<dirty, troubled>>
    BY <1>6 DEF DeleteAgain
  <2>4. StageStep(o, "deleting", n0 + 1, op[o].finish)
    BY <1>2, <1>4, <2>1, <2>2, <2>3 DEF StageStep, Stages, LeaseInv, Typed
  <2>5. Owned' /\ SessionOK'
    BY <1>4, <1>5, <2>3, <2>4, StageKeepsSessions
  <2>6. /\ GoesOn(o, Place(o, "deleting", n0 + 1, op[o].finish)) /\ Place(o, "deleting", n0 + 1, op[o].finish).pc = "deleting"
        /\ Typed' /\ RowsOK' /\ Leased' /\ DirtyIsLeased' /\ Numbered'
    BY <2>4, StageKeeps
  <2>7. Known'
    <3>1. Held \subseteq Held'
      BY <2>6, GoesOnHolds
    <3> QED
      BY <1>4, <2>3, <3>1 DEF LeaseInv, Known
  <2> QED
    BY <2>5, <2>6, <2>7 DEF LeaseInv
<1>7. CASE /\ Stage(o, "deleting", [op[o] EXCEPT !.pc = "returning", !.attempt = 1])
           /\ DeleteLast(c0, s0, n0, r)
  <2>1. op' = [op EXCEPT ![o] = Place(o, "returning", 1, op[o].finish)]
    BY <1>7 DEF Stage, Place
  <2>2. troubled' = Trouble(s0, r) /\ dirty' = [dirty EXCEPT ![c0] = dirty[c0] \/ s0 \in troubled']
    BY <1>7 DEF DeleteLast
  <2>3. /\ troubled' \subseteq Sessions /\ troubled \subseteq troubled'
        /\ ~ Deletes(r) => s0 \in troubled'
    BY <1>3, <2>2, TroubleGrows DEF Deletes
  <2>4. /\ dirty' \in [Connections -> BOOLEAN]
        /\ \A c \in Connections : (dirty[c] => dirty'[c]) /\ (dirty'[c] => dirty[c] \/ c = c0)
        /\ s0 \in troubled' => dirty'[c0]
    BY <1>2, <2>2 DEF LeaseInv, Typed
  <2>5. StageStep(o, "returning", 1, op[o].finish)
    BY <1>2, <1>4, <2>1, <2>3, <2>4 DEF StageStep, Stages, LeaseInv, Typed, MaxAttempts
  <2>6. Owned' /\ SessionOK'
    BY <1>4, <1>5, <2>3, <2>4, <2>5, StageKeepsSessions
  <2>7. /\ GoesOn(o, Place(o, "returning", 1, op[o].finish))
        /\ Typed' /\ RowsOK' /\ Leased' /\ DirtyIsLeased' /\ Numbered'
    BY <2>5, StageKeeps
  <2>8. Known'
    <3>1. Held \subseteq Held' \cup {s0}
      BY <2>7, GoesOnHolds
    <3> QED
      BY <1>4, <1>5, <2>3, <3>1 DEF LeaseInv, Known
  <2> QED
    BY <2>6, <2>7, <2>8 DEF LeaseInv
<1> QED
  BY <1>1, <1>6, <1>7

-----------------------------------------------------------------------------
(* The step in which a call executes its statement. *)

\* A session that the call started and does not own is known to be in trouble.
LEMMA CallSessions ==
    ASSUME LeaseInv, NEW o \in Ops, NEW c \in Connections, NEW inTx \in BOOLEAN,
           NEW profiled \in BOOLEAN, NEW result \in Results,
           NEW so \in Outcomes, NEW co \in Outcomes, NEW xo \in Outcomes,
           AfterCall(o, c, inTx, profiled, result, so, co, xo)
    PROVE  LET s   == started + 1
               own == profiled /\ so = "ok" /\ result # "skip"
           IN  /\ attachment' \in [Connections -> Attached]
               /\ \A d \in Connections : d # c => attachment'[d] = attachment[d]
               /\ \A x \in Kept(attachment'[c]) :
                     x \in Kept(attachment[c]) \/ (profiled /\ x = s)
               /\ s \in Kept(attachment'[c]) => own \/ (dirty'[c] /\ s \in troubled')
               /\ dirty' \in [Connections -> BOOLEAN]
               /\ \A d \in Connections : dirty[d] => dirty'[d]
               /\ \A d \in Connections : dirty'[d] => dirty[d] \/ d = c
               /\ started' \in 0..MaxSessions /\ started <= started'
               /\ profiled => s \in Sessions /\ started' = s
               /\ troubled' \subseteq Sessions /\ troubled \subseteq troubled'
               /\ stored' = stored
<1> DEFINE s       == started + 1
           begun   == IF profiled THEN Started(attachment[c], s, so, co) ELSE attachment[c]
           skipped == profiled /\ so = "ok" /\ result = "skip"
           fails   == Troubles(profiled, result, so, co, xo)
           after   == IF skipped THEN Cancelled(begun, xo) ELSE begun
<1>1. /\ profiled => s \in Sessions
      /\ started' = IF profiled THEN s ELSE started
      /\ attachment' = [attachment EXCEPT ![c] = after]
      /\ dirty' = [dirty EXCEPT ![c] = IF profiled THEN DirtyByStart(dirty[c], so) \/ xo # "ok" ELSE dirty[c]]
      /\ troubled' = IF fails > 0 THEN troubled \cup {s} ELSE troubled
      /\ stored' = stored
  BY DEF AfterCall
<1>2. /\ started \in 0..MaxSessions /\ attachment[c] \in Attached /\ attachment \in [Connections -> Attached]
      /\ dirty \in [Connections -> BOOLEAN] /\ troubled \subseteq Sessions
  BY DEF LeaseInv, Typed
<1>3. \A d \in Connections : s \notin Kept(attachment[d])
  <2>1. s \notin 1..started
    BY <1>2
  <2> QED
    BY <2>1 DEF LeaseInv, Numbered
<1>4. /\ begun \in Attached
      /\ Kept(begun) \subseteq Kept(attachment[c]) \cup (IF profiled THEN {s} ELSE {})
      /\ skipped => begun = AfterStart(attachment[c], s)
  BY <1>1, <1>2, StartedKept
<1>5. fails > 0 => profiled
  BY DEF Troubles
<1>6. profiled /\ (so # "ok" \/ (result = "skip" /\ xo # "ok")) => fails > 0
  <2>1. Failed(so) \in {0, 1} /\ Failed(co) \in {0, 1} /\ Failed(xo) \in {0, 1}
        /\ (so # "ok" => Failed(so) = 1) /\ (xo # "ok" => Failed(xo) = 1)
    BY DEF Failed
  <2> QED
    BY <2>1 DEF Troubles
<1>7. after \in Attached /\ Kept(after) \subseteq Kept(begun)
  BY <1>4, CancelKept DEF Cancelled
<1>8. skipped /\ xo = "ok" => s \notin Kept(after)
  BY <1>1, <1>2, <1>3, <1>4, SkipKept DEF Cancelled, Executed
<1> HIDE DEF begun, after, fails
<1>9. attachment'[c] = after
  BY <1>1, <1>2
<1>10. profiled /\ (so # "ok" \/ xo # "ok") => dirty'[c]
  BY <1>1, <1>2 DEF DirtyByStart
<1>11. s \in Kept(attachment'[c]) =>
          (profiled /\ so = "ok" /\ result # "skip") \/ (dirty'[c] /\ s \in troubled')
  <2> SUFFICES ASSUME s \in Kept(after), ~ (profiled /\ so = "ok" /\ result # "skip")
               PROVE  dirty'[c] /\ s \in troubled'
    BY <1>9
  <2>1. profiled
    BY <1>3, <1>4, <1>7
  <2>2. so # "ok" \/ (skipped /\ xo # "ok")
    BY <1>8, <2>1
  <2> QED
    BY <1>1, <1>6, <1>10, <2>1, <2>2
<1>12. /\ attachment' \in [Connections -> Attached]
       /\ \A d \in Connections : d # c => attachment'[d] = attachment[d]
  BY <1>1, <1>2, <1>7
<1>13. /\ dirty' \in [Connections -> BOOLEAN]
       /\ \A d \in Connections : dirty[d] => dirty'[d]
       /\ \A d \in Connections : dirty'[d] => dirty[d] \/ d = c
  BY <1>1, <1>2 DEF DirtyByStart
<1>14. /\ started' \in 0..MaxSessions /\ started <= started'
       /\ profiled => s \in Sessions /\ started' = s
  BY <1>1, <1>2, SessionsAssumption DEF Sessions
<1>15. troubled' \subseteq Sessions /\ troubled \subseteq troubled'
  BY <1>1, <1>2, <1>5
<1>16. \A x \in Kept(attachment'[c]) : x \in Kept(attachment[c]) \/ (profiled /\ x = s)
  BY <1>4, <1>7, <1>9
<1> QED
  BY <1>1, <1>11, <1>12, <1>13, <1>14, <1>15, <1>16

LEMMA OpenedTyped ==
    ASSUME NEW span \in BOOLEAN, NEW inTx \in BOOLEAN
    PROVE  Opened(span, inTx) \in RowsState /\ NoRows \in RowsState /\ NoRows.pc = "none"
<1> DEFINE sig == [k \in Causes |-> IF span /\ (k = "query" \/ inTx) THEN "armed" ELSE "absent"]
           none == [k \in Causes |-> "absent"]
<1>1. sig \in [Causes -> Signals] /\ none \in [Causes -> Signals]
  BY DEF Signals
<1>2. NoRows \in RowsState /\ NoRows.pc = "none"
  <2> HIDE DEF none
  <2> QED
    BY <1>1 DEF NoRows, RowsState, Errors, none
<1>3. Opened(span, inTx) = [NoRows EXCEPT !.pc = "open", !.span = span, !.tx = span /\ inTx, !.signal = sig]
  BY DEF Opened
<1> DEFINE w == (span /\ inTx)
<1>4. w \in BOOLEAN
  OBVIOUS
<1> HIDE DEF sig, w
<1>5. [NoRows EXCEPT !.pc = "open", !.span = span, !.tx = w, !.signal = sig] \in RowsState
  BY <1>1, <1>2, <1>4 DEF RowsState
<1> QED
  BY <1>2, <1>3, <1>5 DEF w

\* The call that starts.
LEMMA CallOp ==
    ASSUME LeaseInv, NEW o \in Ops, NEW c \in Connections, NEW inTx \in BOOLEAN,
           NEW profiled \in BOOLEAN, NEW result \in Results,
           NEW so \in Outcomes, NEW co \in Outcomes, NEW xo \in Outcomes,
           profiled => started + 1 \in Sessions,
           AfterCall(o, c, inTx, profiled, result, so, co, xo)
    PROVE  /\ op' \in [Ops -> OpState]
           /\ \A q \in Ops : q # o => op'[q] = op[q]
           /\ op'[o].conn = c /\ op'[o].tx = inTx
           /\ op'[o].pc \in {"rows", "finishing", "returning"}
           /\ result = "rows" => op'[o].pc = "rows"
           /\ op'[o].pc = "finishing" => op'[o].session # NoSession
           /\ op'[o].session = IF profiled /\ so = "ok" /\ result # "skip"
                               THEN started + 1 ELSE NoSession
           /\ op'[o].session # NoSession => op'[o].pc \in {"rows", "finishing"}
<1> DEFINE own == profiled /\ so = "ok" /\ ~ (profiled /\ so = "ok" /\ result = "skip")
           ran == result \in {"result", "rows"}
           go  == IF profiled THEN so ELSE "none"
           ses == IF own THEN started + 1 ELSE NoSession
           pc  == IF result = "rows" THEN "rows" ELSE IF own THEN "finishing" ELSE "returning"
           q1  == [op[o] EXCEPT !.conn = c, !.tx = inTx]
           q2  == [q1 EXCEPT !.measured = ran, !.start = go]
           q3  == [q2 EXCEPT !.session = ses, !.pc = pc]
<1>1. op[o] \in OpState /\ op \in [Ops -> OpState]
  BY DEF LeaseInv, Typed
<1>2. op' = [op EXCEPT ![o] = [op[o] EXCEPT !.conn = c, !.tx = inTx, !.measured = ran,
                                 !.start = go, !.session = ses, !.pc = pc]]
  BY DEF AfterCall
<1>3. /\ ses \in {NoSession} \cup Sessions /\ ran \in BOOLEAN /\ go \in {"none"} \cup Outcomes
      /\ pc \in {"rows", "finishing", "returning"}
  OBVIOUS
<1>4. started + 1 # NoSession
  BY DEF NoSession, LeaseInv, Typed
<1>5. /\ own <=> (profiled /\ so = "ok" /\ result # "skip")
      /\ own => pc \in {"rows", "finishing"}
      /\ pc = "finishing" => own
  OBVIOUS
<1>6. result = "rows" => pc = "rows"
  OBVIOUS
<1>7. own => ses = started + 1
  OBVIOUS
<1>8. ~ own => ses = NoSession
  OBVIOUS
<1> HIDE DEF own, ran, go, ses, pc
<1>9. q1 \in OpState /\ q1.conn = c /\ q1.tx = inTx
  BY <1>1 DEF OpState
<1>10. [op[o] EXCEPT !.conn = c, !.tx = inTx, !.measured = ran, !.start = go, !.session = ses, !.pc = pc] = q3
  BY <1>1 DEF OpState
<1> HIDE DEF q1
<1>11. q2 \in OpState /\ q2.conn = c /\ q2.tx = inTx
  BY <1>3, <1>9 DEF OpState
<1> HIDE DEF q2
<1>12. q3 \in OpState /\ q3.conn = c /\ q3.tx = inTx /\ q3.session = ses /\ q3.pc = pc
  <2>1. pc \in {"idle", "rows", "returning", "done"} \cup Stages
    BY <1>3 DEF Stages
  <2> QED
    BY <1>3, <1>11, <2>1 DEF OpState
<1> HIDE DEF q3
<1>13. op' = [op EXCEPT ![o] = q3]
  BY <1>2, <1>10
<1>14. op' \in [Ops -> OpState] /\ op'[o] = q3 /\ \A q \in Ops : q # o => op'[q] = op[q]
  BY <1>1, <1>12, <1>13
<1> QED
  BY <1>3, <1>4, <1>5, <1>6, <1>7, <1>8, <1>12, <1>14

LEMMA CallKeeps ==
    ASSUME LeaseInv, NEW o \in Ops, NEW c \in Connections, NEW inTx \in BOOLEAN,
           NEW profiled \in BOOLEAN, NEW result \in Results,
           Call(o, c, inTx, profiled, result)
    PROVE  LeaseInv'
<1>1. PICK so \in Outcomes, co \in Outcomes, xo \in Outcomes :
         AfterCall(o, c, inTx, profiled, result, so, co, xo)
  BY DEF Call
<1>2. /\ op[o].pc = "idle"
      /\ IF inTx THEN tx[c] = "open" ELSE Free(c)
      /\ UNCHANGED <<config, tx>>
      /\ IF result = "rows" THEN rows' = [rows EXCEPT ![o] = Opened(config.rows, inTx)] ELSE rows' = rows
  BY DEF Call
<1> DEFINE s   == started + 1
           own == profiled /\ so = "ok" /\ result # "skip"
<1>3. /\ attachment' \in [Connections -> Attached]
      /\ \A d \in Connections : d # c => attachment'[d] = attachment[d]
      /\ \A x \in Kept(attachment'[c]) : x \in Kept(attachment[c]) \/ (profiled /\ x = s)
      /\ s \in Kept(attachment'[c]) => own \/ (dirty'[c] /\ s \in troubled')
      /\ dirty' \in [Connections -> BOOLEAN]
      /\ \A d \in Connections : dirty[d] => dirty'[d]
      /\ \A d \in Connections : dirty'[d] => dirty[d] \/ d = c
      /\ started' \in 0..MaxSessions /\ started <= started'
      /\ profiled => s \in Sessions /\ started' = s
      /\ troubled' \subseteq Sessions /\ troubled \subseteq troubled'
      /\ stored' = stored
  BY <1>1, CallSessions
<1>4. /\ op' \in [Ops -> OpState]
      /\ \A q \in Ops : q # o => op'[q] = op[q]
      /\ op'[o].conn = c /\ op'[o].tx = inTx
      /\ op'[o].pc \in {"rows", "finishing", "returning"}
      /\ result = "rows" => op'[o].pc = "rows"
      /\ op'[o].pc = "finishing" => op'[o].session # NoSession
      /\ op'[o].session = IF own THEN s ELSE NoSession
      /\ op'[o].session # NoSession => op'[o].pc \in {"rows", "finishing"}
  BY <1>1, <1>3, CallOp
<1>5. started \in 0..MaxSessions /\ s \in Nat /\ s # NoSession /\ ~ (s <= started)
  BY DEF LeaseInv, Typed, NoSession
<1>6. \A d \in Connections : \A x \in Kept(attachment[d]) : x \in 1..started
  BY DEF LeaseInv, Numbered
<1> HIDE DEF s, own
<1>7. Typed'
  BY <1>2, <1>3, <1>4 DEF LeaseInv, Typed
<1>8. RowsOK'
  <2>1. Opened(config.rows, inTx) \in RowsState
    BY OpenedTyped, ConfigsAssumption DEF LeaseInv, Typed
  <2>2. rows' \in [Ops -> RowsState] /\ \A q \in Ops : q # o => rows'[q] = rows[q]
    BY <1>2, <2>1 DEF LeaseInv, RowsOK
  <2>3. rows'[o].pc \in {"open", "checking"} => op'[o].pc = "rows"
    BY <1>2, <1>4 DEF LeaseInv, RowsOK
  <2> QED
    BY <1>4, <2>2, <2>3 DEF LeaseInv, RowsOK
<1>9. Leased'
  <2> SUFFICES ASSUME NEW q \in Ops, op'[q].pc \notin {"idle", "done"}
               PROVE  IF op'[q].tx THEN tx[op'[q].conn] = "open"
                      ELSE /\ tx[op'[q].conn] # "open"
                           /\ \A p \in Ops : op'[p].pc \notin {"idle", "done"} /\ op'[p].conn = op'[q].conn => p = q
    BY <1>2 DEF Leased, Busy
  <2>1. ~ inTx => tx[c] # "open" /\ \A p \in Ops : op[p].pc \notin {"idle", "done"} => op[p].conn # c
    BY <1>2 DEF Free, On
  <2>2. CASE q = o
    BY <1>2, <1>4, <2>1, <2>2
  <2>3. CASE q # o
    <3>1. op'[q] = op[q] /\ Busy(q)
      BY <1>4, <2>3 DEF Busy
    <3>2. CASE op[q].tx
      BY <3>1, <3>2 DEF LeaseInv, Leased
    <3>3. CASE ~ op[q].tx
      <4>1. /\ tx[op[q].conn] # "open"
            /\ \A p \in Ops : Busy(p) /\ op[p].conn = op[q].conn => p = q
        BY <3>1, <3>3 DEF LeaseInv, Leased
      <4>2. op[q].conn # c
        BY <1>2, <2>1, <3>1, <4>1 DEF Busy
      <4> QED
        BY <1>4, <3>1, <3>3, <4>1, <4>2 DEF Busy
    <3> QED
      BY <3>2, <3>3
  <2> QED
    BY <2>2, <2>3
<1>10. Owned'
  <2> SUFFICES ASSUME NEW d \in Connections, ~ dirty'[d], NEW x \in Kept(attachment'[d])
               PROVE  \E q \in Ops : op'[q].conn = d /\ Answers(q, x)'
    BY DEF Owned
  <2>1. CASE x \in Kept(attachment[d])
    <3>1. PICK q \in Ops : op[q].conn = d /\ Answers(q, x)
      BY <1>3, <2>1 DEF LeaseInv, Owned
    <3>2. q # o
      BY <1>2, <3>1 DEF Answers
    <3> QED
      BY <1>3, <1>4, <3>1, <3>2 DEF Answers
  <2>2. CASE x \notin Kept(attachment[d])
    <3>1. d = c /\ x = s /\ own
      BY <1>3, <2>2
    <3> QED
      BY <1>4, <1>5, <3>1 DEF Answers
  <2> QED
    BY <2>1, <2>2
<1>11. DirtyIsLeased'
  <2> SUFFICES ASSUME config.validator, NEW d \in Connections, dirty'[d] PROVE ~ Free(d)'
    BY <1>2 DEF DirtyIsLeased
  <2>1. CASE d = c
    BY <1>4, <2>1 DEF Free, On
  <2>2. CASE d # c
    <3>1. ~ Free(d)
      BY <1>3, <2>2 DEF LeaseInv, DirtyIsLeased
    <3>2. \A q \in Ops : q \in On(d) => q \in On(d)'
      BY <1>2, <1>4 DEF On
    <3> QED
      BY <1>2, <3>1, <3>2 DEF Free, On
  <2> QED
    BY <2>1, <2>2
<1>12. Held \subseteq Held' \cup {NoSession} /\ (own => s \in Held')
  <2>1. \A q \in Ops : op[q].pc \notin {"returning", "done"} /\ q # o => op[q].session \in Held'
    BY <1>4 DEF Held
  <2>2. op[o].session = NoSession
    BY <1>2 DEF LeaseInv, SessionOK
  <2>3. own => s \in Held'
    BY <1>4, <1>5 DEF Held
  <2> QED
    BY <2>1, <2>2, <2>3 DEF Held
<1>13. Known'
  <2>1. \A d \in Connections : Kept(attachment'[d]) \subseteq Held' \cup troubled'
    <3> SUFFICES ASSUME NEW d \in Connections, NEW x \in Kept(attachment'[d])
                 PROVE  x \in Held' \cup troubled'
      OBVIOUS
    <3>1. CASE x \in Kept(attachment[d])
      BY <1>3, <1>6, <1>12, <3>1 DEF LeaseInv, Known, NoSession
    <3>2. CASE x \notin Kept(attachment[d])
      BY <1>3, <1>12, <3>2
    <3> QED
      BY <3>1, <3>2
  <2>2. stored' \subseteq Held' \cup troubled'
    BY <1>3, <1>12 DEF LeaseInv, Known, Typed, Sessions, NoSession
  <2> QED
    BY <2>1, <2>2 DEF Known
<1>14. SessionOK'
  <2> SUFFICES ASSUME NEW q \in Ops
               PROVE  /\ op'[q].session \in 0..started'
                      /\ op'[q].pc = "idle" => op'[q].session = NoSession
                      /\ op'[q].pc \in Stages => op'[q].session # NoSession
                      /\ op'[q].pc = "cancelling" => op'[q].session \in troubled'
                      /\ \A d \in Connections : op'[q].session \in Kept(attachment'[d]) =>
                            /\ d = op'[q].conn
                            /\ op'[q].pc \in {"reporting", "deleting"} => op'[q].session \in troubled'
    BY DEF SessionOK
  <2>1. CASE q # o
    <3>1. op'[q] = op[q] /\ op[q].session \in 0..started
      BY <1>4, <2>1 DEF LeaseInv, SessionOK
    <3>2. op[q].session # s
      BY <1>5, <3>1
    <3>3. \A d \in Connections : op[q].session \in Kept(attachment'[d]) => op[q].session \in Kept(attachment[d])
      BY <1>3, <3>2
    <3>4. op[q].session \in 0..started'
      BY <1>3, <1>5, <3>1
    <3> QED
      BY <1>3, <3>1, <3>3, <3>4 DEF LeaseInv, SessionOK
  <2>2. CASE q = o
    <3>1. /\ op'[o].session \in 0..started' /\ op'[o].pc \notin {"idle", "cancelling", "reporting", "deleting"}
          /\ op'[o].pc \in Stages => op'[o].session # NoSession
      <4>1. own => profiled
        BY DEF own
      <4>2. s \in 0..s /\ NoSession \in 0..started'
        BY <1>3, <1>5 DEF NoSession
      <4> QED
        BY <1>3, <1>4, <4>1, <4>2 DEF Stages
    <3>2. \A d \in Connections : op'[o].session \in Kept(attachment'[d]) => d = c
      <4> SUFFICES ASSUME NEW d \in Connections, op'[o].session \in Kept(attachment[d]) PROVE FALSE
        BY <1>3
      <4>1. op'[o].session \in 1..started
        BY <1>6
      <4> QED
        BY <1>4, <1>5, <4>1 DEF NoSession
    <3> QED
      BY <1>4, <2>2, <3>1, <3>2
  <2> QED
    BY <2>1, <2>2
<1>15. Numbered'
  <2> SUFFICES ASSUME NEW d \in Connections, NEW x \in Kept(attachment'[d]) PROVE x \in 1..started'
    BY DEF Numbered
  <2>1. CASE x \in Kept(attachment[d])
    <3>1. x \in 1..started
      BY <1>6, <2>1
    <3> QED
      BY <1>3, <1>5, <3>1
  <2>2. CASE x \notin Kept(attachment[d])
    BY <1>3, <2>2 DEF Sessions
  <2> QED
    BY <2>1, <2>2
<1> QED
  BY <1>7, <1>8, <1>9, <1>10, <1>11, <1>13, <1>14, <1>15 DEF LeaseInv

-----------------------------------------------------------------------------
(* The ends of leases. *)

\* The pool keeps a connection that is not dirty as it is.
LEMMA GivenBackKeeps ==
    ASSUME LeaseInv, NEW c \in Connections, GivenBack(c)
    PROVE  /\ attachment' \in [Connections -> Attached]
           /\ dirty' \in [Connections -> BOOLEAN]
           /\ UNCHANGED <<stored, started, troubled>>
           /\ \A d \in Connections : /\ Kept(attachment'[d]) \subseteq Kept(attachment[d])
                                     /\ dirty'[d] => dirty[d]
                                     /\ ~ dirty'[d] /\ Kept(attachment'[d]) # {} => ~ dirty[d]
           /\ config.validator => ~ dirty'[c]
<1>1. /\ attachment' = [attachment EXCEPT ![c] = IF IsValid(dirty[c]) THEN attachment[c] ELSE NewAttachment]
      /\ dirty' = [dirty EXCEPT ![c] = dirty[c] /\ IsValid(dirty[c])]
      /\ UNCHANGED <<stored, started, troubled>>
  BY DEF GivenBack
<1>2. attachment \in [Connections -> Attached] /\ dirty \in [Connections -> BOOLEAN]
  BY DEF LeaseInv, Typed
<1>3. IsValid(dirty[c]) <=> (config.validator => ~ dirty[c])
  BY DEF IsValid
<1>4. /\ dirty'[c] = (dirty[c] /\ IsValid(dirty[c]))
      /\ dirty' \in [Connections -> BOOLEAN]
      /\ \A d \in Connections : d # c => dirty'[d] = dirty[d]
  BY <1>1, <1>2
<1>5. /\ attachment'[c] = IF IsValid(dirty[c]) THEN attachment[c] ELSE NewAttachment
      /\ attachment' \in [Connections -> Attached]
      /\ \A d \in Connections : d # c => attachment'[d] = attachment[d]
  BY <1>1, <1>2, NewKept
<1>6. Kept(NewAttachment) = {}
  BY NewKept
<1> QED
  BY <1>1, <1>3, <1>4, <1>5, <1>6

LEMMA NewOpTyped == NewOp \in OpState /\ NewOp.pc = "idle" /\ NewOp.session = NoSession
<1>1. (CHOOSE c \in Connections : TRUE) \in Connections
  BY ConnectionsAssumption
<1> QED
  BY <1>1 DEF NewOp, OpState, MaxAttempts

LEMMA ReturnKeeps ==
    ASSUME LeaseInv, NEW o \in Ops, Return(o)
    PROVE  LeaseInv'
<1> DEFINE c0 == op[o].conn
           q0 == [NewOp EXCEPT !.pc = "done", !.conn = c0, !.tx = op[o].tx, !.start = op[o].start,
                               !.finish = op[o].finish]
<1>1. /\ op[o].pc = "returning" /\ op[o] \in OpState /\ op \in [Ops -> OpState]
      /\ op' = [op EXCEPT ![o] = q0]
      /\ rows' = [rows EXCEPT ![o] = NoRows]
      /\ UNCHANGED <<config, tx>>
      /\ IF op[o].tx THEN UNCHANGED profilerVars ELSE GivenBack(c0)
  BY DEF Return, LeaseInv, Typed
<1>2. c0 \in Connections
  BY <1>1 DEF OpState
<1> DEFINE q1 == [NewOp EXCEPT !.pc = "done", !.conn = c0]
           q2 == [q1 EXCEPT !.tx = op[o].tx]
<1>3. q2 \in OpState /\ q2.pc = "done" /\ q2.session = NoSession
  <2>1. q1 \in OpState /\ q1.pc = "done" /\ q1.session = NoSession
    BY <1>2, NewOpTyped DEF OpState
  <2>2. op[o].tx \in BOOLEAN
    BY <1>1 DEF OpState
  <2> HIDE DEF q1
  <2> QED
    BY <2>1, <2>2 DEF OpState
<1>4. q0 \in OpState /\ q0.pc = "done" /\ q0.session = NoSession
  <2>1. op[o].start \in {"none"} \cup Outcomes /\ op[o].finish \in {"none"} \cup Outcomes
    BY <1>1 DEF OpState
  <2>2. q0 = [q2 EXCEPT !.start = op[o].start, !.finish = op[o].finish]
    BY NewOpTyped DEF OpState
  <2> HIDE DEF q2, q0
  <2> QED
    BY <1>3, <2>1, <2>2 DEF OpState
<1> HIDE DEF q0
<1>5. op' \in [Ops -> OpState] /\ \A q \in Ops : op'[q] = IF q = o THEN q0 ELSE op[q]
  BY <1>1, <1>4
<1>6. /\ attachment' \in [Connections -> Attached]
      /\ dirty' \in [Connections -> BOOLEAN]
      /\ UNCHANGED <<stored, started, troubled>>
      /\ \A d \in Connections : /\ Kept(attachment'[d]) \subseteq Kept(attachment[d])
                                /\ dirty'[d] => dirty[d]
                                /\ ~ dirty'[d] /\ Kept(attachment'[d]) # {} => ~ dirty[d]
      /\ config.validator /\ ~ op[o].tx => ~ dirty'[c0]
  <2>1. CASE op[o].tx
    BY <1>1, <2>1 DEF profilerVars, LeaseInv, Typed
  <2>2. CASE ~ op[o].tx
    BY <1>1, <1>2, <2>2, GivenBackKeeps
  <2> QED
    BY <2>1, <2>2
<1>7. Typed'
  BY <1>1, <1>5, <1>6 DEF LeaseInv, Typed
<1>8. RowsOK'
  <2>1. NoRows \in RowsState /\ NoRows.pc = "none"
    BY OpenedTyped
  <2>2. rows' \in [Ops -> RowsState] /\ rows'[o].pc = "none" /\ \A q \in Ops : q # o => rows'[q] = rows[q]
    BY <1>1, <2>1 DEF LeaseInv, RowsOK
  <2> QED
    BY <1>5, <2>2 DEF LeaseInv, RowsOK
<1>9. Leased'
  BY <1>1, <1>4, <1>5 DEF LeaseInv, Leased, Busy
<1>10. Owned'
  <2> SUFFICES ASSUME NEW d \in Connections, ~ dirty'[d], NEW x \in Kept(attachment'[d])
               PROVE  \E q \in Ops : op'[q].conn = d /\ Answers(q, x)'
    BY DEF Owned
  <2>1. PICK q \in Ops : op[q].conn = d /\ Answers(q, x)
    BY <1>6 DEF LeaseInv, Owned
  <2>2. q # o
    BY <1>1, <2>1 DEF Answers
  <2> QED
    BY <1>5, <1>6, <2>1, <2>2 DEF Answers
<1>11. DirtyIsLeased'
  <2> SUFFICES ASSUME config.validator, NEW d \in Connections, dirty'[d] PROVE ~ Free(d)'
    BY <1>1 DEF DirtyIsLeased
  <2>1. CASE d = c0
    <3>1. op[o].tx /\ Busy(o)
      BY <1>1, <1>6, <2>1 DEF Busy
    <3>2. tx[c0] = "open"
      BY <3>1 DEF LeaseInv, Leased
    <3> QED
      BY <1>1, <2>1, <3>2 DEF Free
  <2>2. CASE d # c0
    <3>1. ~ Free(d)
      BY <1>6 DEF LeaseInv, DirtyIsLeased
    <3>2. \A q \in Ops : q \in On(d) => q \in On(d)'
      BY <1>5, <2>2 DEF On
    <3> QED
      BY <1>1, <3>1, <3>2 DEF Free, On
  <2> QED
    BY <2>1, <2>2
<1>12. Held \subseteq Held'
  BY <1>1, <1>5 DEF Held
<1>13. Known'
  BY <1>6, <1>12 DEF LeaseInv, Known
<1>14. SessionOK'
  <2> SUFFICES ASSUME NEW q \in Ops
               PROVE  /\ op'[q].session \in 0..started
                      /\ op'[q].pc = "idle" => op'[q].session = NoSession
                      /\ op'[q].pc \in Stages => op'[q].session # NoSession
                      /\ op'[q].pc = "cancelling" => op'[q].session \in troubled
                      /\ \A d \in Connections : op'[q].session \in Kept(attachment'[d]) =>
                            /\ d = op'[q].conn
                            /\ op'[q].pc \in {"reporting", "deleting"} => op'[q].session \in troubled
    BY <1>6 DEF SessionOK
  <2>1. CASE q # o
    BY <1>5, <1>6, <2>1 DEF LeaseInv, SessionOK
  <2>2. CASE q = o
    <3>1. op'[q].session = NoSession /\ op'[q].pc = "done"
      BY <1>4, <1>5, <2>2
    <3>2. NoSession \in 0..started
      BY DEF NoSession, LeaseInv, Typed
    <3>3. \A d \in Connections : NoSession \notin Kept(attachment[d])
      BY DEF NoSession, LeaseInv, Numbered
    <3> QED
      BY <1>6, <3>1, <3>2, <3>3 DEF Stages
  <2> QED
    BY <2>1, <2>2
<1>15. Numbered'
  BY <1>6 DEF LeaseInv, Numbered
<1> QED
  BY <1>7, <1>8, <1>9, <1>10, <1>11, <1>13, <1>14, <1>15 DEF LeaseInv

LEMMA EndTxKeeps ==
    ASSUME LeaseInv, NEW c \in Connections, EndTx(c)
    PROVE  LeaseInv'
<1>1. /\ On(c) = {} /\ tx' = [tx EXCEPT ![c] = "ended"] /\ UNCHANGED <<config, op, rows>>
      /\ GivenBack(c)
  BY DEF EndTx
<1>2. /\ attachment' \in [Connections -> Attached]
      /\ dirty' \in [Connections -> BOOLEAN]
      /\ UNCHANGED <<stored, started, troubled>>
      /\ \A d \in Connections : /\ Kept(attachment'[d]) \subseteq Kept(attachment[d])
                                /\ dirty'[d] => dirty[d]
                                /\ ~ dirty'[d] /\ Kept(attachment'[d]) # {} => ~ dirty[d]
      /\ config.validator => ~ dirty'[c]
  BY <1>1, GivenBackKeeps
<1>3. /\ tx' \in [Connections -> {"none", "open", "ended"}]
      /\ \A d \in Connections : d # c => tx'[d] = tx[d]
  BY <1>1 DEF LeaseInv, Typed
<1>4. \A o \in Ops : Busy(o) => op[o].conn # c
  BY <1>1 DEF On, Busy
<1>5. \A o \in Ops : op[o].conn \in Connections
  BY DEF LeaseInv, Typed, OpState
<1>6. Typed' /\ RowsOK' /\ Numbered'
  BY <1>1, <1>2, <1>3 DEF LeaseInv, Typed, RowsOK, Numbered
<1>7. Leased'
  BY <1>1, <1>3, <1>4, <1>5 DEF LeaseInv, Leased, Busy
<1>8. Owned'
  BY <1>1, <1>2 DEF LeaseInv, Owned, Answers
<1>9. DirtyIsLeased'
  <2> SUFFICES ASSUME config.validator, NEW d \in Connections, dirty'[d] PROVE ~ Free(d)'
    BY <1>1 DEF DirtyIsLeased
  <2>1. d # c /\ ~ Free(d)
    BY <1>2 DEF LeaseInv, DirtyIsLeased
  <2> QED
    BY <1>1, <1>3, <2>1 DEF Free, On
<1>10. Known'
  BY <1>1, <1>2 DEF LeaseInv, Known, Held
<1>11. SessionOK'
  BY <1>1, <1>2 DEF LeaseInv, SessionOK
<1> QED
  BY <1>6, <1>7, <1>8, <1>9, <1>10, <1>11 DEF LeaseInv

LEMMA BeginKeeps ==
    ASSUME LeaseInv, NEW c \in Connections, Begin(c)
    PROVE  LeaseInv'
<1>1. /\ On(c) = {} /\ tx' = [tx EXCEPT ![c] = "open"] /\ UNCHANGED <<config, op, rows>>
      /\ UNCHANGED <<attachment, stored, started, dirty, troubled>>
  BY DEF Begin, Free, profilerVars
<1>2. /\ tx' \in [Connections -> {"none", "open", "ended"}]
      /\ tx'[c] = "open" /\ \A d \in Connections : d # c => tx'[d] = tx[d]
  BY <1>1 DEF LeaseInv, Typed
<1>3. \A o \in Ops : Busy(o) => op[o].conn # c
  BY <1>1 DEF On, Busy
<1>4. \A o \in Ops : op[o].conn \in Connections
  BY DEF LeaseInv, Typed, OpState
<1>5. Typed' /\ RowsOK' /\ Numbered' /\ Owned' /\ Known' /\ SessionOK'
  BY <1>1, <1>2 DEF LeaseInv, Typed, RowsOK, Numbered, Owned, Answers, Known, Held, SessionOK
<1>6. Leased'
  BY <1>1, <1>2, <1>3, <1>4 DEF LeaseInv, Leased, Busy
<1>7. DirtyIsLeased'
  BY <1>1, <1>2 DEF LeaseInv, DirtyIsLeased, Free, On
<1> QED
  BY <1>5, <1>6, <1>7 DEF LeaseInv

-----------------------------------------------------------------------------
(* The steps that touch no session. *)

LEMMA RowsStepKeeps ==
    ASSUME LeaseInv, UNCHANGED <<config, op, tx, attachment, started, dirty, troubled>>,
           stored' \subseteq stored,
           rows' \in [Ops -> RowsState],
           \A o \in Ops : rows'[o].pc \in {"open", "checking"} => rows[o].pc \in {"open", "checking"}
    PROVE  LeaseInv'
<1>1. Typed' /\ RowsOK' /\ Leased'
  BY DEF LeaseInv, Typed, RowsOK, Leased, Busy
<1>2. Owned' /\ DirtyIsLeased' /\ Known'
  BY DEF LeaseInv, Owned, Answers, DirtyIsLeased, Free, On, Known, Held
<1>3. SessionOK' /\ Numbered'
  BY DEF LeaseInv, SessionOK, Numbered
<1> QED
  BY <1>1, <1>2, <1>3 DEF LeaseInv

\* Callbacks, fetches and the closing of rows.
LEMMA RowsKeep ==
    ASSUME LeaseInv, NEW o \in Ops,
           \/ \E k \in Causes : Signal(o, k)
           \/ \E answer \in {"row", "set", "end", "error"} : FetchRow(o, answer)
           \/ \E answer \in {"set", "end", "error"} : NextResultSet(o, answer)
           \/ \E e \in {"none", "error"} : Close(o, e)
           \/ CloseChecks(o)
    PROVE  LeaseInv'
<1> DEFINE r == rows[o]
<1>1. r \in RowsState /\ Causing(o) \in SUBSET Causes
  BY DEF LeaseInv, RowsOK, Causing, Causes
<1>2. UNCHANGED <<config, op, tx, attachment, started, dirty, troubled, stored>>
  BY DEF Signal, FetchRow, NextResultSet, Close, CloseChecks, profilerVars
<1>3. ASSUME NEW v \in RowsState, rows' = [rows EXCEPT ![o] = v],
             v.pc \in {"open", "checking"} => r.pc \in {"open", "checking"}
      PROVE  LeaseInv'
  BY <1>2, <1>3, RowsStepKeeps DEF LeaseInv, RowsOK
<1>4. ASSUME NEW k \in Causes, Signal(o, k) PROVE LeaseInv'
  <2>1. Callback(r, k) \in RowsState /\ Callback(r, k).pc = r.pc
    BY <1>1, RowsStayTyped
  <2> QED
    BY <1>3, <1>4, <2>1 DEF Signal
<1>5. ASSUME NEW a \in {"row", "set", "end", "error"}, FetchRow(o, a) \/ NextResultSet(o, a) PROVE LeaseInv'
  <2>1. Fetched(r, a) \in RowsState /\ Fetched(r, a).pc = r.pc
    BY <1>1, RowsStayTyped
  <2> QED
    BY <1>3, <1>5, <2>1 DEF FetchRow, NextResultSet
<1>6. ASSUME NEW e \in {"none", "error"}, Close(o, e) PROVE LeaseInv'
  <2>1. CloseBegun(r, e, Causing(o)) \in RowsState /\ r.pc = "open"
    BY <1>1, <1>6, RowsStayTyped DEF Close
  <2> QED
    BY <1>3, <1>6, <2>1 DEF Close
<1>7. ASSUME CloseChecks(o) PROVE LeaseInv'
  <2>1. r.pc = "checking" /\ r.check <= 2 /\ rows' = [rows EXCEPT ![o] = Checked(r, CauseAt[r.check], Causing(o))]
    BY <1>7 DEF CloseChecks
  <2>2. CauseAt[r.check] \in Causes
    <3>1. r.check \in 1..3
      BY <1>1 DEF RowsState
    <3>2. r.check = 1 \/ r.check = 2
      BY <2>1, <3>1
    <3> QED
      BY <3>2 DEF CauseAt, Causes
  <2>3. Checked(r, CauseAt[r.check], Causing(o)) \in RowsState
    BY <1>1, <2>1, <2>2, RowsStayTyped
  <2> QED
    BY <1>3, <2>1, <2>3
<1> QED
  BY <1>4, <1>5, <1>6, <1>7

LEMMA OthersKeep ==
    ASSUME LeaseInv, Sweep \/ (\E x \in Ops \cup Connections : Cancel(x)) \/ UNCHANGED vars
    PROVE  LeaseInv'
<1>1. /\ UNCHANGED <<config, op, rows, tx, attachment, started, dirty, troubled>>
      /\ stored' \subseteq stored
  BY DEF Sweep, Cancel, CleanupStale, vars, profilerVars
<1> QED
  BY <1>1, RowsStepKeeps DEF LeaseInv, RowsOK

-----------------------------------------------------------------------------

LEMMA LeaseInit == Init => LeaseInv
<1> SUFFICES ASSUME Init PROVE LeaseInv
  OBVIOUS
<1>1. NewOp \in OpState /\ NewOp.pc = "idle" /\ NewOp.session = NoSession
  BY NewOpTyped
<1>2. op = [o \in Ops |-> NewOp] /\ rows = [o \in Ops |-> NoRows] /\ tx = [c \in Connections |-> "none"]
      /\ attachment = [c \in Connections |-> NewAttachment] /\ stored = {} /\ started = 0
      /\ dirty = [c \in Connections |-> FALSE] /\ troubled = {} /\ config \in Configs
  BY DEF Init, ProfilerInit
<1>3. NewAttachment \in Attached /\ Kept(NewAttachment) = {}
  BY NewKept
<1>4. NoRows \in RowsState /\ NoRows.pc = "none"
  BY OpenedTyped
<1>5. Typed
  BY <1>1, <1>2, <1>3, SessionsAssumption DEF Typed
<1>6. RowsOK /\ Leased
  BY <1>1, <1>2, <1>4 DEF RowsOK, Leased, Busy
<1>7. Owned /\ DirtyIsLeased /\ Known /\ Numbered
  BY <1>2, <1>3 DEF Owned, DirtyIsLeased, Known, Numbered
<1>8. SessionOK
  BY <1>1, <1>2, <1>3 DEF SessionOK, Stages, NoSession
<1> QED
  BY <1>5, <1>6, <1>7, <1>8 DEF LeaseInv

LEMMA LeaseStep == LeaseInv /\ [Next]_vars => LeaseInv'
<1> SUFFICES ASSUME LeaseInv, [Next]_vars PROVE LeaseInv'
  OBVIOUS
<1>1. CASE \E c \in Connections : Begin(c) \/ EndTx(c)
  BY <1>1, BeginKeeps, EndTxKeeps
<1>2. CASE \E o \in Ops, c \in Connections, inTx, profiled \in BOOLEAN, result \in Results :
              Call(o, c, inTx, profiled, result)
  BY <1>2, CallKeeps
<1>3. ASSUME NEW o \in Ops, Return(o) PROVE LeaseInv'
  BY <1>3, ReturnKeeps
<1>4. ASSUME NEW o \in Ops, Completing(o) PROVE LeaseInv'
  BY <1>4, RowsKeep, CloseEndsKeeps, FinishStageKeeps, CancelStageKeeps, ReportStageKeeps,
     DeleteStageKeeps DEF Completing
<1>5. ASSUME NEW o \in Ops,
             \/ \E k \in Causes : Signal(o, k)
             \/ \E answer \in {"row", "set", "end", "error"} : FetchRow(o, answer)
             \/ \E answer \in {"set", "end", "error"} : NextResultSet(o, answer)
             \/ \E e \in {"none", "error"} : Close(o, e)
      PROVE  LeaseInv'
  BY <1>5, RowsKeep
<1>6. CASE Sweep \/ (\E x \in Ops \cup Connections : Cancel(x)) \/ UNCHANGED vars
  BY <1>6, OthersKeep
<1> QED
  BY <1>1, <1>2, <1>3, <1>4, <1>5, <1>6 DEF Next

-----------------------------------------------------------------------------

\* The sessions of a pool are known to the calls that hold its connections
\* (profile_scope.go:20-73, client.go:132): LeaseInv holds of every behaviour.
THEOREM LeasesKnowSessions == Spec => []LeaseInv
<1>1. Init => LeaseInv
  BY LeaseInit
<1>2. LeaseInv /\ [Next]_vars => LeaseInv'
  BY LeaseStep
<1> QED
  BY <1>1, <1>2, PTL DEF Spec

\* Whatever commands of the profiler fail, and wherever they are lost, a
\* connection that database/sql may lease again has no session left of an
\* earlier lease, for any number of calls and connections (client.go:132).
THEOREM ReusableIsCleanAlways == Spec => []ReusableIsClean
<1>1. LeaseInv => ReusableIsClean
  <2> SUFFICES ASSUME LeaseInv, config.validator, NEW c \in Connections, Free(c)
               PROVE  attachment[c] = NewAttachment
    BY DEF ReusableIsClean
  <2>1. ~ dirty[c]
    BY DEF LeaseInv, DirtyIsLeased
  <2>2. \A o \in Ops : op[o].conn = c => op[o].pc \in {"idle", "done"}
    BY DEF Free, On
  <2>3. Kept(attachment[c]) = {}
    BY <2>1, <2>2 DEF LeaseInv, Owned, Answers
  <2> QED
    BY <2>3, NewKept DEF LeaseInv, Typed
<1> QED
  BY <1>1, LeasesKnowSessions, PTL

\* Nothing stays in the profiler's tables without a call that still has to
\* delete it, or a failure for CleanupStale to repair (runtime.go:196-283).
THEOREM NothingLeftStoredAlways == Spec => []NothingLeftStored
<1>1. LeaseInv => NothingLeftStored
  BY DEF LeaseInv, Known, NothingLeftStored
<1> QED
  BY <1>1, LeasesKnowSessions, PTL

-----------------------------------------------------------------------------
(* TypeOK: what the sessions and the bounds add to the types of LeaseInv. *)

Bounded ==
    /\ cancelled \subseteq Ops \cup Connections
    /\ \A s \in Sessions : s > started => work[s] = {}
    /\ troubled \subseteq 1..started
    /\ failures \in 0..MaxFailures

LEMMA MeasuredIn ==
    ASSUME NEW w, NEW a, NEW x, NEW s \in Sessions
    PROVE  Measured(w, a, x)[s] = IF s \in Current(a) THEN w[s] \cup {x} ELSE w[s]
  BY DEF Measured

LEMMA FailuresCounted ==
    ASSUME failures \in 0..MaxFailures, NEW n \in Nat, Fail(n)
    PROVE  failures' \in 0..MaxFailures
  BY SessionsAssumption DEF Fail

LEMMA CallBounded ==
    ASSUME LeaseInv, Bounded, NEW o \in Ops, NEW c \in Connections, NEW inTx \in BOOLEAN,
           NEW profiled \in BOOLEAN, NEW result \in Results,
           Call(o, c, inTx, profiled, result)
    PROVE  Bounded'
<1>1. PICK so \in Outcomes, co \in Outcomes, xo \in Outcomes :
         AfterCall(o, c, inTx, profiled, result, so, co, xo)
  BY DEF Call
<1> DEFINE s       == started + 1
           begun   == IF profiled THEN Started(attachment[c], s, so, co) ELSE attachment[c]
           fails   == Troubles(profiled, result, so, co, xo)
           executed == result \in {"result", "rows"}
<1>2. /\ profiled => s \in Sessions
      /\ started' = IF profiled THEN s ELSE started
      /\ Fail(fails)
      /\ troubled' = IF fails > 0 THEN troubled \cup {s} ELSE troubled
      /\ work' = IF executed THEN Measured(work, begun, o) ELSE work
      /\ cancelled' = cancelled
  BY <1>1 DEF AfterCall, Call
<1>3. /\ started \in 0..MaxSessions /\ attachment[c] \in Attached
      /\ Kept(attachment[c]) \subseteq 1..started
  BY DEF LeaseInv, Typed, Numbered
<1>4. fails \in Nat /\ (fails > 0 => profiled)
  <2>1. Failed(so) \in Nat /\ Failed(co) \in Nat /\ Failed(xo) \in Nat
    BY DEF Failed
  <2> QED
    BY <2>1 DEF Troubles
<1>5. Current(begun) \subseteq 1..started'
  <2>1. Kept(begun) \subseteq Kept(attachment[c]) \cup (IF profiled THEN {s} ELSE {})
    BY <1>2, <1>3, StartedKept
  <2>2. Current(begun) \subseteq Kept(begun)
    BY DEF Kept
  <2> HIDE DEF begun
  <2> QED
    BY <1>2, <1>3, <2>1, <2>2
<1> HIDE DEF begun, fails, executed
<1>6. started' \in Nat /\ started <= started'
  BY <1>2, <1>3
<1>7. \A x \in Sessions : x > started' => work'[x] = {}
  <2> SUFFICES ASSUME NEW x \in Sessions, x > started' PROVE work'[x] = {}
    OBVIOUS
  <2>1. x \notin Current(begun) /\ x > started
    BY <1>3, <1>5, <1>6 DEF Sessions
  <2>2. Measured(work, begun, o)[x] = work[x]
    BY <2>1, MeasuredIn
  <2>3. work[x] = {}
    BY <2>1 DEF Bounded
  <2> QED
    BY <1>2, <2>2, <2>3
<1>8. troubled' \subseteq 1..started'
  <2>1. troubled \subseteq 1..started /\ 1..started \subseteq 1..started'
    BY <1>3, <1>6 DEF Bounded
  <2>2. CASE fails > 0
    <3>1. started' = s /\ troubled' = troubled \cup {s}
      BY <1>2, <1>4, <2>2
    <3>2. s \in 1..started'
      BY <1>3, <3>1
    <3> QED
      BY <2>1, <3>1, <3>2
  <2>3. CASE ~ (fails > 0)
    BY <1>2, <2>1, <2>3
  <2> QED
    BY <2>2, <2>3
<1>9. failures' \in 0..MaxFailures
  BY <1>2, <1>4, FailuresCounted DEF Bounded
<1> QED
  BY <1>2, <1>7, <1>8, <1>9 DEF Bounded

LEMMA FetchBounded ==
    ASSUME LeaseInv, Bounded, NEW o \in Ops, NEW answer, FetchRow(o, answer)
    PROVE  Bounded'
<1>1. /\ work' = Measured(work, attachment[op[o].conn], o)
      /\ UNCHANGED <<cancelled, started, troubled, failures>>
  BY DEF FetchRow
<1>2. op[o].conn \in Connections /\ started \in Nat
  BY DEF LeaseInv, Typed, OpState
<1>3. Current(attachment[op[o].conn]) \subseteq 1..started
  BY <1>2 DEF LeaseInv, Numbered, Kept
<1>4. ASSUME NEW x \in Sessions, x > started PROVE work'[x] = {}
  <2>1. x \notin Current(attachment[op[o].conn])
    BY <1>2, <1>3, <1>4 DEF Sessions
  <2>2. work'[x] = work[x]
    BY <1>1, <1>4, <2>1, MeasuredIn
  <2> QED
    BY <1>4, <2>2 DEF Bounded
<1> QED
  BY <1>1, <1>4 DEF Bounded

\* The stages of Finish count their failures.
LEMMA StagesBounded ==
    ASSUME LeaseInv, Bounded, NEW o \in Ops,
           FinishStage(o) \/ CancelStage(o) \/ ReportStage(o) \/ DeleteStage(o)
    PROVE  Bounded'
<1>1. op[o].session \in 1..started
  <2>1. op[o].pc \in Stages
    BY DEF FinishStage, CancelStage, ReportStage, DeleteStage, Stage, Stages
  <2> QED
    BY <2>1 DEF LeaseInv, SessionOK, NoSession
<1>2. /\ UNCHANGED <<cancelled, started, work>>
      /\ \/ Fail(0) \/ Fail(1)
      /\ \E r : troubled' = Trouble(op[o].session, r) \/ troubled' = troubled
  BY DEF FinishStage, CancelStage, ReportStage, DeleteStage, Stage, Finish, CancelUnfinished, Report,
         DeleteAgain, DeleteLast, Failed
<1>3. failures' \in 0..MaxFailures
  BY <1>2, FailuresCounted DEF Bounded
<1>4. troubled' \subseteq 1..started
  BY <1>1, <1>2 DEF Bounded, Trouble
<1> QED
  BY <1>2, <1>3, <1>4 DEF Bounded

LEMMA BoundedStep ==
    ASSUME LeaseInv, Bounded, [Next]_vars
    PROVE  Bounded'
<1>1. CASE \E o \in Ops, c \in Connections, inTx, profiled \in BOOLEAN, result \in Results :
              Call(o, c, inTx, profiled, result)
  BY <1>1, CallBounded
<1>2. CASE \E o \in Ops : FinishStage(o) \/ CancelStage(o) \/ ReportStage(o) \/ DeleteStage(o)
  BY <1>2, StagesBounded
<1>3. CASE \E o \in Ops, answer \in {"row", "set", "end", "error"} : FetchRow(o, answer)
  BY <1>3, FetchBounded
<1>4. CASE \/ \E c \in Connections : EndTx(c)
           \/ \E o \in Ops : Return(o)
  BY <1>4 DEF EndTx, Return, GivenBack, Bounded, profilerVars
<1>5. CASE \/ \E c \in Connections : Begin(c)
           \/ \E x \in Ops \cup Connections : Cancel(x)
           \/ \E o \in Ops : \/ CloseChecks(o) \/ CloseEnds(o)
                             \/ \E k \in Causes : Signal(o, k)
                             \/ \E answer \in {"set", "end", "error"} : NextResultSet(o, answer)
                             \/ \E e \in {"none", "error"} : Close(o, e)
           \/ Sweep
           \/ UNCHANGED vars
  BY <1>5 DEF Begin, Cancel, CloseChecks, CloseEnds, Signal, NextResultSet, Close, Sweep, CleanupStale,
              vars, profilerVars, Bounded
<1> QED
  BY <1>1, <1>2, <1>3, <1>4, <1>5 DEF Next, Completing

\* The variables keep their types, and the failures, the sessions and the
\* marks of failed sessions stay within what was started (runtime.go:166-195).
THEOREM StatesAreTyped == Spec => []TypeOK
<1>1. Init => Bounded
  BY SessionsAssumption DEF Init, ProfilerInit, Bounded, Sessions
<1>2. LeaseInv /\ Bounded /\ [Next]_vars => Bounded'
  BY BoundedStep
<1>3. LeaseInv /\ Bounded => TypeOK
  BY DEF LeaseInv, Typed, RowsOK, Attached, Bounded, TypeOK, ProfilerTypeOK
<1> QED
  BY <1>1, <1>2, <1>3, LeasesKnowSessions, PTL DEF Spec

-----------------------------------------------------------------------------
(* OutcomeIsTrue: what rows know of their contexts, from open to closed.   *)

Plain == {"none", "error"}

\* Of rows at any time; done are the causes whose context is cancelled.
Honest(r, done, inTx) ==
    /\ r.nextErr \in Plain /\ r.closeErr \in Plain
    /\ r.tx => inTx
    /\ \A k \in Causes : r.signal[k] = "sent" => k \in done
    /\ r.pc # "closed" => r.outcome = ""

\* Of rows being closed: a context that was done when Close began has been
\* observed, unless the end was, or its entry has still to be looked at.
Observing(r, done) ==
    /\ r.observed \in {r.nextErr, "canceled"}
    /\ r.nextErr # "none" => r.observed = r.nextErr
    /\ r.observed = "canceled" => ~ r.eof /\ done # {}
    /\ r.due \subseteq done
    /\ \/ r.eof \/ r.observed # "none"
       \/ \A k \in r.due : /\ r.signal[k] # "absent"
                           /\ r.check # 3
                           /\ k = "query" => r.check = 1

\* Of rows that are closed: the body of OutcomeIsTrue.
Told(r, done, inTx) ==
    r.outcome # "" =>
       /\ r.outcome = "eof" <=> r.eof /\ r.nextErr = "none" /\ r.closeErr = "none"
       /\ r.nextErr # "none" => r.outcome = r.nextErr
       /\ r.nextErr = "none" /\ ~ r.eof /\ r.due # {} => r.outcome = "canceled"
       /\ r.outcome = "canceled" => done # {}
       /\ r.outcome = "transaction_close_unknown" => inTx

Tells(r, done, inTx) ==
    /\ r \in RowsState
    /\ Honest(r, done, inTx)
    /\ r.pc = "checking" => Observing(r, done)
    /\ r.pc = "closed" => Told(r, done, inTx)

LEMMA NoRowsTell ==
    ASSUME NEW done, NEW inTx \in BOOLEAN
    PROVE  Tells(NoRows, done, inTx)
<1>1. NoRows \in RowsState
  BY OpenedTyped
<1> QED
  BY <1>1 DEF Tells, Honest, NoRows, Plain, Causes

LEMMA OpenedTells ==
    ASSUME NEW span \in BOOLEAN, NEW inTx \in BOOLEAN, NEW done
    PROVE  Tells(Opened(span, inTx), done, inTx) /\ Opened(span, inTx).pc = "open"
<1> DEFINE q == Opened(span, inTx)
<1>1. q \in RowsState
  BY OpenedTyped
<1>2. /\ q.pc = "open" /\ q.outcome = "" /\ q.nextErr = "none" /\ q.closeErr = "none"
      /\ q.tx = (span /\ inTx)
      /\ q.signal = [k \in Causes |-> IF span /\ (k = "query" \/ inTx) THEN "armed" ELSE "absent"]
  BY DEF Opened, NoRows
<1> HIDE DEF q
<1>3. \A k \in Causes : q.signal[k] # "sent"
  BY <1>2
<1>4. q.tx => inTx
  BY <1>2
<1>5. Honest(q, done, inTx)
  BY <1>2, <1>3, <1>4 DEF Honest, Plain
<1> QED
  BY <1>1, <1>2, <1>5 DEF Tells, q

\* More contexts may be done later.
LEMMA MoreAreDone ==
    ASSUME NEW r, NEW done, NEW more, NEW inTx \in BOOLEAN, Tells(r, done, inTx), done \subseteq more
    PROVE  Tells(r, more, inTx)
<1>1. Honest(r, more, inTx)
  BY DEF Tells, Honest
<1>2. r.pc = "checking" => Observing(r, more)
  BY DEF Tells, Observing
<1>3. r.pc = "closed" => Told(r, more, inTx)
  BY DEF Tells, Told
<1> QED
  BY <1>1, <1>2, <1>3 DEF Tells

LEMMA CallbackTells ==
    ASSUME NEW r, NEW done, NEW inTx \in BOOLEAN, Tells(r, done, inTx), NEW k \in Causes, k \in done
    PROVE  Tells(Callback(r, k), done, inTx) /\ Callback(r, k).pc = r.pc
<1> DEFINE q == Callback(r, k)
<1>1. r \in RowsState
  BY DEF Tells
<1>2. q \in RowsState /\ q.pc = r.pc
  BY <1>1, RowsStayTyped
<1>3. q = [r EXCEPT !.signal = [r.signal EXCEPT ![k] = "sent"]]
  BY <1>1 DEF Callback, RowsState
<1>4. /\ q.signal = [r.signal EXCEPT ![k] = "sent"]
      /\ q.nextErr = r.nextErr /\ q.closeErr = r.closeErr /\ q.tx = r.tx /\ q.outcome = r.outcome
      /\ q.observed = r.observed /\ q.eof = r.eof /\ q.due = r.due /\ q.check = r.check
  BY <1>1, <1>3 DEF RowsState
<1> HIDE DEF q
<1>5. \A j \in Causes : q.signal[j] = IF j = k THEN "sent" ELSE r.signal[j]
  BY <1>1, <1>4 DEF RowsState
<1>6. Honest(q, done, inTx)
  BY <1>2, <1>4, <1>5 DEF Tells, Honest
<1>7. r.pc = "checking" => Observing(q, done)
  <2>1. r.due \subseteq Causes
    BY <1>1 DEF RowsState
  <2> QED
    BY <1>4, <1>5, <2>1 DEF Tells, Observing
<1>8. r.pc = "closed" => Told(q, done, inTx)
  BY <1>4 DEF Tells, Told
<1> QED
  BY <1>2, <1>6, <1>7, <1>8 DEF Tells, q

LEMMA FetchedTells ==
    ASSUME NEW r, NEW done, NEW inTx \in BOOLEAN, Tells(r, done, inTx), r.pc = "open",
           NEW answer \in {"row", "set", "end", "error"}
    PROVE  Tells(Fetched(r, answer), done, inTx) /\ Fetched(r, answer).pc = "open"
<1> DEFINE q == Fetched(r, answer)
<1>1. r \in RowsState
  BY DEF Tells
<1>2. q \in RowsState /\ q.pc = "open"
  BY <1>1, RowsStayTyped
<1>3. /\ q.signal = r.signal /\ q.closeErr = r.closeErr /\ q.tx = r.tx /\ q.outcome = r.outcome
      /\ q.nextErr = r.nextErr \/ q.nextErr = "error"
  BY <1>1 DEF Fetched, RowsState
<1> HIDE DEF q
<1>4. Honest(q, done, inTx)
  BY <1>2, <1>3 DEF Tells, Honest, Plain
<1> QED
  BY <1>2, <1>4 DEF Tells, q

LEMMA CloseBegunTells ==
    ASSUME NEW r, NEW done \in SUBSET Causes, NEW inTx \in BOOLEAN, Tells(r, done, inTx), r.pc = "open",
           NEW e \in {"none", "error"}
    PROVE  Tells(CloseBegun(r, e, done), done, inTx) /\ CloseBegun(r, e, done).pc = "checking"
<1> DEFINE q == CloseBegun(r, e, done)
<1>1. r \in RowsState
  BY DEF Tells
<1>2. q \in RowsState /\ q.pc = "checking"
  BY ZenonT(40), <1>1, RowsStayTyped
<1>3. /\ q.signal = r.signal /\ q.closeErr = e /\ q.tx = r.tx /\ q.outcome = r.outcome
      /\ q.nextErr = r.nextErr /\ q.observed = r.nextErr /\ q.check = 1
      /\ q.due = {k \in done : r.signal[k] # "absent"}
  BY <1>1 DEF CloseBegun, RowsState
<1> HIDE DEF q
<1>4. Honest(q, done, inTx)
  BY <1>2, <1>3 DEF Tells, Honest, Plain
<1>5. r.nextErr \in Plain
  BY DEF Tells, Honest
<1>6. Observing(q, done)
  BY <1>3, <1>5 DEF Observing, Plain
<1> QED
  BY <1>2, <1>4, <1>6 DEF Tells, q

\* One round of the loop, once the error it waits for has been sent.
LEMMA CheckedTells ==
    ASSUME NEW r, NEW done \in SUBSET Causes, NEW inTx \in BOOLEAN, Tells(r, done, inTx),
           r.pc = "checking", r.check <= 2,
           MustWait(r, CauseAt[r.check], done) => r.signal[CauseAt[r.check]] = "sent"
    PROVE  /\ Tells(Checked(r, CauseAt[r.check], done), done, inTx)
           /\ Checked(r, CauseAt[r.check], done).pc = "checking"
<1> DEFINE k == CauseAt[r.check]
           q == Checked(r, k, done)
           seen == IF k \in done /\ ~ r.eof /\ r.observed = "none" /\ r.signal[k] = "sent"
                   THEN "canceled" ELSE r.observed
<1>1. r \in RowsState /\ r.check \in {1, 2}
  <2>1. r \in RowsState /\ r.check \in 1..3
    BY DEF Tells, RowsState
  <2> QED
    BY <2>1
<1>2. /\ k \in Causes
      /\ k = "query" <=> r.check = 1
  BY <1>1 DEF CauseAt, Causes
<1> HIDE DEF k
<1>3. q \in RowsState /\ q.pc = "checking"
  BY ZenonT(40), <1>1, <1>2, RowsStayTyped
<1>4. q = [r EXCEPT !.observed = seen, !.signal = [r.signal EXCEPT ![k] = "absent"], !.check = r.check + 1]
  BY <1>1 DEF Checked, RowsState
<1>5. /\ q.signal = [r.signal EXCEPT ![k] = "absent"]
      /\ q.nextErr = r.nextErr /\ q.closeErr = r.closeErr /\ q.tx = r.tx /\ q.outcome = r.outcome
      /\ q.observed = seen /\ q.eof = r.eof /\ q.due = r.due /\ q.check = r.check + 1
  <2> HIDE DEF seen, q
  <2> QED
    BY <1>1, <1>4 DEF RowsState
<1> HIDE DEF q
<1>6. \A j \in Causes : q.signal[j] = IF j = k THEN "absent" ELSE r.signal[j]
  BY <1>1, <1>5 DEF RowsState
<1>7. Honest(q, done, inTx)
  BY <1>3, <1>5, <1>6 DEF Tells, Honest
<1>8. Observing(r, done) /\ Honest(r, done, inTx)
  BY DEF Tells
<1>9. /\ seen \in {r.nextErr, "canceled"}
      /\ r.nextErr # "none" => seen = r.nextErr
      /\ seen = "canceled" => ~ r.eof /\ done # {}
  BY <1>8 DEF Observing
<1>10. r.eof \/ seen # "none" \/
       \A j \in r.due : r.signal[j] # "absent" /\ j # k
  <2> SUFFICES ASSUME ~ r.eof, seen = "none", NEW j \in r.due PROVE r.signal[j] # "absent" /\ j # k
    OBVIOUS
  <2>1. r.observed = "none"
    BY <1>8
  <2>2. r.signal[j] # "absent" /\ j \in done
    BY <1>8, <2>1 DEF Observing
  <2>3. ASSUME j = k PROVE FALSE
    <3>1. r.signal[k] = "sent"
      BY <2>2, <2>3 DEF MustWait, k
    <3> QED
      BY <2>1, <2>2, <2>3, <3>1
  <2> QED
    BY <2>2, <2>3
<1>11. ASSUME ~ r.eof, seen = "none", NEW j \in r.due
       PROVE  /\ q.signal[j] # "absent"
              /\ q.check # 3
              /\ j = "query" => q.check = 1
  <2>1. r.signal[j] # "absent" /\ j # k /\ r.observed = "none"
    BY <1>10, <1>11
  <2>2. j \in Causes
    BY <1>1 DEF RowsState
  <2>3. j = "query" => r.check = 1
    BY <1>8, <1>11, <2>1 DEF Observing
  <2>4. j = "transaction" /\ r.check = 1
    BY <1>1, <1>2, <2>1, <2>2, <2>3 DEF Causes, CauseAt, k
  <2> QED
    BY <1>5, <1>6, <2>1, <2>2, <2>4
<1>12. Observing(q, done)
  <2>1. q.due \subseteq done
    BY <1>5, <1>8 DEF Observing
  <2> HIDE DEF seen
  <2> QED
    BY <1>5, <1>9, <1>11, <2>1 DEF Observing
<1> QED
  BY <1>3, <1>7, <1>12 DEF Tells, q, k

LEMMA ClosedTells ==
    ASSUME NEW r, NEW done \in SUBSET Causes, NEW inTx \in BOOLEAN, Tells(r, done, inTx),
           r.pc = "checking", r.check = 3
    PROVE  Tells(Closed(r), done, inTx) /\ Closed(r).pc = "closed"
<1> DEFINE q == Closed(r)
<1>1. r \in RowsState
  BY DEF Tells
<1>2. q \in RowsState /\ q.pc = "closed"
  BY <1>1, RowsStayTyped
<1>3. /\ q.signal = r.signal /\ q.nextErr = r.nextErr /\ q.closeErr = r.closeErr /\ q.tx = r.tx
      /\ q.eof = r.eof /\ q.due = r.due
      /\ q.outcome = "" \/ q.outcome = Outcome(r)
  BY <1>1 DEF Closed, RowsState
<1> HIDE DEF q
<1>4. Observing(r, done) /\ Honest(r, done, inTx)
  BY DEF Tells
<1>5. Honest(q, done, inTx)
  BY <1>2, <1>3, <1>4 DEF Honest
<1>6. r.nextErr \in Plain /\ r.closeErr \in Plain /\ (r.tx => inTx)
  BY <1>4 DEF Honest
<1>7. r.eof \/ r.observed # "none" \/ r.due = {}
  BY <1>4 DEF Observing
<1>8. /\ r.observed \in {r.nextErr, "canceled"}
      /\ r.nextErr # "none" => r.observed = r.nextErr
      /\ r.observed = "canceled" => ~ r.eof /\ done # {}
  BY <1>4 DEF Observing
<1>9. CASE q.outcome = Outcome(r)
  <2>1. CASE r.observed # "none"
    <3>1. q.outcome = r.observed
      BY <1>9, <2>1 DEF Outcome
    <3> QED
      BY <1>2, <1>3, <1>5, <1>6, <1>8, <2>1, <3>1 DEF Tells, Told, Plain, q
  <2>2. CASE r.observed = "none" /\ r.closeErr # "none"
    <3>1. q.outcome = "error"
      BY <1>6, <1>9, <2>2 DEF Outcome, Plain
    <3>2. r.nextErr = "none" /\ (r.eof \/ r.due = {})
      BY <1>7, <1>8, <2>2
    <3> QED
      BY <1>2, <1>3, <1>5, <2>2, <3>1, <3>2 DEF Tells, Told, q
  <2>3. CASE r.observed = "none" /\ r.closeErr = "none"
    <3>1. r.nextErr = "none" /\ (r.eof \/ r.due = {})
      BY <1>7, <1>8, <2>3
    <3>2. q.outcome = IF r.eof THEN "eof" ELSE IF r.tx THEN "transaction_close_unknown" ELSE "early_close"
      BY <1>9, <2>3 DEF Outcome
    <3> QED
      BY <1>2, <1>3, <1>5, <1>6, <2>3, <3>1, <3>2 DEF Tells, Told, q
  <2> QED
    BY <2>1, <2>2, <2>3
<1>10. CASE q.outcome = ""
  BY <1>2, <1>5, <1>10 DEF Tells, Told, q
<1> QED
  BY <1>3, <1>9, <1>10, <1>2 DEF q

\* The invariant of OutcomeIsTrue.
RowsTell(o) ==
    /\ Tells(rows[o], Causing(o), op[o].tx)
    /\ op[o].pc \in {"idle", "done"} => rows[o] = NoRows

RowsTellAll == \A o \in Ops : RowsTell(o)

\* Of a call whose rows a step leaves alone.
LEMMA StillTells ==
    ASSUME LeaseInv, NEW o \in Ops, RowsTell(o), rows'[o] = rows[o],
           op'[o].tx = op[o].tx,
           op'[o].pc \in {"idle", "done"} => op[o].pc \in {"idle", "done"},
           Causing(o) \subseteq Causing(o)'
    PROVE  RowsTell(o)'
<1>1. op[o].tx \in BOOLEAN
  BY DEF LeaseInv, Typed, OpState
<1>2. Tells(rows[o], Causing(o)', op[o].tx)
  BY <1>1, MoreAreDone DEF RowsTell
<1> QED
  BY <1>2 DEF RowsTell

LEMMA SameCauses ==
    ASSUME NEW o \in Ops, op'[o].conn = op[o].conn, cancelled' = cancelled
    PROVE  Causing(o)' = Causing(o)
  BY DEF Causing

LEMMA QuietTells ==
    ASSUME LeaseInv, RowsTellAll, rows' = rows, cancelled \subseteq cancelled',
           \A q \in Ops : /\ op'[q].conn = op[q].conn /\ op'[q].tx = op[q].tx
                          /\ op'[q].pc \in {"idle", "done"} => op[q].pc \in {"idle", "done"}
    PROVE  RowsTellAll'
<1> SUFFICES ASSUME NEW q \in Ops PROVE RowsTell(q)'
  BY DEF RowsTellAll
<1>1. Causing(q) \subseteq Causing(q)'
  BY DEF Causing
<1> QED
  BY <1>1, StillTells DEF RowsTellAll

LEMMA CallTells ==
    ASSUME LeaseInv, RowsTellAll, NEW o \in Ops, NEW c \in Connections, NEW inTx \in BOOLEAN,
           NEW profiled \in BOOLEAN, NEW result \in Results,
           Call(o, c, inTx, profiled, result)
    PROVE  RowsTellAll'
<1>1. PICK so \in Outcomes, co \in Outcomes, xo \in Outcomes :
         AfterCall(o, c, inTx, profiled, result, so, co, xo)
  BY DEF Call
<1>2. /\ op[o].pc = "idle" /\ cancelled' = cancelled
      /\ IF result = "rows" THEN rows' = [rows EXCEPT ![o] = Opened(config.rows, inTx)] ELSE rows' = rows
  BY DEF Call
<1>3. profiled => started + 1 \in Sessions
  BY <1>1 DEF AfterCall
<1>4. /\ \A q \in Ops : q # o => op'[q] = op[q]
      /\ op'[o].tx = inTx
      /\ op'[o].pc \in {"rows", "finishing", "returning"}
  BY <1>1, <1>3, CallOp
<1>5. rows \in [Ops -> RowsState] /\ config.rows \in BOOLEAN
  BY ConfigsAssumption DEF LeaseInv, RowsOK, Typed
<1>6. ASSUME NEW q \in Ops, q # o PROVE RowsTell(q)'
  <2>1. Causing(q)' = Causing(q)
    BY <1>2, <1>4, <1>6, SameCauses
  <2>2. rows'[q] = rows[q]
    BY <1>2, <1>5, <1>6
  <2> QED
    BY <1>4, <1>6, <2>1, <2>2, StillTells DEF RowsTellAll
<1>7. RowsTell(o)'
  <2>1. rows'[o] = Opened(config.rows, inTx) \/ rows'[o] = NoRows
    BY <1>2, <1>5 DEF RowsTellAll, RowsTell
  <2>2. Tells(rows'[o], Causing(o)', inTx)
    BY <1>5, <2>1, OpenedTells, NoRowsTell
  <2> QED
    BY <1>4, <2>2 DEF RowsTell
<1> QED
  BY <1>6, <1>7 DEF RowsTellAll

LEMMA ReturnTells ==
    ASSUME LeaseInv, RowsTellAll, NEW o \in Ops, Return(o)
    PROVE  RowsTellAll'
<1>1. /\ rows' = [rows EXCEPT ![o] = NoRows] /\ cancelled' = cancelled \ {o}
      /\ rows \in [Ops -> RowsState] /\ op \in [Ops -> OpState]
      /\ op' = [op EXCEPT ![o] = [NewOp EXCEPT !.pc = "done", !.conn = op[o].conn, !.tx = op[o].tx,
                                    !.start = op[o].start, !.finish = op[o].finish]]
  BY DEF Return, LeaseInv, RowsOK, Typed
<1>2. ASSUME NEW q \in Ops, q # o PROVE RowsTell(q)'
  <2>1. op'[q] = op[q] /\ rows'[q] = rows[q] /\ op[q].conn \in Connections
    BY <1>1, <1>2 DEF OpState
  <2>2. op[q].conn # o
    BY <2>1, NamesAssumption
  <2>3. Causing(q)' = Causing(q)
    BY <1>1, <1>2, <2>1, <2>2 DEF Causing
  <2> QED
    BY <2>1, <2>3, StillTells DEF RowsTellAll
<1>3. RowsTell(o)'
  <2>1. rows'[o] = NoRows
    BY <1>1
  <2>2. op'[o].tx \in BOOLEAN
    <3>1. op[o].tx \in BOOLEAN
      BY <1>1 DEF OpState
    <3> QED
      BY <1>1, <3>1 DEF NewOp
  <2> QED
    BY <2>1, <2>2, NoRowsTell DEF RowsTell
<1> QED
  BY <1>2, <1>3 DEF RowsTellAll

\* A step of the rows of one call.
LEMMA RowsStepTells ==
    ASSUME LeaseInv, RowsTellAll, NEW o \in Ops, op[o].pc = "rows", NEW r,
           Tells(r, Causing(o), op[o].tx),
           rows' = [rows EXCEPT ![o] = r], cancelled' = cancelled,
           \A q \in Ops : /\ op'[q].conn = op[q].conn /\ op'[q].tx = op[q].tx
                          /\ op'[q].pc \in {"idle", "done"} => op[q].pc \in {"idle", "done"}
    PROVE  RowsTellAll'
<1>1. rows \in [Ops -> RowsState]
  BY DEF LeaseInv, RowsOK
<1> SUFFICES ASSUME NEW q \in Ops PROVE RowsTell(q)'
  BY DEF RowsTellAll
<1>2. Causing(q)' = Causing(q)
  BY SameCauses
<1>3. CASE q # o
  <2>1. rows'[q] = rows[q]
    BY <1>1, <1>3
  <2> QED
    BY <1>2, <2>1, StillTells DEF RowsTellAll
<1>4. CASE q = o
  <2>1. rows'[o] = r /\ op'[o].tx = op[o].tx /\ op'[o].pc \notin {"idle", "done"}
    BY <1>1
  <2> QED
    BY <1>2, <1>4, <2>1 DEF RowsTell
<1> QED
  BY <1>3, <1>4

LEMMA RowsMoveTells ==
    ASSUME LeaseInv, RowsTellAll, NEW o \in Ops,
           \/ \E k \in Causes : Signal(o, k)
           \/ \E answer \in {"row", "set", "end", "error"} : FetchRow(o, answer)
           \/ \E answer \in {"set", "end", "error"} : NextResultSet(o, answer)
           \/ \E e \in {"none", "error"} : Close(o, e)
           \/ CloseChecks(o) \/ CloseEnds(o)
    PROVE  RowsTellAll'
<1> DEFINE r == rows[o]
<1>1. /\ Tells(r, Causing(o), op[o].tx) /\ op[o].tx \in BOOLEAN
      /\ Causing(o) \in SUBSET Causes
      /\ r.pc \in {"open", "checking"} => op[o].pc = "rows"
      /\ op \in [Ops -> OpState]
  BY DEF RowsTellAll, RowsTell, LeaseInv, Typed, RowsOK, OpState, Causing, Causes
<1>2. cancelled' = cancelled
  BY DEF Signal, FetchRow, NextResultSet, Close, CloseChecks, CloseEnds
<1>3. ASSUME NEW k \in Causes, Signal(o, k) PROVE RowsTellAll'
  <2>1. rows' = [rows EXCEPT ![o] = Callback(r, k)] /\ op' = op /\ k \in Causing(o) /\ r.signal[k] = "armed"
    BY <1>3 DEF Signal
  <2>2. Tells(Callback(r, k), Causing(o), op[o].tx)
    BY <1>1, <2>1, CallbackTells
  <2>3. op[o].pc \notin {"idle", "done"}
    <3>1. r # NoRows
      <4>1. NoRows.signal[k] = "absent"
        BY DEF NoRows
      <4> QED
        BY <2>1, <4>1
    <3> QED
      BY <3>1 DEF RowsTellAll, RowsTell
  <2> SUFFICES ASSUME NEW q \in Ops PROVE RowsTell(q)'
    BY DEF RowsTellAll
  <2>4. Causing(q)' = Causing(q)
    BY <1>2, <2>1, SameCauses
  <2>5. CASE q # o
    <3>1. rows'[q] = rows[q]
      BY <2>1, <2>5 DEF LeaseInv, RowsOK
    <3> QED
      BY <2>1, <2>4, <3>1, StillTells DEF RowsTellAll
  <2>6. CASE q = o
    <3>1. rows'[o] = Callback(r, k)
      BY <2>1 DEF LeaseInv, RowsOK
    <3> QED
      BY <2>1, <2>2, <2>3, <2>4, <2>6, <3>1 DEF RowsTell
  <2> QED
    BY <2>5, <2>6
<1>4. ASSUME NEW a \in {"row", "set", "end", "error"}, FetchRow(o, a) \/ NextResultSet(o, a) PROVE RowsTellAll'
  <2>1. rows' = [rows EXCEPT ![o] = Fetched(r, a)] /\ op' = op /\ r.pc = "open"
    BY <1>4 DEF FetchRow, NextResultSet, MayFetch
  <2>2. Tells(Fetched(r, a), Causing(o), op[o].tx)
    BY <1>1, <2>1, FetchedTells
  <2> QED
    BY <1>1, <1>2, <2>1, <2>2, RowsStepTells
<1>5. ASSUME NEW e \in {"none", "error"}, Close(o, e) PROVE RowsTellAll'
  <2>1. rows' = [rows EXCEPT ![o] = CloseBegun(r, e, Causing(o))] /\ op' = op /\ r.pc = "open"
    BY <1>5 DEF Close
  <2>2. Tells(CloseBegun(r, e, Causing(o)), Causing(o), op[o].tx)
    BY <1>1, <2>1, CloseBegunTells
  <2> QED
    BY <1>1, <1>2, <2>1, <2>2, RowsStepTells
<1>6. ASSUME CloseChecks(o) PROVE RowsTellAll'
  <2> DEFINE k == CauseAt[r.check]
  <2>1. /\ rows' = [rows EXCEPT ![o] = Checked(r, k, Causing(o))] /\ op' = op
        /\ r.pc = "checking" /\ r.check <= 2
        /\ MustWait(r, k, Causing(o)) => r.signal[k] = "sent"
    BY <1>6 DEF CloseChecks
  <2>2. Tells(Checked(r, k, Causing(o)), Causing(o), op[o].tx)
    BY <1>1, <2>1, CheckedTells
  <2> HIDE DEF k
  <2> QED
    BY <1>1, <1>2, <2>1, <2>2, RowsStepTells
<1>7. ASSUME CloseEnds(o) PROVE RowsTellAll'
  <2> DEFINE pc == IF op[o].session = NoSession THEN "returning" ELSE "finishing"
  <2>1. /\ rows' = [rows EXCEPT ![o] = Closed(r)] /\ op' = [op EXCEPT ![o].pc = pc]
        /\ r.pc = "checking" /\ r.check = 3
    BY <1>7 DEF CloseEnds
  <2>2. Tells(Closed(r), Causing(o), op[o].tx)
    BY <1>1, <2>1, ClosedTells
  <2>3. pc \notin {"idle", "done"}
    OBVIOUS
  <2> HIDE DEF pc
  <2>4. \A q \in Ops : /\ op'[q].conn = op[q].conn /\ op'[q].tx = op[q].tx
                       /\ op'[q].pc \in {"idle", "done"} => op[q].pc \in {"idle", "done"}
    BY <1>1, <2>1, <2>3 DEF OpState
  <2> QED
    BY <1>1, <1>2, <2>1, <2>2, <2>4, RowsStepTells
<1> QED
  BY <1>3, <1>4, <1>5, <1>6, <1>7

LEMMA StagesTell ==
    ASSUME LeaseInv, RowsTellAll, NEW o \in Ops,
           FinishStage(o) \/ CancelStage(o) \/ ReportStage(o) \/ DeleteStage(o)
    PROVE  RowsTellAll'
<1>1. op \in [Ops -> OpState]
  BY DEF LeaseInv, Typed
<1>2. /\ rows' = rows /\ cancelled' = cancelled
      /\ op[o].pc \in Stages
      /\ \E pc \in Stages \cup {"returning"} : \E f, n :
            op' = [op EXCEPT ![o] = [op[o] EXCEPT !.pc = pc, !.finish = f, !.attempt = n]]
  <2>1. ASSUME NEW r \in Outcomes,
               Stage(o, "finishing", [To(o, IF r = "ok" THEN "reporting" ELSE "cancelling") EXCEPT !.finish = r])
        PROVE  op' = [op EXCEPT ![o] = [op[o] EXCEPT !.pc = IF r = "ok" THEN "reporting" ELSE "cancelling",
                                                     !.finish = r, !.attempt = op[o].attempt]]
    BY <1>1, <2>1 DEF Stage, To, OpState
  <2>2. ASSUME NEW p, Stage(o, p, To(o, "deleting"))
        PROVE  op' = [op EXCEPT ![o] = [op[o] EXCEPT !.pc = "deleting", !.finish = op[o].finish,
                                                     !.attempt = op[o].attempt]]
    BY <1>1, <2>2 DEF Stage, To, OpState
  <2>3. ASSUME Stage(o, "deleting", [op[o] EXCEPT !.attempt = @ + 1])
        PROVE  op' = [op EXCEPT ![o] = [op[o] EXCEPT !.pc = "deleting", !.finish = op[o].finish,
                                                     !.attempt = op[o].attempt + 1]]
    BY <1>1, <2>3 DEF Stage, OpState
  <2>4. ASSUME Stage(o, "deleting", [op[o] EXCEPT !.pc = "returning", !.attempt = 1])
        PROVE  op' = [op EXCEPT ![o] = [op[o] EXCEPT !.pc = "returning", !.finish = op[o].finish,
                                                     !.attempt = 1]]
    BY <1>1, <2>4 DEF Stage, OpState
  <2>5. rows' = rows /\ cancelled' = cancelled /\ op[o].pc \in Stages
    BY DEF FinishStage, CancelStage, ReportStage, DeleteStage, Stage, Stages
  <2>6. \A r : (IF r = "ok" THEN "reporting" ELSE "cancelling") \in Stages
    BY DEF Stages
  <2>7. "deleting" \in Stages
    BY DEF Stages
  <2>8. CASE FinishStage(o)
    <3>1. PICK r \in Outcomes :
             Stage(o, "finishing", [To(o, IF r = "ok" THEN "reporting" ELSE "cancelling") EXCEPT !.finish = r])
      BY <2>8 DEF FinishStage
    <3> DEFINE pc == IF r = "ok" THEN "reporting" ELSE "cancelling"
    <3>2. op' = [op EXCEPT ![o] = [op[o] EXCEPT !.pc = pc, !.finish = r, !.attempt = op[o].attempt]]
      BY <2>1, <3>1
    <3>3. pc \in Stages \cup {"returning"}
      BY <2>6
    <3> HIDE DEF pc
    <3> QED
      BY <2>5, <3>2, <3>3
  <2>9. CASE CancelStage(o) \/ ReportStage(o)
    BY <2>2, <2>5, <2>7, <2>9 DEF CancelStage, ReportStage
  <2>10. CASE DeleteStage(o)
    <3>1. \/ Stage(o, "deleting", [op[o] EXCEPT !.attempt = @ + 1])
          \/ Stage(o, "deleting", [op[o] EXCEPT !.pc = "returning", !.attempt = 1])
      BY <2>10 DEF DeleteStage
    <3>2. CASE Stage(o, "deleting", [op[o] EXCEPT !.attempt = @ + 1])
      BY <2>3, <2>5, <2>7, <3>2
    <3>3. CASE Stage(o, "deleting", [op[o] EXCEPT !.pc = "returning", !.attempt = 1])
      BY <2>4, <2>5, <3>3
    <3> QED
      BY <3>1, <3>2, <3>3
  <2> QED
    BY <2>8, <2>9, <2>10
<1>3. \A q \in Ops : /\ op'[q].conn = op[q].conn /\ op'[q].tx = op[q].tx
                     /\ op'[q].pc \in {"idle", "done"} => op[q].pc \in {"idle", "done"}
  BY <1>1, <1>2 DEF OpState, Stages
<1> QED
  BY <1>2, <1>3, QuietTells

LEMMA TellStep ==
    ASSUME LeaseInv, RowsTellAll, [Next]_vars
    PROVE  RowsTellAll'
<1>1. CASE \E o \in Ops, c \in Connections, inTx, profiled \in BOOLEAN, result \in Results :
              Call(o, c, inTx, profiled, result)
  BY <1>1, CallTells
<1>2. CASE \E o \in Ops : Return(o)
  BY <1>2, ReturnTells
<1>3. CASE \E o \in Ops : FinishStage(o) \/ CancelStage(o) \/ ReportStage(o) \/ DeleteStage(o)
  BY <1>3, StagesTell
<1>4. ASSUME NEW o \in Ops,
             \/ \E k \in Causes : Signal(o, k)
             \/ \E answer \in {"row", "set", "end", "error"} : FetchRow(o, answer)
             \/ \E answer \in {"set", "end", "error"} : NextResultSet(o, answer)
             \/ \E e \in {"none", "error"} : Close(o, e)
             \/ CloseChecks(o) \/ CloseEnds(o)
      PROVE  RowsTellAll'
  BY <1>4, RowsMoveTells
<1>5. CASE (\E c \in Connections : Begin(c) \/ EndTx(c)) \/ (\E x \in Ops \cup Connections : Cancel(x))
           \/ Sweep \/ UNCHANGED vars
  <2>1. rows' = rows /\ op' = op /\ cancelled \subseteq cancelled'
    BY <1>5 DEF Begin, EndTx, Cancel, Sweep, CleanupStale, vars
  <2> QED
    BY <2>1, QuietTells
<1> QED
  BY <1>1, <1>2, <1>3, <1>4, <1>5 DEF Next, Completing

\* However contexts are cancelled around Close, and whenever their callbacks
\* run, the outcome of a consumption span is what happened to its rows
\* (rows.go:128-175).
THEOREM OutcomesAreTrue == Spec => []OutcomeIsTrue
<1>1. Init => RowsTellAll
  <2> SUFFICES ASSUME Init, NEW o \in Ops PROVE RowsTell(o)
    BY DEF RowsTellAll
  <2>1. rows[o] = NoRows /\ op[o] = NewOp /\ NewOp.tx \in BOOLEAN
    BY DEF Init, NewOp
  <2> QED
    BY <2>1, NoRowsTell DEF RowsTell
<1>2. LeaseInv /\ RowsTellAll /\ [Next]_vars => RowsTellAll'
  BY TellStep
<1>3. RowsTellAll => OutcomeIsTrue
  <2> SUFFICES ASSUME RowsTellAll, NEW o \in Ops PROVE Told(rows[o], Causing(o), op[o].tx)
    BY DEF OutcomeIsTrue, Told
  <2>1. Tells(rows[o], Causing(o), op[o].tx)
    BY DEF RowsTellAll, RowsTell
  <2> QED
    BY <2>1 DEF Tells, Honest, Told
<1> QED
  BY <1>1, <1>2, <1>3, LeasesKnowSessions, PTL DEF Spec

-----------------------------------------------------------------------------
(* ProfileHasItsCall: from the start of a session to the reading of its    *)
(* profile.                                                                *)

\* The session has measured the call it was started for.
Measures(o) == op[o].session # NoSession /\ op[o].measured => o \in work[op[o].session]

\* Its profile is at the server until it is finished, and stored until it is
\* deleted, unless another call of the lease has seen a command refused.
Survives(o) ==
    Undisturbed(o) =>
       /\ op[o].session # NoSession /\ op[o].pc \in {"rows", "finishing"} =>
             op[o].session \in Kept(attachment[op[o].conn]) \cup stored
       /\ op[o].pc = "reporting" => op[o].session \in stored
       /\ op[o].pc = "deleting" /\ op[o].attempt = 1 /\ op[o].session \notin troubled =>
             op[o].session \in stored

\* The CANCEL_SESSION of Finish forgets another session only if FINISH_SESSION
\* was not executed.
Cancels(o) ==
    op[o].pc = "cancelling" =>
       /\ op[o].finish \in {"lost", "refused"}
       /\ op[o].finish = "lost" => Kept(attachment[op[o].conn]) = {}

\* A call that is not finishing has seen no FINISH_SESSION.
Unfinished(o) ==
    /\ op[o].pc \in {"idle", "rows", "finishing"} => op[o].finish = "none"
    /\ op[o].pc = "idle" => op[o].start = "none"

Alone(o) == \A q \in Ops \ {o} : op[q].session = op[o].session => op[o].session = NoSession

HasCall(o) == Measures(o) /\ Survives(o) /\ Cancels(o) /\ Unfinished(o) /\ Alone(o)

HasCallAll == \A o \in Ops : HasCall(o)

\* What was refused stays refused.
LEMMA RefusalsStay ==
    ASSUME NEW o \in Ops, op'[o].tx = op[o].tx, op'[o].conn = op[o].conn,
           \A q \in Ops \ {o} :
              \/ op[q].start = "none" /\ op[q].finish = "none"
              \/ /\ op'[q].tx = op[q].tx /\ op'[q].conn = op[q].conn /\ op'[q].start = op[q].start
                 /\ op'[q].finish = op[q].finish \/ op[q].finish = "none"
    PROVE  Undisturbed(o)' => Undisturbed(o)
<1> SUFFICES ASSUME Undisturbed(o)', NEW q \in Ops \ {o}, Lease(q) = Lease(o)
             PROVE  "refused" \notin {op[q].start, op[q].finish}
  BY DEF Undisturbed
<1>1. CASE op[q].start = "none" /\ op[q].finish = "none"
  BY <1>1
<1>2. CASE /\ op'[q].tx = op[q].tx /\ op'[q].conn = op[q].conn /\ op'[q].start = op[q].start
           /\ op'[q].finish = op[q].finish \/ op[q].finish = "none"
  <2>1. Lease(q)' = Lease(o)'
    BY <1>2 DEF Lease
  <2>2. "refused" \notin {op'[q].start, op'[q].finish}
    BY <2>1 DEF Undisturbed
  <2> QED
    BY <1>2, <2>2
<1> QED
  BY <1>1, <1>2

\* Of a call that another step leaves where it is.
LEMMA StillHas ==
    ASSUME LeaseInv, HasCallAll, NEW o \in Ops, op'[o] = op[o],
           Busy(o) /\ Undisturbed(o)' => Undisturbed(o),
           \A s \in Sessions : work[s] \subseteq work'[s],
           troubled \subseteq troubled',
           Busy(o) /\ Undisturbed(o)' /\ op[o].session \in Kept(attachment[op[o].conn]) =>
              op[o].session \in Kept(attachment'[op[o].conn]) \cup stored',
           Busy(o) /\ op[o].pc # "returning" /\ op[o].session \in stored => op[o].session \in stored',
           op[o].pc = "cancelling" => Kept(attachment'[op[o].conn]) \subseteq Kept(attachment[op[o].conn]),
           \A q \in Ops \ {o} : op'[q].session \in {op[q].session, NoSession, started + 1}
    PROVE  HasCall(o)'
<1>1. /\ op[o].session \in 0..started /\ started \in 0..MaxSessions
      /\ op[o].session \in {NoSession} \cup Sessions
      /\ HasCall(o)
  BY DEF LeaseInv, SessionOK, Typed, HasCallAll, OpState
<1>2. Measures(o)'
  BY <1>1 DEF HasCall, Measures
<1>3. Survives(o)'
  <2> SUFFICES ASSUME Undisturbed(o)'
               PROVE  /\ op[o].session # NoSession /\ op[o].pc \in {"rows", "finishing"} =>
                            op[o].session \in Kept(attachment'[op[o].conn]) \cup stored'
                      /\ op[o].pc = "reporting" => op[o].session \in stored'
                      /\ op[o].pc = "deleting" /\ op[o].attempt = 1 /\ op[o].session \notin troubled' =>
                            op[o].session \in stored'
    BY DEF Survives
  <2>1. op[o].pc \in {"rows", "finishing", "reporting", "deleting"} => Busy(o) /\ op[o].pc # "returning"
    BY DEF Busy
  <2> QED
    BY <1>1, <2>1 DEF HasCall, Survives
<1>4. Cancels(o)' /\ Unfinished(o)'
  BY <1>1 DEF HasCall, Cancels, Unfinished
<1>5. Alone(o)'
  <2> SUFFICES ASSUME NEW q \in Ops \ {o}, op'[q].session = op[o].session PROVE op[o].session = NoSession
    BY DEF Alone
  <2>1. op[o].session # started + 1
    BY <1>1
  <2> QED
    BY <1>1, <2>1 DEF HasCall, Alone
<1> QED
  BY <1>2, <1>3, <1>4, <1>5 DEF HasCall

LEMMA WorkGrows ==
    ASSUME NEW w, NEW a, NEW x, NEW s \in Sessions
    PROVE  w[s] \subseteq Measured(w, a, x)[s]
<1> DEFINE m == Measured(w, a, x)[s]
<1>1. m = IF s \in Current(a) THEN w[s] \cup {x} ELSE w[s]
  BY MeasuredIn
<1> HIDE DEF m
<1>2. w[s] \subseteq m
  BY <1>1
<1> QED
  BY <1>2 DEF m

-----------------------------------------------------------------------------

\* A START_SESSION that is executed forgets nothing.
LEMMA StartForgetsNothing ==
    ASSUME NEW a \in Attached, NEW s \in Sessions, s \notin Kept(a),
           NEW so \in {"ok", "lost"}, NEW co \in Outcomes
    PROVE  Kept(a) \subseteq Kept(Started(a, s, so, co))
<1>1. Kept(AfterStart(a, s)) = Kept(a) \cup {s}
  BY StartKept
<1>2. Kept(AfterCancel(AfterStart(a, s))) = Kept(a)
  BY SkipKept
<1> QED
  BY <1>1, <1>2 DEF Started, Executed

\* What a call does to its connection and to itself.
LEMMA CallMeasures ==
    ASSUME LeaseInv, NEW o \in Ops, NEW c \in Connections, NEW inTx \in BOOLEAN,
           NEW profiled \in BOOLEAN, NEW result \in Results,
           NEW so \in Outcomes, NEW co \in Outcomes, NEW xo \in Outcomes,
           AfterCall(o, c, inTx, profiled, result, so, co, xo)
    PROVE  /\ op'[o].start = IF profiled THEN so ELSE "none"
           /\ op'[o].finish = op[o].finish
           /\ op'[o].start # "refused" => Kept(attachment[c]) \subseteq Kept(attachment'[c])
           /\ \A s \in Sessions : work[s] \subseteq work'[s]
           /\ profiled /\ so = "ok" /\ result # "skip" =>
                 /\ started + 1 \in Kept(attachment'[c])
                 /\ op'[o].measured => o \in work'[started + 1]
<1> DEFINE s       == started + 1
           begun   == IF profiled THEN Started(attachment[c], s, so, co) ELSE attachment[c]
           skipped == (profiled /\ so = "ok") /\ result = "skip"
           after   == IF skipped THEN Cancelled(begun, xo) ELSE begun
           ran     == result \in {"result", "rows"}
<1>1. /\ profiled => s \in Sessions
      /\ attachment' = [attachment EXCEPT ![c] = after]
      /\ work' = IF ran THEN Measured(work, begun, o) ELSE work
      /\ op' = [op EXCEPT ![o] =
              [op[o] EXCEPT !.conn = c, !.tx = inTx, !.measured = ran,
                        !.start = IF profiled THEN so ELSE "none",
                        !.session = IF (profiled /\ so = "ok") /\ ~ skipped THEN s ELSE NoSession,
                        !.pc = IF result = "rows" THEN "rows"
                               ELSE IF (profiled /\ so = "ok") /\ ~ skipped THEN "finishing" ELSE "returning"]]
  BY DEF AfterCall
<1>2. /\ attachment[c] \in Attached /\ attachment \in [Connections -> Attached]
      /\ op[o] \in OpState /\ op \in [Ops -> OpState]
      /\ s \notin Kept(attachment[c])
  <2>1. s \notin 1..started
    BY DEF LeaseInv, Typed
  <2> QED
    BY <2>1 DEF LeaseInv, Typed, Numbered
<1>3. /\ op'[o].start = IF profiled THEN so ELSE "none"
      /\ op'[o].finish = op[o].finish
      /\ op'[o].measured = ran
  <2> HIDE DEF ran, skipped, s
  <2> QED
    BY <1>1, <1>2 DEF OpState
<1>4. attachment'[c] = after
  BY <1>1, <1>2
<1>5. op'[o].start # "refused" => Kept(attachment[c]) \subseteq Kept(after)
  <2> SUFFICES ASSUME op'[o].start # "refused" PROVE Kept(attachment[c]) \subseteq Kept(after)
    OBVIOUS
  <2>1. CASE ~ profiled
    BY <2>1
  <2>2. CASE profiled
    <3>1. so \in {"ok", "lost"}
      BY <1>3, <2>2 DEF Outcomes
    <3>2. Kept(attachment[c]) \subseteq Kept(begun)
      BY <1>1, <1>2, <2>2, <3>1, StartForgetsNothing
    <3>3. CASE skipped
      <4>1. begun = AfterStart(attachment[c], s)
        BY <1>1, <1>2, <2>2, <3>3, StartedKept
      <4>2. Kept(AfterCancel(AfterStart(attachment[c], s))) = Kept(attachment[c])
        BY <1>1, <1>2, <2>2, SkipKept
      <4> HIDE DEF begun, s
      <4> QED
        BY <3>2, <3>3, <4>1, <4>2 DEF Cancelled
    <3> HIDE DEF begun
    <3> QED
      BY <3>2, <3>3
  <2> QED
    BY <2>1, <2>2
<1>6. \A x \in Sessions : work[x] \subseteq work'[x]
  <2> HIDE DEF begun, ran
  <2> QED
    BY <1>1, WorkGrows
<1>7. ASSUME profiled, so = "ok", result # "skip"
      PROVE  s \in Kept(after) /\ (ran => o \in work'[s])
  <2>1. begun = AfterStart(attachment[c], s) /\ s \in Sessions /\ ~ skipped
    BY <1>1, <1>2, <1>7, StartedKept
  <2>2. s \in Current(begun)
    BY <2>1 DEF AfterStart, Current, Sessions, NoSession
  <2> HIDE DEF begun
  <2>3. ran => Measured(work, begun, o)[s] = work[s] \cup {o}
    BY ZenonT(40), <2>1, <2>2, MeasuredIn
  <2> HIDE DEF ran, skipped
  <2> QED
    BY <1>1, <2>1, <2>2, <2>3 DEF Kept
<1> HIDE DEF after, ran
<1> QED
  BY <1>3, <1>4, <1>5, <1>6, <1>7

LEMMA CallHas ==
    ASSUME LeaseInv, HasCallAll, NEW o \in Ops, NEW c \in Connections, NEW inTx \in BOOLEAN,
           NEW profiled \in BOOLEAN, NEW result \in Results,
           Call(o, c, inTx, profiled, result)
    PROVE  HasCallAll'
<1>1. PICK so \in Outcomes, co \in Outcomes, xo \in Outcomes :
         AfterCall(o, c, inTx, profiled, result, so, co, xo)
  BY DEF Call
<1>2. /\ op[o].pc = "idle"
      /\ IF inTx THEN tx[c] = "open" /\ Unlocked(c) ELSE Free(c)
  BY DEF Call
<1> DEFINE s   == started + 1
           own == profiled /\ so = "ok" /\ result # "skip"
<1>3. /\ attachment' \in [Connections -> Attached]
      /\ \A d \in Connections : d # c => attachment'[d] = attachment[d]
      /\ profiled => s \in Sessions /\ started' = s
      /\ troubled \subseteq troubled'
      /\ stored' = stored
  BY <1>1, CallSessions
<1>4. /\ \A q \in Ops : q # o => op'[q] = op[q]
      /\ op'[o].conn = c /\ op'[o].tx = inTx
      /\ op'[o].pc \in {"rows", "finishing", "returning"}
      /\ op'[o].session = IF own THEN s ELSE NoSession
  BY <1>1, <1>3, CallOp
<1>5. /\ op'[o].start = IF profiled THEN so ELSE "none"
      /\ op'[o].finish = op[o].finish
      /\ op'[o].start # "refused" => Kept(attachment[c]) \subseteq Kept(attachment'[c])
      /\ \A x \in Sessions : work[x] \subseteq work'[x]
      /\ own => s \in Kept(attachment'[c]) /\ (op'[o].measured => o \in work'[s])
  BY <1>1, CallMeasures
<1>6. op[o].start = "none" /\ op[o].finish = "none"
  BY <1>2 DEF HasCallAll, HasCall, Unfinished
<1> HIDE DEF s, own
<1>7. ASSUME NEW q \in Ops, q # o PROVE HasCall(q)'
  <2>1. op'[q] = op[q] /\ op[q].conn \in Connections
    BY <1>4, <1>7 DEF LeaseInv, Typed, OpState
  <2>2. Undisturbed(q)' => Undisturbed(q)
    BY <1>4, <1>6, <1>7, <2>1, RefusalsStay
  <2>3. ASSUME Busy(q), op[q].conn = c PROVE inTx /\ op[q].tx
    <3>1. inTx
      BY <1>2, <2>3 DEF Free, On, Busy
    <3> QED
      BY <1>2, <2>3, <3>1 DEF LeaseInv, Leased
  <2>4. ASSUME Busy(q), Undisturbed(q)', op[q].session \in Kept(attachment[op[q].conn])
        PROVE  op[q].session \in Kept(attachment'[op[q].conn])
    <3>1. CASE op[q].conn = c
      <4>1. Lease(o)' = Lease(q)'
        BY <1>4, <2>1, <2>3, <2>4, <3>1 DEF Lease
      <4>2. op'[o].start # "refused"
        BY <1>7, <2>4, <4>1 DEF Undisturbed
      <4> QED
        BY <1>5, <2>4, <3>1, <4>2
    <3>2. CASE op[q].conn # c
      BY <1>3, <2>1, <2>4, <3>2
    <3> QED
      BY <3>1, <3>2
  <2>5. ASSUME op[q].pc = "cancelling" PROVE op[q].conn # c
    <3>1. Busy(q) /\ op[q].pc \in Stages
      BY <2>5 DEF Busy, Stages
    <3> QED
      BY <1>2, <3>1 DEF Unlocked, Free, On, Busy
  <2>6. \A p \in Ops \ {q} : op'[p].session \in {op[p].session, NoSession, started + 1}
    BY <1>4 DEF s
  <2> QED
    BY <1>3, <1>5, <2>1, <2>2, <2>4, <2>5, <2>6, StillHas
<1>8. HasCall(o)'
  <2>1. Measures(o)'
    BY <1>4, <1>5 DEF Measures
  <2>2. Survives(o)'
    BY <1>4, <1>5 DEF Survives
  <2>3. Cancels(o)' /\ Unfinished(o)'
    BY <1>4, <1>5, <1>6 DEF Cancels, Unfinished
  <2>4. Alone(o)'
    <3> SUFFICES ASSUME NEW q \in Ops \ {o}, op'[q].session = op'[o].session, own PROVE FALSE
      BY <1>4 DEF Alone
    <3>1. op[q].session \in 0..started /\ op[q].session = s /\ started \in Nat
      BY <1>4 DEF LeaseInv, SessionOK, Typed
    <3> QED
      BY <3>1 DEF s
  <2> QED
    BY <2>1, <2>2, <2>3, <2>4 DEF HasCall
<1> QED
  BY <1>7, <1>8 DEF HasCallAll

\* Two calls that are in progress on one connection share its transaction.
LEMMA SharedLease ==
    ASSUME LeaseInv, NEW o \in Ops, NEW q \in Ops, q # o, Busy(o), Busy(q), op[q].conn = op[o].conn
    PROVE  op[q].tx /\ op[o].tx
  BY DEF LeaseInv, Leased

LEMMA ReturnHas ==
    ASSUME LeaseInv, HasCallAll, NEW o \in Ops, Return(o)
    PROVE  HasCallAll'
<1>1. /\ op[o].pc = "returning" /\ op \in [Ops -> OpState]
      /\ op' = [op EXCEPT ![o] = [NewOp EXCEPT !.pc = "done", !.conn = op[o].conn, !.tx = op[o].tx,
                                    !.start = op[o].start, !.finish = op[o].finish]]
      /\ IF op[o].tx THEN UNCHANGED profilerVars ELSE GivenBack(op[o].conn)
  BY DEF Return, LeaseInv, Typed
<1>2. op'[o].pc = "done" /\ op'[o].conn = op[o].conn /\ op'[o].tx = op[o].tx
      /\ op'[o].start = op[o].start /\ op'[o].finish = op[o].finish /\ op'[o].session = NoSession
  BY <1>1 DEF NewOp
<1>3. \A q \in Ops : q # o => op'[q] = op[q]
  BY <1>1
<1>4. /\ UNCHANGED <<stored, troubled, work>>
      /\ \A d \in Connections : d # op[o].conn \/ op[o].tx => attachment'[d] = attachment[d]
  BY <1>1 DEF GivenBack, profilerVars, LeaseInv, Typed
<1>5. ASSUME NEW q \in Ops, q # o PROVE HasCall(q)'
  <2>1. op'[q] = op[q] /\ op[q].conn \in Connections
    BY <1>1, <1>3, <1>5 DEF OpState
  <2>2. Undisturbed(q)' => Undisturbed(q)
    BY <1>2, <1>3, <2>1, RefusalsStay
  <2>3. Busy(q) => attachment'[op[q].conn] = attachment[op[q].conn]
    <3> SUFFICES ASSUME Busy(q), op[q].conn = op[o].conn PROVE op[o].tx
      BY <1>4, <2>1
    <3> QED
      BY <1>1, <1>5, SharedLease DEF Busy
  <2>4. \A p \in Ops \ {q} : op'[p].session \in {op[p].session, NoSession, started + 1}
    BY <1>2, <1>3
  <2>5. op[q].pc = "cancelling" => Busy(q)
    BY DEF Busy
  <2> QED
    BY <1>4, <2>1, <2>2, <2>3, <2>4, <2>5, StillHas
<1>6. HasCall(o)'
  BY <1>2 DEF HasCall, Measures, Survives, Cancels, Unfinished, Alone
<1> QED
  BY <1>5, <1>6 DEF HasCallAll

LEMMA EndTxHas ==
    ASSUME LeaseInv, HasCallAll, NEW c \in Connections, EndTx(c)
    PROVE  HasCallAll'
<1>1. /\ On(c) = {} /\ op' = op /\ UNCHANGED <<stored, troubled, work>>
      /\ \A d \in Connections : d # c => attachment'[d] = attachment[d]
  BY DEF EndTx, GivenBack, LeaseInv, Typed
<1> SUFFICES ASSUME NEW q \in Ops PROVE HasCall(q)'
  BY DEF HasCallAll
<1>2. op[q].conn \in Connections
  BY DEF LeaseInv, Typed, OpState
<1>3. Busy(q) => attachment'[op[q].conn] = attachment[op[q].conn]
  BY <1>1, <1>2 DEF On, Busy
<1>4. Undisturbed(q)' = Undisturbed(q)
  BY <1>1 DEF Undisturbed, Lease
<1>5. op[q].pc = "cancelling" => Busy(q)
  BY DEF Busy
<1> QED
  BY <1>1, <1>3, <1>4, <1>5, StillHas

\* Steps that leave the sessions and the places of the calls alone; work may grow.
LEMMA QuietHas ==
    ASSUME LeaseInv, HasCallAll, op' = op, UNCHANGED <<attachment, troubled>>,
           \A s \in Sessions : work[s] \subseteq work'[s],
           \A o \in Ops : op[o].pc \notin {"returning", "done"} /\ op[o].session \in stored =>
              op[o].session \in stored'
    PROVE  HasCallAll'
<1> SUFFICES ASSUME NEW q \in Ops PROVE HasCall(q)'
  BY DEF HasCallAll
<1>1. Undisturbed(q)' = Undisturbed(q)
  BY DEF Undisturbed, Lease
<1>2. Busy(q) /\ op[q].pc # "returning" => op[q].pc \notin {"returning", "done"}
  BY DEF Busy
<1> QED
  BY <1>1, <1>2, StillHas

LEMMA CloseEndsHas ==
    ASSUME LeaseInv, HasCallAll, NEW o \in Ops, CloseEnds(o)
    PROVE  HasCallAll'
<1> DEFINE pc == IF op[o].session = NoSession THEN "returning" ELSE "finishing"
<1>1. /\ op[o].pc = "rows" /\ op \in [Ops -> OpState]
      /\ op' = [op EXCEPT ![o].pc = pc] /\ UNCHANGED <<attachment, stored, troubled, work>>
  BY DEF CloseEnds, profilerVars, LeaseInv, Typed, RowsOK
<1>2. \A q \in Ops : q # o => op'[q] = op[q]
  BY <1>1
<1>3. /\ op'[o].pc = pc /\ op'[o].conn = op[o].conn /\ op'[o].tx = op[o].tx
      /\ op'[o].start = op[o].start /\ op'[o].finish = op[o].finish /\ op'[o].session = op[o].session
      /\ op'[o].measured = op[o].measured
  <2> HIDE DEF pc
  <2> QED
    BY <1>1 DEF OpState
<1>4. HasCall(o)
  BY DEF HasCallAll
<1>5. ASSUME NEW q \in Ops PROVE Undisturbed(q)' => Undisturbed(q)
  BY <1>2, <1>3, RefusalsStay
<1>6. ASSUME NEW q \in Ops, q # o PROVE HasCall(q)'
  BY <1>1, <1>2, <1>3, <1>5, <1>6, StillHas
<1>7. HasCall(o)'
  <2>1. Measures(o)' /\ Alone(o)'
    BY <1>1, <1>2, <1>3, <1>4 DEF HasCall, Measures, Alone
  <2>2. Survives(o)'
    BY <1>1, <1>3, <1>4, <1>5 DEF HasCall, Survives
  <2>3. Cancels(o)' /\ Unfinished(o)'
    BY <1>1, <1>3, <1>4 DEF HasCall, Cancels, Unfinished
  <2> QED
    BY <2>1, <2>2, <2>3 DEF HasCall
<1> QED
  BY <1>6, <1>7 DEF HasCallAll

-----------------------------------------------------------------------------

\* The call o of a stage goes on to pc, its FINISH_SESSION answered with f.
LEMMA StagePlace ==
    ASSUME LeaseInv, HasCallAll, NEW o \in Ops, NEW pc, NEW n, NEW f,
           op' = [op EXCEPT ![o] = Place(o, pc, n, f)],
           f = op[o].finish \/ op[o].finish = "none"
    PROVE  /\ \A q \in Ops : q # o => op'[q] = op[q]
           /\ op'[o].pc = pc /\ op'[o].attempt = n /\ op'[o].finish = f
           /\ op'[o].conn = op[o].conn /\ op'[o].tx = op[o].tx /\ op'[o].start = op[o].start
           /\ op'[o].session = op[o].session /\ op'[o].measured = op[o].measured
           /\ \A q \in Ops : Undisturbed(q)' => Undisturbed(q)
           /\ Measures(o)' <=> (op[o].session # NoSession /\ op[o].measured => o \in work'[op[o].session])
           /\ Alone(o)'
<1>1. op \in [Ops -> OpState]
  BY DEF LeaseInv, Typed
<1>2. \A q \in Ops : q # o => op'[q] = op[q]
  BY <1>1
<1>3. /\ op'[o].pc = pc /\ op'[o].attempt = n /\ op'[o].finish = f
      /\ op'[o].conn = op[o].conn /\ op'[o].tx = op[o].tx /\ op'[o].start = op[o].start
      /\ op'[o].session = op[o].session /\ op'[o].measured = op[o].measured
  BY <1>1 DEF Place, OpState
<1>4. ASSUME NEW q \in Ops PROVE Undisturbed(q)' => Undisturbed(q)
  BY <1>2, <1>3, RefusalsStay
<1>5. Measures(o)' <=> (op[o].session # NoSession /\ op[o].measured => o \in work'[op[o].session])
  BY <1>3 DEF Measures
<1>6. Alone(o)'
  BY <1>2, <1>3 DEF HasCallAll, HasCall, Alone
<1> QED
  BY <1>2, <1>3, <1>4, <1>5, <1>6

LEMMA FinishHas ==
    ASSUME LeaseInv, HasCallAll, NEW o \in Ops, FinishStage(o)
    PROVE  HasCallAll'
<1>1. PICK r \in Outcomes :
         /\ Stage(o, "finishing", [To(o, IF r = "ok" THEN "reporting" ELSE "cancelling") EXCEPT !.finish = r])
         /\ Finish(op[o].conn, op[o].session, r)
  BY DEF FinishStage
<1> DEFINE pc == IF r = "ok" THEN "reporting" ELSE "cancelling"
           c0 == op[o].conn
           s0 == op[o].session
           n0 == op[o].attempt
<1>2. op[o] \in OpState /\ op[o].pc = "finishing" /\ c0 \in Connections /\ s0 \in Sessions
  BY <1>1 DEF LeaseInv, Typed, Stage, OpState, SessionOK, Stages
<1>3. op' = [op EXCEPT ![o] = Place(o, pc, n0, r)]
  <2>1. [[op[o] EXCEPT !.pc = pc] EXCEPT !.finish = r] = Place(o, pc, n0, r)
    BY <1>2 DEF OpState, Place
  <2> QED
    BY <1>1, <2>1 DEF Stage, To
<1>4. HasCall(o) /\ op[o].finish = "none"
  BY <1>2 DEF HasCallAll, HasCall, Unfinished
<1>5. /\ \A q \in Ops : q # o => op'[q] = op[q]
      /\ op'[o].pc = pc /\ op'[o].attempt = n0 /\ op'[o].finish = r
      /\ op'[o].conn = c0 /\ op'[o].tx = op[o].tx /\ op'[o].start = op[o].start
      /\ op'[o].session = s0 /\ op'[o].measured = op[o].measured
      /\ \A q \in Ops : Undisturbed(q)' => Undisturbed(q)
      /\ Measures(o)' <=> (s0 # NoSession /\ op[o].measured => o \in work'[s0])
      /\ Alone(o)'
  <2> HIDE DEF pc
  <2> QED
    BY <1>3, <1>4, StagePlace
<1>6. work' = work /\ troubled \subseteq troubled'
  BY <1>1 DEF Finish, Trouble
<1>7. /\ \A d \in Connections : d # c0 => attachment'[d] = attachment[d]
      /\ \/ /\ stored' = stored \cup Kept(attachment[c0]) /\ r # "refused"
            /\ Kept(attachment'[c0]) = {}
         \/ r = "refused" /\ UNCHANGED <<attachment, stored>>
  <2>1. attachment \in [Connections -> Attached]
    BY DEF LeaseInv, Typed
  <2> QED
    BY <1>1, <1>2, <2>1, NewKept DEF Finish, FinishSession, Executed, Outcomes, Kept
<1>8. ASSUME NEW q \in Ops, q # o PROVE HasCall(q)'
  <2>1. op'[q] = op[q] /\ op[q].conn \in Connections
    BY <1>5, <1>8 DEF LeaseInv, Typed, OpState
  <2>2. /\ op[q].session \in Kept(attachment[op[q].conn]) =>
              op[q].session \in Kept(attachment'[op[q].conn]) \cup stored'
        /\ Kept(attachment'[op[q].conn]) \subseteq Kept(attachment[op[q].conn])
        /\ stored \subseteq stored'
    BY <1>7, <2>1
  <2>3. \A p \in Ops \ {q} : op'[p].session \in {op[p].session, NoSession, started + 1}
    BY <1>5
  <2>4. \A x \in Sessions : work[x] \subseteq work'[x]
    BY <1>6
  <2> HIDE DEF pc, c0, s0, n0
  <2> QED
    BY <1>5, <1>6, <2>1, <2>2, <2>3, <2>4, StillHas
<1>9. HasCall(o)'
  <2>1. Measures(o)'
    BY <1>4, <1>5, <1>6 DEF HasCall, Measures
  <2>2. Survives(o)'
    <3> SUFFICES ASSUME Undisturbed(o)', r = "ok" PROVE s0 \in stored'
      BY <1>5 DEF Survives
    <3>1. s0 \in Kept(attachment[c0]) \cup stored
      BY <1>2, <1>4, <1>5 DEF HasCall, Survives, Sessions, NoSession
    <3> QED
      BY <1>7, <3>1
  <2>3. Cancels(o)' /\ Unfinished(o)'
    BY <1>1, <1>5, <1>7 DEF Cancels, Unfinished, Outcomes
  <2> QED
    BY <1>5, <2>1, <2>2, <2>3 DEF HasCall
<1> QED
  BY <1>8, <1>9 DEF HasCallAll

LEMMA CancelHas ==
    ASSUME LeaseInv, HasCallAll, NEW o \in Ops, CancelStage(o)
    PROVE  HasCallAll'
<1>1. PICK r \in Outcomes :
         Stage(o, "cancelling", To(o, "deleting")) /\ CancelUnfinished(op[o].conn, r)
  BY DEF CancelStage
<1> DEFINE c0 == op[o].conn
           s0 == op[o].session
           n0 == op[o].attempt
           f0 == op[o].finish
<1>2. op[o] \in OpState /\ op[o].pc = "cancelling" /\ c0 \in Connections
  BY <1>1 DEF LeaseInv, Typed, Stage, OpState
<1>3. op' = [op EXCEPT ![o] = Place(o, "deleting", n0, f0)]
  <2>1. [op[o] EXCEPT !.pc = "deleting"] = Place(o, "deleting", n0, f0)
    BY <1>2 DEF OpState, Place
  <2> QED
    BY <1>1, <2>1 DEF Stage, To
<1>4. /\ \A q \in Ops : q # o => op'[q] = op[q]
      /\ op'[o].pc = "deleting" /\ op'[o].attempt = n0 /\ op'[o].finish = f0
      /\ op'[o].conn = c0 /\ op'[o].tx = op[o].tx /\ op'[o].start = op[o].start
      /\ op'[o].session = s0 /\ op'[o].measured = op[o].measured
      /\ \A q \in Ops : Undisturbed(q)' => Undisturbed(q)
      /\ Measures(o)' <=> (s0 # NoSession /\ op[o].measured => o \in work'[s0])
      /\ Alone(o)'
  BY <1>3, StagePlace
<1>5. /\ HasCall(o) /\ s0 \in troubled
      /\ f0 \in {"lost", "refused"} /\ (f0 = "lost" => Kept(attachment[c0]) = {})
  BY <1>2 DEF HasCallAll, HasCall, Cancels, LeaseInv, SessionOK
<1>6. UNCHANGED <<work, troubled, stored>>
  BY <1>1 DEF CancelUnfinished
<1>7. /\ \A d \in Connections : d # c0 => attachment'[d] = attachment[d]
      /\ Kept(attachment'[c0]) \subseteq Kept(attachment[c0])
  <2>1. attachment \in [Connections -> Attached]
    BY DEF LeaseInv, Typed
  <2>2. Cancelled(attachment[c0], r) = attachment[c0] \/ Cancelled(attachment[c0], r) = AfterCancel(attachment[c0])
    BY DEF Cancelled
  <2>3. Kept(AfterCancel(attachment[c0])) \subseteq Kept(attachment[c0])
    BY <1>2, <2>1, CancelKept
  <2>4. attachment' = [attachment EXCEPT ![c0] = Cancelled(attachment[c0], r)]
    BY <1>1 DEF CancelUnfinished
  <2>5. attachment'[c0] = Cancelled(attachment[c0], r)
        /\ \A d \in Connections : d # c0 => attachment'[d] = attachment[d]
    BY <1>2, <2>1, <2>4
  <2> QED
    BY <2>2, <2>3, <2>5
<1>8. ASSUME NEW q \in Ops, q # o PROVE HasCall(q)'
  <2>1. op'[q] = op[q] /\ op[q].conn \in Connections
    BY <1>4, <1>8 DEF LeaseInv, Typed, OpState
  <2>2. ASSUME Busy(q), Undisturbed(q)', op[q].session \in Kept(attachment[op[q].conn])
        PROVE  op[q].session \in Kept(attachment'[op[q].conn])
    <3>1. CASE op[q].conn = c0
      <4>1. Lease(o)' = Lease(q)'
        <5>1. op[q].tx /\ op[o].tx
          BY <1>2, <1>8, <2>2, <3>1, SharedLease DEF Busy
        <5> QED
          BY <1>4, <2>1, <3>1, <5>1 DEF Lease
      <4>2. f0 # "refused"
        BY <1>4, <1>8, <2>2, <4>1 DEF Undisturbed
      <4> QED
        BY <1>5, <2>2, <3>1, <4>2
    <3>2. CASE op[q].conn # c0
      BY <1>7, <2>1, <2>2, <3>2
    <3> QED
      BY <3>1, <3>2
  <2>3. Kept(attachment'[op[q].conn]) \subseteq Kept(attachment[op[q].conn])
    BY <1>7, <2>1
  <2>4. \A p \in Ops \ {q} : op'[p].session \in {op[p].session, NoSession, started + 1}
    BY <1>4
  <2> HIDE DEF c0, s0, n0, f0
  <2> QED
    BY <1>4, <1>6, <2>1, <2>2, <2>3, <2>4, StillHas
<1>9. HasCall(o)'
  <2>1. Measures(o)'
    BY <1>4, <1>5, <1>6 DEF HasCall, Measures
  <2>2. Survives(o)' /\ Cancels(o)' /\ Unfinished(o)'
    BY <1>4, <1>5, <1>6 DEF Survives, Cancels, Unfinished
  <2> QED
    BY <1>4, <2>1, <2>2 DEF HasCall
<1> QED
  BY <1>8, <1>9 DEF HasCallAll

LEMMA ReportHas ==
    ASSUME LeaseInv, HasCallAll, NEW o \in Ops, ReportStage(o)
    PROVE  HasCallAll'
<1>1. PICK r \in {"ok", "refused"} :
         Stage(o, "reporting", To(o, "deleting")) /\ Report(op[o].session, r)
  BY DEF ReportStage
<1> DEFINE s0 == op[o].session
           n0 == op[o].attempt
           f0 == op[o].finish
<1>2. op[o] \in OpState /\ op[o].pc = "reporting"
  BY <1>1 DEF LeaseInv, Typed, Stage
<1>3. op' = [op EXCEPT ![o] = Place(o, "deleting", n0, f0)]
  <2>1. [op[o] EXCEPT !.pc = "deleting"] = Place(o, "deleting", n0, f0)
    BY <1>2 DEF OpState, Place
  <2> QED
    BY <1>1, <2>1 DEF Stage, To
<1>4. /\ \A q \in Ops : q # o => op'[q] = op[q]
      /\ op'[o].pc = "deleting" /\ op'[o].attempt = n0 /\ op'[o].finish = f0
      /\ op'[o].conn = op[o].conn /\ op'[o].tx = op[o].tx /\ op'[o].start = op[o].start
      /\ op'[o].session = s0 /\ op'[o].measured = op[o].measured
      /\ \A q \in Ops : Undisturbed(q)' => Undisturbed(q)
      /\ Measures(o)' <=> (s0 # NoSession /\ op[o].measured => o \in work'[s0])
      /\ Alone(o)'
  BY <1>3, StagePlace
<1>5. HasCall(o)
  BY DEF HasCallAll
<1>6. UNCHANGED <<work, attachment, stored>> /\ troubled \subseteq troubled'
  BY <1>1 DEF Report, Trouble
<1>7. ASSUME NEW q \in Ops, q # o PROVE HasCall(q)'
  <2>1. op'[q] = op[q]
    BY <1>4, <1>7
  <2>2. \A p \in Ops \ {q} : op'[p].session \in {op[p].session, NoSession, started + 1}
    BY <1>4
  <2> HIDE DEF s0, n0, f0
  <2> QED
    BY <1>4, <1>6, <2>1, <2>2, StillHas
<1>8. HasCall(o)'
  <2>1. Measures(o)' /\ Cancels(o)' /\ Unfinished(o)'
    BY <1>4, <1>5, <1>6 DEF HasCall, Measures, Cancels, Unfinished
  <2>2. Survives(o)'
    <3> SUFFICES ASSUME Undisturbed(o)' PROVE s0 \in stored'
      BY <1>4 DEF Survives
    <3> QED
      BY <1>2, <1>4, <1>5, <1>6 DEF HasCall, Survives
  <2> QED
    BY <1>4, <2>1, <2>2 DEF HasCall
<1> QED
  BY <1>7, <1>8 DEF HasCallAll

LEMMA DeleteHas ==
    ASSUME LeaseInv, HasCallAll, NEW o \in Ops, DeleteStage(o)
    PROVE  HasCallAll'
<1> DEFINE s0 == op[o].session
           n0 == op[o].attempt
           f0 == op[o].finish
<1>1. op[o] \in OpState /\ op[o].pc = "deleting" /\ n0 \in 1..MaxAttempts
  BY DEF LeaseInv, Typed, OpState, DeleteStage, Stage
<1>2. /\ \/ op' = [op EXCEPT ![o] = Place(o, "deleting", n0 + 1, f0)]
         \/ op' = [op EXCEPT ![o] = Place(o, "returning", 1, f0)]
      /\ UNCHANGED <<work, attachment>> /\ troubled \subseteq troubled'
      /\ stored \ {s0} \subseteq stored'
  <2>1. PICK r \in Attempts :
           \/ Stage(o, "deleting", [op[o] EXCEPT !.attempt = @ + 1]) /\ DeleteAgain(s0, n0, r)
           \/ /\ Stage(o, "deleting", [op[o] EXCEPT !.pc = "returning", !.attempt = 1])
              /\ DeleteLast(op[o].conn, s0, n0, r)
    BY DEF DeleteStage
  <2>2. CASE Stage(o, "deleting", [op[o] EXCEPT !.attempt = @ + 1]) /\ DeleteAgain(s0, n0, r)
    <3>1. [op[o] EXCEPT !.attempt = n0 + 1] = Place(o, "deleting", n0 + 1, f0)
      BY <1>1 DEF OpState, Place
    <3> QED
      BY <2>2, <3>1 DEF Stage, DeleteAgain
  <2>3. CASE /\ Stage(o, "deleting", [op[o] EXCEPT !.pc = "returning", !.attempt = 1])
             /\ DeleteLast(op[o].conn, s0, n0, r)
    <3>1. [op[o] EXCEPT !.pc = "returning", !.attempt = 1] = Place(o, "returning", 1, f0)
      BY <1>1 DEF OpState, Place
    <3> QED
      BY <2>3, <3>1 DEF Stage, DeleteLast, Trouble
  <2> QED
    BY <2>1, <2>2, <2>3
<1>3. PICK pc, n : /\ op' = [op EXCEPT ![o] = Place(o, pc, n, f0)]
                   /\ (pc = "deleting" /\ n # 1) \/ pc = "returning"
  <2>1. n0 + 1 # 1
    BY <1>1
  <2> QED
    BY <1>2, <2>1
<1>4. /\ \A q \in Ops : q # o => op'[q] = op[q]
      /\ op'[o].pc = pc /\ op'[o].attempt = n /\ op'[o].finish = f0
      /\ op'[o].conn = op[o].conn /\ op'[o].tx = op[o].tx /\ op'[o].start = op[o].start
      /\ op'[o].session = s0 /\ op'[o].measured = op[o].measured
      /\ \A q \in Ops : Undisturbed(q)' => Undisturbed(q)
      /\ Measures(o)' <=> (s0 # NoSession /\ op[o].measured => o \in work'[s0])
      /\ Alone(o)'
  BY <1>3, StagePlace
<1>5. ASSUME NEW q \in Ops, q # o PROVE HasCall(q)'
  <2>1. op'[q] = op[q]
    BY <1>4, <1>5
  <2>2. op[q].session \in stored => op[q].session \in stored'
    <3>1. op[q].session \in stored => op[q].session # NoSession
      BY DEF LeaseInv, Typed, Sessions, NoSession
    <3>2. op[q].session = s0 => op[q].session = NoSession
      BY <1>5 DEF HasCallAll, HasCall, Alone
    <3> QED
      BY <1>2, <3>1, <3>2
  <2>3. \A p \in Ops \ {q} : op'[p].session \in {op[p].session, NoSession, started + 1}
    BY <1>4
  <2> HIDE DEF s0, n0, f0
  <2> QED
    BY <1>2, <1>4, <2>1, <2>2, <2>3, StillHas
<1>6. HasCall(o)'
  <2>1. Measures(o)'
    BY <1>2, <1>4 DEF HasCallAll, HasCall, Measures
  <2>2. Survives(o)' /\ Cancels(o)' /\ Unfinished(o)'
    BY <1>3, <1>4 DEF Survives, Cancels, Unfinished
  <2> QED
    BY <1>4, <2>1, <2>2 DEF HasCall
<1> QED
  BY <1>5, <1>6 DEF HasCallAll

LEMMA HasStep ==
    ASSUME LeaseInv, HasCallAll, [Next]_vars
    PROVE  HasCallAll'
<1>1. CASE \E o \in Ops, c \in Connections, inTx, profiled \in BOOLEAN, result \in Results :
              Call(o, c, inTx, profiled, result)
  BY <1>1, CallHas
<1>2. CASE (\E o \in Ops : Return(o) \/ CloseEnds(o)) \/ (\E c \in Connections : EndTx(c))
  BY <1>2, ReturnHas, CloseEndsHas, EndTxHas
<1>3. CASE \E o \in Ops : FinishStage(o) \/ CancelStage(o) \/ ReportStage(o) \/ DeleteStage(o)
  BY <1>3, FinishHas, CancelHas, ReportHas, DeleteHas
<1>4. CASE \E o \in Ops, answer \in {"row", "set", "end", "error"} : FetchRow(o, answer)
  <2>1. PICK o \in Ops, answer \in {"row", "set", "end", "error"} : FetchRow(o, answer)
    BY <1>4
  <2>2. /\ op' = op /\ UNCHANGED <<attachment, troubled, stored>>
        /\ work' = Measured(work, attachment[op[o].conn], o)
    BY <2>1 DEF FetchRow
  <2>3. \A s \in Sessions : work[s] \subseteq work'[s]
    BY <2>2, WorkGrows
  <2> QED
    BY <2>2, <2>3, QuietHas
<1>5. CASE Sweep
  <2>1. PICK removed \in SUBSET (stored \ Held) : CleanupStale(removed) /\ op' = op
    BY <1>5 DEF Sweep
  <2>2. UNCHANGED <<attachment, troubled, work>> /\ stored' = stored \ removed
    BY <2>1 DEF CleanupStale
  <2>3. \A o \in Ops : op[o].pc \notin {"returning", "done"} => op[o].session \in Held
    BY DEF Held
  <2> QED
    BY <2>1, <2>2, <2>3, QuietHas
<1>6. CASE \/ \E c \in Connections : Begin(c)
           \/ \E x \in Ops \cup Connections : Cancel(x)
           \/ \E o \in Ops : \/ CloseChecks(o)
                             \/ \E k \in Causes : Signal(o, k)
                             \/ \E answer \in {"set", "end", "error"} : NextResultSet(o, answer)
                             \/ \E e \in {"none", "error"} : Close(o, e)
           \/ UNCHANGED vars
  <2>1. op' = op /\ UNCHANGED <<attachment, troubled, stored, work>>
    BY <1>6 DEF Begin, Cancel, CloseChecks, Signal, NextResultSet, Close, vars, profilerVars
  <2> QED
    BY <2>1, QuietHas
<1> QED
  BY <1>1, <1>2, <1>3, <1>4, <1>5, <1>6 DEF Next, Completing

\* A profile that is read without an error has the call it is of, whatever the
\* other calls of the connection do and however their commands fail, unless one
\* of them was refused in the same lease (profile_scope.go:9, runtime.go:196-226).
THEOREM ProfilesHaveTheirCall == Spec => []ProfileHasItsCall
<1>1. Init => HasCallAll
  <2> SUFFICES ASSUME Init, NEW o \in Ops PROVE HasCall(o)
    BY DEF HasCallAll
  <2>1. \A q \in Ops : op[q] = NewOp
    BY DEF Init
  <2>2. /\ NewOp.pc = "idle" /\ NewOp.session = NoSession /\ NewOp.start = "none" /\ NewOp.finish = "none"
    BY DEF NewOp
  <2> QED
    BY <2>1, <2>2 DEF HasCall, Measures, Survives, Cancels, Unfinished, Alone
<1>2. LeaseInv /\ HasCallAll /\ [Next]_vars => HasCallAll'
  BY HasStep
<1>3. LeaseInv /\ HasCallAll => ProfileHasItsCall
  <2> SUFFICES ASSUME LeaseInv, HasCallAll, NEW o \in Ops,
                      op[o].pc = "deleting", op[o].attempt = 1, op[o].measured,
                      op[o].session \notin troubled, Undisturbed(o)
               PROVE  op[o].session \in stored /\ o \in work[op[o].session]
    BY DEF ProfileHasItsCall
  <2>1. op[o].session # NoSession
    BY DEF LeaseInv, SessionOK, Stages
  <2> QED
    BY <2>1 DEF HasCallAll, HasCall, Measures, Survives
<1> QED
  BY <1>1, <1>2, <1>3, LeasesKnowSessions, PTL DEF Spec
=============================================================================
