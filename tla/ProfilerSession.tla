--------------------------- MODULE ProfilerSession ---------------------------
(***************************************************************************)
(* The profiler session of one operation (src/profiler/runtime.go and      *)
(* src/profile_scope.go): started on the user's connection before the      *)
(* operation, finished there after it, then read and deleted over the      *)
(* diagnostic pool.  Every command may fail, before or after the server    *)
(* has executed it.                                                        *)
(*                                                                         *)
(* The server keeps one current session per attachment.  START_SESSION     *)
(* ends the one before it, FINISH_SESSION(TRUE) stores all ended sessions  *)
(* of the attachment, CANCEL_SESSION forgets the current one, and the end  *)
(* of the attachment forgets what is not stored.  None of the commands     *)
(* names a session, except the DELETE of the stored profile.               *)
(***************************************************************************)
EXTENDS Naturals, FiniteSets

CONSTANTS
    Connections,
    MaxSessions,    \* bound of the model: sessions ever started
    MaxFailures     \* bound of the model: commands that fail

ASSUME ConnectionsAssumption == Connections # {}
ASSUME SessionsAssumption == MaxSessions \in Nat /\ MaxFailures \in Nat

NoSession == 0

Sessions == 1..MaxSessions

VARIABLES
    attachment,     \* [Connections -> sessions the server holds for it]
    stored,         \* sessions with rows in PLG$PROF_SESSIONS
    started,        \* sessions started so far
    work,           \* [Sessions -> operations the server has measured in it]
    dirty,          \* connState.profileDirty, per connection
    troubled,       \* sessions of which some command failed
    failures        \* commands that failed so far

profilerVars == <<attachment, stored, started, work, dirty, troubled, failures>>

NewAttachment == [current |-> NoSession, ended |-> {}]

ProfilerInit ==
    /\ attachment = [c \in Connections |-> NewAttachment]
    /\ stored = {}
    /\ started = 0
    /\ work = [s \in Sessions |-> {}]
    /\ dirty = [c \in Connections |-> FALSE]
    /\ troubled = {}
    /\ failures = 0

ProfilerTypeOK ==
    /\ attachment \in [Connections -> [current : {NoSession} \cup Sessions, ended : SUBSET Sessions]]
    /\ stored \subseteq Sessions
    /\ started \in 0..MaxSessions
    /\ \A s \in Sessions : s > started => work[s] = {}
    /\ dirty \in [Connections -> BOOLEAN]
    /\ troubled \subseteq 1..started
    /\ failures \in 0..MaxFailures

\* What becomes of a command: answered; executed, but the answer is lost; or
\* not executed at all.
Outcomes == {"ok", "lost", "refused"}

Executed(o) == o \in {"ok", "lost"}

\* The commands of one step fail as often as the bound allows.
Fail(outcomes) ==
    /\ failures + outcomes <= MaxFailures
    /\ failures' = failures + outcomes

Failed(o) == IF o = "ok" THEN 0 ELSE 1

-----------------------------------------------------------------------------
(* The server. *)

Current(a) == {a.current} \ {NoSession}

AfterStart(a, s) == [current |-> s, ended |-> a.ended \cup Current(a)]

AfterCancel(a) == [a EXCEPT !.current = NoSession]

\* The server measures an operation in the current session of its attachment.
Measured(w, a, op) ==
    [s \in Sessions |-> IF s \in Current(a) THEN w[s] \cup {op} ELSE w[s]]

-----------------------------------------------------------------------------
(* The commands of the client. *)

\* Mutant: the cleanup of a failed start runs after every start.
StartedAndCancelled(a, s, o, co) == AfterCancel(AfterStart(a, s))

\* Runtime.Start: o is the outcome of START_SESSION; after a failure the
\* session that may have been left is cancelled, with outcome co.
Started(a, s, o, co) ==
    LET begun == IF Executed(o) THEN AfterStart(a, s) ELSE a
    IN  IF o # "ok" /\ Executed(co) THEN AfterCancel(begun) ELSE begun

\* profileStart: any failure of Start makes the connection dirty.
DirtyByStart(d, o) == d \/ o # "ok"

\* Session.Cancel, for an operation answered with ErrSkip.
Cancelled(a, o) == IF Executed(o) THEN AfterCancel(a) ELSE a

\* FINISH_SESSION(TRUE).
FinishSession(c, o) ==
    IF Executed(o)
    THEN /\ stored' = stored \cup attachment[c].ended \cup Current(attachment[c])
         /\ attachment' = [attachment EXCEPT ![c] = NewAttachment]
    ELSE UNCHANGED <<attachment, stored>>

\* Mutant: the errors of the stages are forgotten.
TroubleForgotten(s, o) == troubled

\* Finish remembers the errors of its stages.
Trouble(s, o) == IF o = "ok" THEN troubled ELSE troubled \cup {s}

\* The first stage of Session.Finish.
Finish(c, s, o) ==
    /\ FinishSession(c, o)
    /\ Fail(Failed(o))
    /\ troubled' = Trouble(s, o)
    /\ UNCHANGED <<started, work, dirty>>

\* The session FINISH_SESSION could not finish is cancelled.
CancelUnfinished(c, o) ==
    /\ attachment' = [attachment EXCEPT ![c] = Cancelled(@, o)]
    /\ Fail(Failed(o))
    /\ UNCHANGED <<stored, started, work, dirty, troubled>>

\* report: the stored profile is read.
Report(s, o) ==
    /\ Fail(Failed(o))
    /\ troubled' = Trouble(s, o)
    /\ UNCHANGED <<attachment, stored, started, work, dirty>>

\* Attempts of delete.
MaxAttempts == 3

\* What one attempt of delete answers: the DELETE's outcome, whether the error
\* is ErrBadConn with the context still alive, or no connection at all.
Attempts == {"ok", "lost", "refused", "lost and bad", "refused and bad", "no connection"}

Deletes(o) == o \in {"ok", "lost", "lost and bad"}

\* Does delete try once more?
Retries(attempt, o) == o \in {"lost and bad", "refused and bad"} /\ attempt < MaxAttempts

\* One attempt that delete follows by another.
DeleteAgain(s, attempt, o) ==
    /\ Retries(attempt, o)
    /\ stored' = IF Deletes(o) THEN stored \ {s} ELSE stored
    /\ Fail(1)
    /\ UNCHANGED <<attachment, started, work, dirty, troubled>>

\* The last attempt.  If any stage of Finish failed the connection is dirty.
DeleteLast(c, s, attempt, o) ==
    /\ ~ Retries(attempt, o)
    /\ stored' = IF Deletes(o) THEN stored \ {s} ELSE stored
    /\ Fail(Failed(o))
    /\ troubled' = Trouble(s, o)
    /\ dirty' = [dirty EXCEPT ![c] = @ \/ s \in troubled']
    /\ UNCHANGED <<attachment, started, work>>

\* CleanupStale removes finished profiles of this pool that are old enough.
CleanupStale(removed) ==
    /\ removed # {}
    /\ removed \subseteq stored
    /\ stored' = stored \ removed
    /\ UNCHANGED <<attachment, started, work, dirty, troubled, failures>>
=============================================================================
