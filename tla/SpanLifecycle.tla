--------------------------- MODULE SpanLifecycle ---------------------------
(***************************************************************************)
(* Start, Shutdown, Wait and the frame of consume of trace.SpanRuntime     *)
(* (src/trace/spans.go), around the registry they open and close           *)
(* (ScopeRegistry) and the collector they start and stop (Collector).      *)
(*                                                                         *)
(* One goroutine calls Start, any number call Shutdown, at any moment, and *)
(* others go on using the registry.  The contexts of Start and of some of  *)
(* the Shutdowns may end at any moment.  A step is the code between two    *)
(* points where a goroutine waits or gives up SpanRuntime.mu.              *)
(***************************************************************************)
EXTENDS ScopeRegistry, Collector

CONSTANTS
    Stoppers,       \* goroutines that call Shutdown
    Impatient       \* those of them whose context may end

ASSUME ImpatientAssumption == Impatient \subseteq Stoppers

VARIABLES
    starter,    \* the call of Start: where it is, and whether it fails
    published,  \* SpanRuntime.collector is set
    stopper,    \* [Stoppers -> the call of Shutdown]
    done,       \* SpanRuntime.done is closed
    err         \* SpanRuntime.err is set

lifeVars == <<starter, published, stopper, done, err>>
vars == <<regVars, collectorVars, lifeVars>>

StartCall ==
    [at : {"idle", "opening", "opened", "awaiting", "deciding", "closing", "stopping",
           "giving up", "returned"},
     failed : BOOLEAN]

\* expired: its context has ended; sawStart: what it read from started
ShutdownCall ==
    [at : {"idle", "requesting", "draining", "waiting", "returned"},
     failed : BOOLEAN, expired : BOOLEAN, sawStart : BOOLEAN]

Init ==
    /\ RegInit
    /\ CollectorInit
    /\ starter = [at |-> "idle", failed |-> FALSE]
    /\ published = FALSE
    /\ stopper = [g \in Stoppers |->
          [at |-> "idle", failed |-> FALSE, expired |-> FALSE, sawStart |-> FALSE]]
    /\ done = FALSE
    /\ err = FALSE

started == starter.at # "idle"

-----------------------------------------------------------------------------
(* Start *)

StartBegins ==
    /\ starter.at = "idle"
    /\ starter' = [starter EXCEPT !.at = "opening"]
    /\ UNCHANGED <<regVars, collectorVars, published, stopper, done, err>>

\* The collector's Start returns.
CollectorStarted ==
    /\ starter.at = "opening"
    /\ \/ Opened /\ starter' = [starter EXCEPT !.at = "opened"]
       \/ UNCHANGED collectorVars /\ starter' = [at |-> "giving up", failed |-> TRUE]
    /\ UNCHANGED <<regVars, published, stopper, done, err>>

\* From here on Shutdown knows the collector.  One that came before did not.
Publish ==
    /\ starter.at = "opened"
    /\ published' = TRUE
    /\ starter' = IF stopping THEN [at |-> "closing", failed |-> TRUE]
                  ELSE [starter EXCEPT !.at = "awaiting"]
    /\ UNCHANGED <<regVars, collectorVars, stopper, done, err>>

\* The ready event, which is the first in the channel, or the end of the context.
Ready ==
    /\ starter.at = "awaiting"
    /\ \/ EventTaken /\ starter' \in [at : {"deciding"}, failed : BOOLEAN]
       \/ UNCHANGED collectorVars /\ starter' = [at |-> "deciding", failed |-> TRUE]
    /\ UNCHANGED <<regVars, published, stopper, done, err>>

\* The last critical section: the registry opens and consume begins, unless
\* Shutdown came meanwhile.
Decide ==
    /\ starter.at = "deciding"
    /\ IF starter.failed \/ stopping
       THEN UNCHANGED regVars /\ starter' = [at |-> "closing", failed |-> TRUE]
       ELSE Activate /\ starter' = [starter EXCEPT !.at = "returned"]
    /\ UNCHANGED <<collectorVars, published, stopper, done, err>>

\* Mutant: a Start that fails leaves its collector alone.
StartLeavesCollector ==
    /\ starter.at = "closing"
    /\ starter' = [starter EXCEPT !.at = "giving up"]
    /\ UNCHANGED <<regVars, collectorVars, published, stopper, done, err>>

\* A Start that fails shuts its collector down.
StartClosesCollector ==
    /\ starter.at = "closing"
    /\ ShutdownRequested
    /\ starter' = [starter EXCEPT !.at = "stopping"]
    /\ UNCHANGED <<regVars, published, stopper, done, err>>

\* It waits until run is done, two seconds at most.
StartClosedCollector ==
    /\ starter.at = "stopping"
    /\ \/ run.at = "done" /\ UNCHANGED collectorVars
       \/ Cancel
    /\ starter' = [starter EXCEPT !.at = "giving up"]
    /\ UNCHANGED <<regVars, published, stopper, done, err>>

\* Mutant: a Start that fails does not release those who wait for the end.
StartFailsSilently ==
    /\ starter.at = "giving up"
    /\ err' = TRUE
    /\ starter' = [starter EXCEPT !.at = "returned"]
    /\ UNCHANGED <<regVars, collectorVars, published, stopper, done>>

StartFails ==
    /\ starter.at = "giving up"
    /\ err' = TRUE
    /\ done' = TRUE
    /\ starter' = [starter EXCEPT !.at = "returned"]
    /\ UNCHANGED <<regVars, collectorVars, published, stopper>>

StartStep ==
    \/ CollectorStarted \/ Publish \/ Ready \/ Decide
    \/ StartClosesCollector \/ StartClosedCollector \/ StartFails

-----------------------------------------------------------------------------
(* Shutdown *)

Stops(g, place, failed) == [stopper EXCEPT ![g].at = place, ![g].failed = @ \/ failed]

Returns(g, failed) == [stopper EXCEPT ![g].at = "returned", ![g].failed = @ \/ failed,
                                      ![g].expired = FALSE]

\* Its critical section, which also reads the collector.
ShutdownBegins(g) ==
    /\ stopper[g].at = "idle"
    /\ BeginShutdown
    /\ done' = (done \/ ~ started)
    /\ stopper' = [stopper EXCEPT ![g].sawStart = started,
          ![g].at = IF ~ started THEN "returned" ELSE IF published THEN "requesting" ELSE "waiting"]
    /\ UNCHANGED <<collectorVars, starter, published, err>>

ShutdownRequests(g) ==
    /\ stopper[g].at = "requesting"
    /\ ShutdownRequested
    /\ stopper' = Stops(g, "draining", FALSE)
    /\ UNCHANGED <<regVars, starter, published, done, err>>

\* The collector's Shutdown returns: run is done, or its context ended.
ShutdownDrained(g) ==
    /\ stopper[g].at = "draining"
    /\ \/ run.at = "done" /\ stopper' = Stops(g, "waiting", runErr \/ stopper[g].expired)
                          /\ UNCHANGED collectorVars
       \/ stopper[g].expired /\ stopper' = Stops(g, "waiting", TRUE) /\ Cancel
    /\ UNCHANGED <<regVars, starter, published, done, err>>

ShutdownReturns(g) ==
    /\ stopper[g].at = "waiting"
    /\ \/ done /\ stopper' = Returns(g, err)
       \/ stopper[g].expired /\ stopper' = Returns(g, TRUE)
    /\ UNCHANGED <<regVars, collectorVars, starter, published, done, err>>

StopStep(g) == ShutdownRequests(g) \/ ShutdownDrained(g) \/ ShutdownReturns(g)

\* It matters only to a Shutdown that waits.
DeadlinePasses(g) ==
    /\ g \in Impatient
    /\ stopper[g].at \in {"draining", "waiting"}
    /\ ~ stopper[g].expired
    /\ stopper' = [stopper EXCEPT ![g].expired = TRUE]
    /\ UNCHANGED <<regVars, collectorVars, starter, published, done, err>>

-----------------------------------------------------------------------------
(* consume *)

ConsumerTakes ==
    /\ consumer = "active"
    /\ EventTaken
    /\ UNCHANGED <<regVars, lifeVars>>

\* The channel is closed and empty: the registry is closed for good.
ConsumerSeesEnd ==
    /\ queued = 0
    /\ Closed
    /\ StreamEnd
    /\ UNCHANGED <<collectorVars, lifeVars>>

\* Mutant: only an end that nobody asked for is an error.
ConsumerReportsEndOnly ==
    /\ consumer = "done"
    /\ ~ done
    /\ run.at = "done"
    /\ err' = ~ stopping
    /\ done' = TRUE
    /\ UNCHANGED <<regVars, collectorVars, starter, published, stopper>>

\* Then consume waits for run, without a limit, and reports its error.
ConsumerReports ==
    /\ consumer = "done"
    /\ ~ done
    /\ run.at = "done"
    /\ err' = (runErr \/ ~ stopping)
    /\ done' = TRUE
    /\ UNCHANGED <<regVars, collectorVars, starter, published, stopper>>

ConsumerStep == ConsumerTakes \/ ConsumerSeesEnd \/ ConsumerReports

-----------------------------------------------------------------------------
\* The driver and the consumer use the registry.
RegistryUsed ==
    /\ \/ Register
       \/ \E t \in 1..issued :
             \/ MarkerComplete(t)
             \/ \E span \in Spans \cup {NoSpan} : Bind(t, span)
             \/ Discard(t)
             \/ Lookup(t)
             \/ Elapse(t)
    /\ UNCHANGED <<collectorVars, lifeVars>>

CollectorStep == CollectorNext /\ UNCHANGED <<regVars, lifeVars>>

Next ==
    \/ StartBegins
    \/ StartStep
    \/ \E g \in Stoppers : ShutdownBegins(g) \/ StopStep(g) \/ DeadlinePasses(g)
    \/ ConsumerStep
    \/ CollectorStep
    \/ RegistryUsed

Spec == Init /\ [][Next]_vars

\* Goroutines that can go on do so, and timers fire.  The stream ends when it
\* must.  No fairness for the services that close the session, for the traffic
\* or for the contexts of the callers.
Fairness ==
    /\ WF_vars(StartStep)
    /\ \A g \in Stoppers : WF_vars(StopStep(g))
    /\ WF_vars(ConsumerStep)
    /\ WF_vars(RunStep /\ UNCHANGED <<regVars, lifeVars>>)
    /\ WF_vars(StreamOver /\ StreamEnds /\ UNCHANGED <<regVars, lifeVars>>)

FairSpec == Spec /\ Fairness

-----------------------------------------------------------------------------
\* Start, Shutdown and consume are at a place of their code, and the collector
\* they share is well typed.
TypeOK ==
    /\ CollectorTypeOK
    /\ starter \in StartCall
    /\ stopper \in [Stoppers -> ShutdownCall]
    /\ published \in BOOLEAN /\ done \in BOOLEAN /\ err \in BOOLEAN

\* A Shutdown that reports no error has stopped the session, drained what it
\* sent and released its connection, however Start and the other Shutdowns go
\* on meanwhile.  (When a Shutdown came before Start, done is closed already
\* and a later one waits for nothing.)
CleanShutdownReleases ==
    (\A g \in Stoppers : stopper[g].at # "idle" => stopper[g].sawStart) =>
        \A g \in Stoppers : stopper[g].at = "returned" /\ ~ stopper[g].failed =>
            /\ run.at = "done"
            /\ session = "stopped"
            /\ released
            /\ consumer # "active"

\* Wait says that all is well only if somebody asked for the end, and the
\* session was stopped and its connection closed: a failure of the clean-up in
\* any of the goroutines reaches it.
CleanEndIsReal ==
    consumer = "done" /\ done /\ ~ err => stopping /\ session = "stopped" /\ released

\* No goroutine is left when the collector was cancelled, its session stopped,
\* or its Start failed, even if nobody takes its events and the services never
\* answer the request to close.
NothingLeftRunning ==
    run.at # "none" /\ (starter.failed \/ cancelled \/ session = "stopped") ~>
        /\ run.at = "done"
        /\ reader = "ended"
        /\ starter.at = "returned"
        /\ consumer # "active"
        /\ done

\* Start returns; Shutdown returns when its context has ended, and needs no
\* context when the session could be stopped.
CallsReturn ==
    /\ started ~> starter.at = "returned"
    /\ \A g \in Stoppers :
          stopper[g].at # "idle" /\ (stopper[g].expired \/ session = "stopped") ~>
              stopper[g].at = "returned"
=============================================================================
