------------------------ MODULE SpanLifecycleProofs ------------------------
(***************************************************************************)
(* Theorems about the life of a SpanRuntime, for any number of goroutines  *)
(* that call Shutdown, every channel capacity and every traffic.           *)
(***************************************************************************)
EXTENDS SpanLifecycle, ScopeRegistryProofs

-----------------------------------------------------------------------------
\* Every step uses the registry as ScopeRegistry allows, or not at all: the
\* detailed specification implements the registry's.
THEOREM LifecycleKeepsRegistry == Spec => RegSpec
<1>1. Init => RegInit
  BY DEF Init
<1>2. [Next]_vars => [RegNext]_regVars
  <2> SUFFICES ASSUME [Next]_vars
               PROVE  RegNext \/ UNCHANGED regVars
    BY DEF regVars
  <2>1. CASE StartBegins \/ ConsumerTakes \/ ConsumerReports \/ CollectorStep
    BY <2>1 DEF StartBegins, ConsumerTakes, ConsumerReports, CollectorStep
  <2>2. CASE StartStep
    BY <2>2 DEF StartStep, CollectorStarted, Publish, Ready, Decide, StartClosesCollector,
                StartClosedCollector, StartFails, RegNext
  <2>3. CASE \E g \in Stoppers : ShutdownBegins(g) \/ StopStep(g) \/ DeadlinePasses(g)
    BY <2>3 DEF ShutdownBegins, StopStep, ShutdownRequests, ShutdownDrained, ShutdownReturns,
                DeadlinePasses, RegNext
  <2>4. CASE ConsumerSeesEnd
    BY <2>4 DEF ConsumerSeesEnd, RegNext
  <2>5. CASE RegistryUsed
    BY <2>5 DEF RegistryUsed, RegNext
  <2>6. CASE UNCHANGED vars
    BY <2>6 DEF vars, regVars
  <2> QED
    BY <2>1, <2>2, <2>3, <2>4, <2>5, <2>6 DEF Next, ConsumerStep
<1> QED
  BY <1>1, <1>2, PTL DEF Spec, RegSpec

\* Start, Shutdown and the end of the stream open and close the registry at the
\* right moments: what ScopeRegistryProofs shows of any use holds of this one.
THEOREM LifecycleAdmission == Spec => [](RunningOnlyWhileConsumed /\ EmptyAfterStreamEnd)
  BY LifecycleKeepsRegistry, AdmissionNeedsConsumer, NothingOutlivesConsumer, PTL

-----------------------------------------------------------------------------
(* The invariant behind a clean end.  An error of the clean-up is recorded     *)
(* before anybody can see that it is over, run cannot return before the        *)
(* session is closed or an error recorded, and done is closed by whoever is    *)
(* the last to write err.                                                      *)

\* Closing the session succeeded, or r.err tells.
FailuresRecorded ==
    /\ closing = "release" /\ ~ runErr => session = "stopped"
    /\ closing = "done" /\ ~ runErr => session = "stopped" /\ released

\* finish is behind run.
PastFinish == run.at \in {"return", "closed", "done"} \/ (run.at \in {"emit", "grace"} /\ run.last)

RunFinishes ==
    /\ PastFinish /\ ~ runErr => closing = "done"
    /\ run.at \in {"none", "select"} => ~ run.last

\* Nothing happens to a collector that does not exist yet, and Shutdown only
\* asks one that it has seen.
CollectorComesFirst ==
    /\ starter.at \in {"idle", "opening"} => run.at = "none" /\ closing = "none" /\ ~ published
    /\ \A g \in Stoppers : stopper[g].at = "requesting" => published

\* Only a successful Start begins consume, which then alone closes done.
ConsumerEndsIt ==
    /\ consumer # "none" => starter.at = "returned" /\ ~ starter.failed
    /\ consumer = "active" => ~ done
    /\ done /\ starter.at # "returned" => stopping
    /\ consumer = "done" /\ done /\ ~ err => stopping /\ ~ runErr /\ run.at = "done"

\* No Shutdown came before Start.
StartedFirst == \A g \in Stoppers : stopper[g].at # "idle" => stopper[g].sawStart

DoneIsFinal ==
    StartedFirst =>
        /\ done => starter.at = "returned" /\ (err \/ consumer = "done")
        /\ \A g \in Stoppers : stopper[g].at = "returned" /\ ~ stopper[g].failed =>
               done /\ ~ err

LifeInv ==
    /\ TypeOK
    /\ FailuresRecorded
    /\ RunFinishes
    /\ CollectorComesFirst
    /\ ConsumerEndsIt
    /\ DoneIsFinal

-----------------------------------------------------------------------------
LEMMA LifeInvInit == Init => LifeInv
<1>1. Init => CollectorTypeOK
  <2>1. [at |-> "none", left |-> 0, last |-> FALSE] \in RunState
    BY BatchAssumption DEF RunState
  <2>2. 0 \in 0..Buffer /\ 0 \in 0..MaxBatches
    BY BufferAssumption, BatchAssumption
  <2> QED
    BY <2>1, <2>2 DEF Init, CollectorInit, CollectorTypeOK
<1>2. Init => TypeOK
  <2>1. [at |-> "idle", failed |-> FALSE] \in StartCall
    BY DEF StartCall
  <2>2. [at |-> "idle", failed |-> FALSE, expired |-> FALSE, sawStart |-> FALSE] \in ShutdownCall
    BY DEF ShutdownCall
  <2> QED
    BY <1>1, <2>1, <2>2 DEF Init, TypeOK
<1>3. Init => FailuresRecorded /\ RunFinishes /\ CollectorComesFirst
  BY DEF Init, CollectorInit, FailuresRecorded, RunFinishes, PastFinish, CollectorComesFirst
<1>4. Init => ConsumerEndsIt /\ DoneIsFinal
  BY DEF Init, RegInit, ConsumerEndsIt, DoneIsFinal, StartedFirst
<1> QED
  BY <1>2, <1>3, <1>4 DEF LifeInv

\* The goroutine of run after an event of its batch, and at the end of it.
LEMMA RunStates ==
    ASSUME NEW r \in RunState
    PROVE  /\ \A n \in 0..BatchSize : [r EXCEPT !.at = "emit", !.left = n] \in RunState
           /\ r.left > 0 => [r EXCEPT !.at = "emit", !.left = @ - 1] \in RunState
           /\ \A p \in {"select", "emit", "grace", "finish", "return", "closed", "done"} :
                 [r EXCEPT !.at = p] \in RunState
<1>1. \A n \in 0..BatchSize : [r EXCEPT !.at = "emit", !.left = n] \in RunState
  BY DEF RunState
<1>2. r.left > 0 => r.left - 1 \in 0..BatchSize
  BY BatchAssumption DEF RunState
<1>3. \A p \in {"select", "emit", "grace", "finish", "return", "closed", "done"} :
         [r EXCEPT !.at = p] \in RunState
  BY DEF RunState
<1> QED
  BY <1>1, <1>2, <1>3

\* What the collector does, and what others do to it, keeps it well typed.
LEMMA CollectorTyped ==
    ASSUME CollectorTypeOK,
           CollectorNext \/ Opened \/ ShutdownRequested \/ Cancel \/ EventTaken
    PROVE  CollectorTypeOK'
<1> USE DEF queueVars, closeVars, signalVars
<1>1. CASE StopSession
  <2>1. (session \in {"none", "open", "stopped"} /\ runErr \in BOOLEAN)'
    BY <1>1 DEF StopSession, CollectorTypeOK
  <2> QED
    BY <1>1, <2>1 DEF StopSession, CollectorTypeOK
<1>2. CASE ReleaseService
  <2>1. (released \in BOOLEAN /\ runErr \in BOOLEAN)'
    BY <1>2 DEF ReleaseService, CollectorTypeOK
  <2> QED
    BY <1>2, <2>1 DEF ReleaseService, CollectorTypeOK
<1>3. CASE StreamEnds
  BY <1>3 DEF StreamEnds, CollectorTypeOK
<1>4. CASE NextBatch
  <2>1. run' \in RunState
    <3>1. PICK n \in 1..BatchSize : run' = [run EXCEPT !.at = "emit", !.left = n]
      BY <1>4 DEF NextBatch
    <3>2. n \in 0..BatchSize
      BY BatchAssumption
    <3> QED
      BY <3>1, <3>2, RunStates DEF CollectorTypeOK
  <2>2. batches' \in 0..MaxBatches
    BY <1>4, BatchAssumption DEF NextBatch, CollectorTypeOK
  <2> QED
    BY <1>4, <2>1, <2>2 DEF NextBatch, CollectorTypeOK
<1>5. CASE StreamEndSeen
  BY <1>5, RunStates DEF StreamEndSeen, CloseRequested, CollectorTypeOK
<1>6. CASE Finished
  <2>1. run' \in RunState
    <3>1. CASE run.last
      BY <1>6, <3>1, RunStates DEF Finished, CollectorTypeOK
    <3>2. CASE ~ run.last
      <4>1. \E n \in 0..BatchSize : run' = [at |-> "emit", left |-> n, last |-> TRUE]
        BY <1>6, <3>2 DEF Finished
      <4> QED
        BY <4>1 DEF RunState
    <3> QED
      BY <3>1, <3>2
  <2>2. runErr' \in BOOLEAN
    BY <1>6 DEF Finished
  <2> QED
    BY <1>6, <2>1, <2>2 DEF Finished, CollectorTypeOK
<1>7. CASE BatchEnds
  BY <1>7, RunStates DEF BatchEnds, CollectorTypeOK
<1>8. CASE Emit
  <2>1. run' \in RunState
    BY <1>8, RunStates DEF Emit, Emitting, CollectorTypeOK
  <2>2. queued' \in 0..Buffer
    BY <1>8, BufferAssumption DEF Emit, CollectorTypeOK
  <2> QED
    BY <1>8, <2>1, <2>2 DEF Emit, CollectorTypeOK
<1>9. CASE GraceBegins
  BY <1>9, RunStates DEF GraceBegins, CollectorTypeOK
<1>10. CASE GraceEnds
  BY <1>10, RunStates DEF GraceEnds, CollectorTypeOK
<1>11. CASE EventDiscarded
  <2>1. run' \in RunState
    BY <1>11, RunStates DEF EventDiscarded, Emitting, CollectorTypeOK
  <2> QED
    BY <1>11, <2>1 DEF EventDiscarded, CollectorTypeOK
<1>12. CASE EmitCancelled
  <2>1. run' \in RunState
    BY <1>12, BatchAssumption DEF EmitCancelled, RunState
  <2> QED
    BY <1>12, <2>1 DEF EmitCancelled, CloseRequested, CollectorTypeOK
<1>13. CASE RunReturns
  BY <1>13, RunStates DEF RunReturns, CollectorTypeOK
<1>14. CASE Opened
  <2>1. run' \in RunState
    BY <1>14, RunStates DEF Opened, CollectorTypeOK
  <2>2. queued' \in 0..Buffer
    BY <1>14, BufferAssumption DEF Opened
  <2> QED
    BY <1>14, <2>1, <2>2 DEF Opened, CollectorTypeOK
<1>15. CASE ShutdownRequested
  BY <1>15 DEF ShutdownRequested, CloseRequested, CollectorTypeOK
<1>16. CASE Cancel
  BY <1>16 DEF Cancel, CollectorTypeOK
<1>17. CASE EventTaken
  <2>1. queued' \in 0..Buffer
    BY <1>17, BufferAssumption DEF EventTaken, CollectorTypeOK
  <2> QED
    BY <1>17, <2>1 DEF EventTaken, CollectorTypeOK
<1> QED
  BY <1>1, <1>2, <1>3, <1>4, <1>5, <1>6, <1>7, <1>8, <1>9, <1>10, <1>11, <1>12, <1>13, <1>14,
     <1>15, <1>16, <1>17 DEF CollectorNext, RunStep

-----------------------------------------------------------------------------
\* What a step does to the collector, and when.
CollectorUsed ==
    \/ CollectorNext
    \/ starter.at = "opening" /\ Opened /\ starter' = [starter EXCEPT !.at = "opened"]
    \/ ShutdownRequested /\ (starter.at = "closing" \/ \E g \in Stoppers : stopper[g].at = "requesting")
    \/ Cancel
    \/ EventTaken
    \/ UNCHANGED collectorVars

LEMMA StepUsesCollector == [Next]_vars => CollectorUsed
<1> SUFFICES ASSUME [Next]_vars PROVE CollectorUsed
  OBVIOUS
<1>1. CASE StartBegins \/ ConsumerStep \/ CollectorStep \/ RegistryUsed
  BY <1>1 DEF StartBegins, ConsumerStep, ConsumerTakes, ConsumerSeesEnd, ConsumerReports,
              CollectorStep, RegistryUsed, CollectorUsed
<1>2. CASE StartStep
  BY <1>2 DEF StartStep, CollectorStarted, Publish, Ready, Decide, StartClosesCollector,
              StartClosedCollector, StartFails, CollectorUsed
<1>3. CASE \E g \in Stoppers : ShutdownBegins(g) \/ StopStep(g) \/ DeadlinePasses(g)
  BY <1>3 DEF ShutdownBegins, StopStep, ShutdownRequests, ShutdownDrained, ShutdownReturns,
              DeadlinePasses, CollectorUsed
<1>4. CASE UNCHANGED vars
  BY <1>4 DEF vars, CollectorUsed
<1> QED
  BY <1>1, <1>2, <1>3, <1>4 DEF Next

LEMMA TypeStep ==
    ASSUME TypeOK, [Next]_vars
    PROVE  TypeOK'
<1>1. CollectorTypeOK'
  <2>1. CASE UNCHANGED collectorVars
    <3>1. CollectorTypeOK
      BY DEF TypeOK
    <3> QED
      BY <2>1, <3>1 DEF CollectorTypeOK, collectorVars, queueVars, closeVars, signalVars
  <2> QED
    BY <2>1, CollectorTyped, StepUsesCollector DEF TypeOK, CollectorUsed
<1>2. CASE StartBegins
  BY <1>1, <1>2 DEF StartBegins, StartCall, TypeOK
<1>3. CASE StartStep
  <2>1. (starter \in StartCall /\ published \in BOOLEAN)'
    <3>1. \A p \in {"opened", "awaiting", "stopping", "giving up", "returned"} :
             [starter EXCEPT !.at = p] \in StartCall
      BY DEF StartCall, TypeOK
    <3>2. /\ \A p \in {"giving up", "closing", "deciding"} :
                [at |-> p, failed |-> TRUE] \in StartCall
          /\ [at : {"deciding"}, failed : BOOLEAN] \subseteq StartCall
      BY DEF StartCall
    <3>3. starter' \in StartCall
      BY <1>3, <3>1, <3>2 DEF StartStep, CollectorStarted, Publish, Ready, Decide,
         StartClosesCollector, StartClosedCollector, StartFails
    <3>4. published' \in BOOLEAN
      BY <1>3 DEF StartStep, CollectorStarted, Publish, Ready, Decide, StartClosesCollector,
                  StartClosedCollector, StartFails, TypeOK
    <3> QED
      BY <3>3, <3>4
  <2>2. (done \in BOOLEAN /\ err \in BOOLEAN)'
    BY <1>3 DEF StartStep, CollectorStarted, Publish, Ready, Decide, StartClosesCollector,
                StartClosedCollector, StartFails, TypeOK
  <2>3. UNCHANGED stopper
    BY <1>3 DEF StartStep, CollectorStarted, Publish, Ready, Decide, StartClosesCollector,
                StartClosedCollector, StartFails
  <2> QED
    BY <1>1, <2>1, <2>2, <2>3 DEF TypeOK
<1>4. ASSUME NEW g \in Stoppers, ShutdownBegins(g) \/ StopStep(g) \/ DeadlinePasses(g)
      PROVE  TypeOK'
  <2>1. CASE ShutdownBegins(g)
    <3>1. stopper' \in [Stoppers -> ShutdownCall]
      BY <2>1 DEF ShutdownBegins, started, ShutdownCall, TypeOK
    <3>2. done' \in BOOLEAN
      BY <2>1 DEF ShutdownBegins
    <3> QED
      BY <1>1, <2>1, <3>1, <3>2 DEF ShutdownBegins, TypeOK
  <2>2. ASSUME NEW p \in {"draining", "waiting", "returned"}, NEW b \in BOOLEAN
        PROVE  Stops(g, p, b) \in [Stoppers -> ShutdownCall]
    BY DEF Stops, ShutdownCall, TypeOK
  <2>3. ASSUME NEW b \in BOOLEAN
        PROVE  Returns(g, b) \in [Stoppers -> ShutdownCall]
    <3>1. stopper[g] \in ShutdownCall /\ stopper \in [Stoppers -> ShutdownCall]
      BY DEF TypeOK
    <3>2. [stopper[g] EXCEPT !.at = "returned", !.failed = @ \/ b, !.expired = FALSE] \in ShutdownCall
      BY <3>1 DEF ShutdownCall
    <3>3. Returns(g, b) = [stopper EXCEPT ![g] =
             [stopper[g] EXCEPT !.at = "returned", !.failed = @ \/ b, !.expired = FALSE]]
      BY <3>1 DEF Returns
    <3> QED
      BY <3>1, <3>2, <3>3
  <2>4. CASE ShutdownRequests(g)
    BY <1>1, <2>2, <2>4 DEF ShutdownRequests, TypeOK
  <2>5. CASE ShutdownDrained(g)
    <3>1. stopper' \in [Stoppers -> ShutdownCall]
      BY <2>2, <2>5 DEF ShutdownDrained, ShutdownCall, TypeOK, CollectorTypeOK
    <3> QED
      BY <1>1, <2>5, <3>1 DEF ShutdownDrained, TypeOK
  <2>6. CASE ShutdownReturns(g)
    <3>1. stopper' \in [Stoppers -> ShutdownCall]
      BY <2>3, <2>6 DEF ShutdownReturns, TypeOK
    <3> QED
      BY <1>1, <2>6, <3>1 DEF ShutdownReturns, TypeOK
  <2>7. CASE DeadlinePasses(g)
    BY <1>1, <2>7 DEF DeadlinePasses, ShutdownCall, TypeOK
  <2> QED
    BY <1>4, <2>1, <2>4, <2>5, <2>6, <2>7 DEF StopStep
<1>5. CASE ConsumerReports
  BY <1>1, <1>5 DEF ConsumerReports, TypeOK
<1>6. CASE ConsumerTakes \/ ConsumerSeesEnd \/ CollectorStep \/ RegistryUsed
  BY <1>1, <1>6 DEF ConsumerTakes, ConsumerSeesEnd, CollectorStep, RegistryUsed, lifeVars, TypeOK
<1>7. CASE UNCHANGED vars
  BY <1>1, <1>7 DEF vars, lifeVars, TypeOK
<1> QED
  BY <1>2, <1>3, <1>4, <1>5, <1>6, <1>7 DEF Next, ConsumerStep

\* The life of a SpanRuntime is well typed, and the channel of events never
\* holds more than Config.Buffer.
THEOREM LifecycleTyped == Spec => []TypeOK
<1>1. Init => TypeOK
  BY LifeInvInit DEF LifeInv
<1>2. TypeOK /\ [Next]_vars => TypeOK'
  BY TypeStep
<1> QED
  BY <1>1, <1>2, PTL DEF Spec

-----------------------------------------------------------------------------
\* No step hides a failure of the clean-up, or lets run return before it.
LEMMA FailuresStep ==
    ASSUME CollectorTypeOK, FailuresRecorded, RunFinishes, CollectorComesFirst, CollectorUsed
    PROVE  FailuresRecorded' /\ RunFinishes'
<1> USE DEF FailuresRecorded, RunFinishes, PastFinish, queueVars, closeVars, signalVars
<1>0. /\ run = [at |-> run.at, left |-> run.left, last |-> run.last]
      /\ run.last \in BOOLEAN /\ runErr \in BOOLEAN
  BY DEF CollectorTypeOK, RunState
<1>1. CASE StopSession
  BY <1>1 DEF StopSession
<1>2. CASE ReleaseService
  BY <1>2 DEF ReleaseService
<1>3. CASE StreamEnds
  BY <1>3 DEF StreamEnds
<1>4. CASE NextBatch
  BY <1>4, <1>0 DEF NextBatch
<1>5. CASE StreamEndSeen
  BY <1>5, <1>0 DEF StreamEndSeen, CloseRequested
<1>6. CASE Finished
  BY <1>6, <1>0 DEF Finished
<1>7. CASE BatchEnds
  BY <1>7, <1>0 DEF BatchEnds
<1>8. CASE Emit
  BY <1>8, <1>0 DEF Emit, Emitting
<1>9. CASE GraceBegins
  BY <1>9, <1>0 DEF GraceBegins
<1>10. CASE GraceEnds
  BY <1>10, <1>0 DEF GraceEnds
<1>11. CASE EventDiscarded
  BY <1>11, <1>0 DEF EventDiscarded, Emitting
<1>12. CASE EmitCancelled
  BY <1>12, <1>0 DEF EmitCancelled, Emitting, CloseRequested
<1>13. CASE RunReturns
  BY <1>13, <1>0 DEF RunReturns
<1>14. CASE starter.at = "opening" /\ Opened /\ starter' = [starter EXCEPT !.at = "opened"]
  BY <1>14, <1>0 DEF Opened, CollectorComesFirst
<1>15. CASE ShutdownRequested
  BY <1>15 DEF ShutdownRequested, CloseRequested
<1>16. CASE Cancel \/ EventTaken
  BY <1>16 DEF Cancel, EventTaken
<1>17. CASE UNCHANGED collectorVars
  BY <1>17 DEF collectorVars
<1> QED
  BY <1>1, <1>2, <1>3, <1>4, <1>5, <1>6, <1>7, <1>8, <1>9, <1>10, <1>11, <1>12, <1>13, <1>14,
     <1>15, <1>16, <1>17 DEF CollectorUsed, CollectorNext, RunStep

\* A collector that is not started yet stays as it is.
LEMMA ComesFirstStep ==
    ASSUME TypeOK, CollectorComesFirst, [Next]_vars
    PROVE  CollectorComesFirst'
<1>1. starter'.at \in {"idle", "opening"} =>
         starter.at \in {"idle", "opening"} /\ UNCHANGED published
  <2>1. CASE StartStep
    <3>1. starter = [at |-> starter.at, failed |-> starter.failed]
      BY DEF TypeOK, StartCall
    <3>2. CASE CollectorStarted
      BY <3>1, <3>2 DEF CollectorStarted
    <3>3. CASE Publish
      BY <3>1, <3>3 DEF Publish
    <3>4. CASE Ready
      BY <3>1, <3>4 DEF Ready
    <3>5. CASE Decide
      BY <3>1, <3>5 DEF Decide
    <3>6. CASE StartClosesCollector \/ StartClosedCollector \/ StartFails
      BY <3>1, <3>6 DEF StartClosesCollector, StartClosedCollector, StartFails
    <3> QED
      BY <2>1, <3>2, <3>3, <3>4, <3>5, <3>6 DEF StartStep
  <2>2. CASE StartBegins
    BY <2>2 DEF StartBegins, TypeOK, StartCall
  <2>3. CASE \E g \in Stoppers : ShutdownBegins(g) \/ StopStep(g) \/ DeadlinePasses(g)
    BY <2>3 DEF ShutdownBegins, StopStep, ShutdownRequests, ShutdownDrained, ShutdownReturns,
                DeadlinePasses
  <2>4. CASE ConsumerStep \/ CollectorStep \/ RegistryUsed \/ UNCHANGED vars
    BY <2>4 DEF ConsumerStep, ConsumerTakes, ConsumerSeesEnd, ConsumerReports, CollectorStep,
                RegistryUsed, vars, lifeVars
  <2> QED
    BY <2>1, <2>2, <2>3, <2>4 DEF Next
<1>2. starter'.at \in {"idle", "opening"} => (run.at = "none" /\ closing = "none" /\ ~ published)'
  <2> SUFFICES ASSUME starter'.at \in {"idle", "opening"}
               PROVE  (run.at = "none" /\ closing = "none" /\ ~ published)'
    OBVIOUS
  <2>1. /\ run.at = "none" /\ closing = "none" /\ ~ published /\ UNCHANGED published
        /\ starter.at \in {"idle", "opening"}
    BY <1>1 DEF CollectorComesFirst
  <2>2. CASE CollectorNext
    BY <2>1, <2>2 DEF CollectorNext, StopSession, ReleaseService, StreamEnds, NextBatch, RunStep,
       StreamEndSeen, Finished, BatchEnds, Emit, Emitting, GraceBegins, GraceEnds, EventDiscarded,
       EmitCancelled, RunReturns, queueVars, closeVars
  <2>3. ~ (starter' = [starter EXCEPT !.at = "opened"])
    BY DEF TypeOK, StartCall
  <2>4. ~ (starter.at = "closing" \/ \E g \in Stoppers : stopper[g].at = "requesting")
    BY <2>1 DEF CollectorComesFirst
  <2>5. CASE Cancel \/ EventTaken \/ UNCHANGED collectorVars
    BY <2>1, <2>5 DEF Cancel, EventTaken, collectorVars, queueVars, closeVars
  <2> QED
    BY <2>2, <2>3, <2>4, <2>5, StepUsesCollector DEF CollectorUsed
<1>3. \A g \in Stoppers : stopper'[g].at = "requesting" => published'
  <2>1. published => published'
    BY DEF Next, StartBegins, StartStep, CollectorStarted, Publish, Ready, Decide,
           StartClosesCollector, StartClosedCollector, StartFails, ShutdownBegins, StopStep,
           ShutdownRequests, ShutdownDrained, ShutdownReturns, DeadlinePasses, ConsumerStep,
           ConsumerTakes, ConsumerSeesEnd, ConsumerReports, CollectorStep, RegistryUsed, vars, lifeVars
  <2>2. ASSUME NEW g \in Stoppers, stopper'[g].at = "requesting"
        PROVE  published
    <3>1. CASE StartBegins \/ StartStep
      BY <2>2, <3>1 DEF StartBegins, StartStep, CollectorStarted, Publish, Ready, Decide,
         StartClosesCollector, StartClosedCollector, StartFails, CollectorComesFirst
    <3>2. ASSUME NEW h \in Stoppers, ShutdownBegins(h) \/ StopStep(h) \/ DeadlinePasses(h)
          PROVE  published
      BY <2>2, <3>2 DEF ShutdownBegins, StopStep, ShutdownRequests, ShutdownDrained, ShutdownReturns,
         DeadlinePasses, Stops, Returns, TypeOK, ShutdownCall, CollectorComesFirst
    <3>3. CASE ConsumerStep \/ CollectorStep \/ RegistryUsed \/ UNCHANGED vars
      BY <2>2, <3>3 DEF ConsumerStep, ConsumerTakes, ConsumerSeesEnd, ConsumerReports, CollectorStep,
         RegistryUsed, vars, lifeVars, CollectorComesFirst
    <3> QED
      BY <3>1, <3>2, <3>3 DEF Next
  <2> QED
    BY <2>1, <2>2
<1> QED
  BY <1>2, <1>3 DEF CollectorComesFirst

-----------------------------------------------------------------------------
\* Once run has returned without an error nothing reports one any more.
LEMMA CleanRunStays ==
    ASSUME RunFinishes, CollectorUsed, starter.at = "returned", run.at = "done", ~ runErr
    PROVE  (run.at = "done" /\ ~ runErr)'
<1>1. closing = "done"
  BY DEF RunFinishes, PastFinish
<1>2. CASE CollectorNext
  BY <1>1, <1>2 DEF CollectorNext, StopSession, ReleaseService, StreamEnds, NextBatch, RunStep,
     StreamEndSeen, Finished, BatchEnds, Emit, Emitting, GraceBegins, GraceEnds, EventDiscarded,
     EmitCancelled, RunReturns, queueVars, signalVars
<1>3. CASE ShutdownRequested \/ Cancel \/ EventTaken \/ UNCHANGED collectorVars
  BY <1>3 DEF ShutdownRequested, Cancel, EventTaken, collectorVars, queueVars, signalVars
<1> QED
  BY <1>2, <1>3 DEF CollectorUsed

LEMMA ConsumerEndsItStep ==
    ASSUME TypeOK, RunFinishes, ConsumerEndsIt, [Next]_vars
    PROVE  ConsumerEndsIt'
<1> USE DEF ConsumerEndsIt, regVars
<1>1. CASE StartBegins \/ StartStep
  <2>1. starter.at # "returned" /\ consumer = "none"
    BY <1>1 DEF StartBegins, StartStep, CollectorStarted, Publish, Ready, Decide,
       StartClosesCollector, StartClosedCollector, StartFails
  <2>2. starter = [at |-> starter.at, failed |-> starter.failed]
    BY DEF TypeOK, StartCall
  <2>3. CASE StartBegins
    BY <2>1, <2>2, <2>3 DEF StartBegins
  <2>4. CASE CollectorStarted
    BY <2>1, <2>2, <2>4 DEF CollectorStarted
  <2>5. CASE Publish
    BY <2>1, <2>2, <2>5 DEF Publish
  <2>6. CASE Ready
    BY <2>1, <2>2, <2>6 DEF Ready
  <2>7. CASE Decide
    BY <2>1, <2>2, <2>7 DEF Decide, Activate, TypeOK, StartCall
  <2>8. CASE StartClosesCollector \/ StartClosedCollector
    <3>1. starter'.at # "returned" /\ UNCHANGED <<consumer, stopping, done>>
      BY <2>2, <2>8 DEF StartClosesCollector, StartClosedCollector
    <3> QED
      BY <2>1, <3>1
  <2>9. CASE StartFails
    BY <2>1, <2>2, <2>9 DEF StartFails
  <2> QED
    BY <1>1, <2>3, <2>4, <2>5, <2>6, <2>7, <2>8, <2>9 DEF StartStep
<1>2. CASE UNCHANGED <<starter, consumer, stopping, done, err>>
  <2>1. consumer = "done" /\ done /\ ~ err => (run.at = "done" /\ ~ runErr)'
    BY CleanRunStays, StepUsesCollector
  <2> QED
    BY <1>2, <2>1
<1>3. ASSUME NEW g \in Stoppers, ShutdownBegins(g)
      PROVE  ConsumerEndsIt'
  BY <1>3 DEF ShutdownBegins, BeginShutdown, started, collectorVars, queueVars, signalVars
<1>4. CASE ConsumerSeesEnd
  BY <1>4 DEF ConsumerSeesEnd, StreamEnd, lifeVars
<1>5. CASE ConsumerReports
  BY <1>5 DEF ConsumerReports, collectorVars, queueVars, signalVars
<1>6. ASSUME NEW g \in Stoppers, StopStep(g) \/ DeadlinePasses(g)
      PROVE  UNCHANGED <<starter, consumer, stopping, done, err>>
  BY <1>6 DEF StopStep, ShutdownRequests, ShutdownDrained, ShutdownReturns, DeadlinePasses
<1>7. CASE ConsumerTakes \/ CollectorStep \/ RegistryUsed \/ UNCHANGED vars
  <2>1. UNCHANGED <<starter, consumer, stopping, done, err>>
    BY <1>7 DEF ConsumerTakes, CollectorStep, RegistryUsed, Register, MarkerComplete, Bind, Discard,
       Lookup, Elapse, vars, lifeVars
  <2> QED
    BY <1>2, <2>1
<1> QED
  BY <1>1, <1>2, <1>3, <1>4, <1>5, <1>6, <1>7 DEF Next, ConsumerStep

LEMMA DoneIsFinalStep ==
    ASSUME TypeOK, ConsumerEndsIt, DoneIsFinal, [Next]_vars
    PROVE  DoneIsFinal'
<1> SUFFICES ASSUME StartedFirst'
             PROVE  /\ done' => starter'.at = "returned" /\ (err' \/ consumer' = "done")
                    /\ \A g \in Stoppers : stopper'[g].at = "returned" /\ ~ stopper'[g].failed =>
                           done' /\ ~ err'
  BY DEF DoneIsFinal
<1>1. StartedFirst
  <2>1. ASSUME NEW g \in Stoppers, stopper[g].at # "idle", ~ stopper[g].sawStart
        PROVE  stopper'[g].at # "idle" /\ ~ stopper'[g].sawStart
    <3>1. CASE UNCHANGED stopper
      BY <2>1, <3>1
    <3>2. ASSUME NEW h \in Stoppers, ShutdownBegins(h) \/ StopStep(h) \/ DeadlinePasses(h)
          PROVE  stopper'[g].at # "idle" /\ ~ stopper'[g].sawStart
      BY <2>1, <3>2 DEF ShutdownBegins, StopStep, ShutdownRequests, ShutdownDrained, ShutdownReturns,
         DeadlinePasses, Stops, Returns, TypeOK, ShutdownCall
    <3>3. CASE StartBegins \/ StartStep \/ ConsumerStep \/ CollectorStep \/ RegistryUsed \/ UNCHANGED vars
      BY <3>1, <3>3 DEF StartBegins, StartStep, CollectorStarted, Publish, Ready, Decide,
         StartClosesCollector, StartClosedCollector, StartFails, ConsumerStep, ConsumerTakes,
         ConsumerSeesEnd, ConsumerReports, CollectorStep, RegistryUsed, vars, lifeVars
    <3> QED
      BY <3>2, <3>3 DEF Next
  <2> QED
    BY <2>1 DEF StartedFirst
<1>2. /\ done => starter.at = "returned" /\ (err \/ consumer = "done")
      /\ \A g \in Stoppers : stopper[g].at = "returned" /\ ~ stopper[g].failed => done /\ ~ err
  BY <1>1 DEF DoneIsFinal
<1>3. CASE StartBegins \/ StartStep
  <2>1. ~ done /\ UNCHANGED stopper
    BY <1>2, <1>3 DEF StartBegins, StartStep, CollectorStarted, Publish, Ready, Decide,
       StartClosesCollector, StartClosedCollector, StartFails
  <2>2. CASE StartFails
    BY <1>2, <2>1, <2>2 DEF StartFails, TypeOK, StartCall
  <2>3. CASE UNCHANGED <<done, err>>
    BY <1>2, <2>1, <2>3
  <2> QED
    BY <1>3, <2>2, <2>3 DEF StartBegins, StartStep, CollectorStarted, Publish, Ready, Decide,
       StartClosesCollector, StartClosedCollector
<1>4. ASSUME NEW g \in Stoppers, ShutdownBegins(g) \/ StopStep(g) \/ DeadlinePasses(g)
      PROVE  /\ done' => starter'.at = "returned" /\ (err' \/ consumer' = "done")
             /\ \A h \in Stoppers : stopper'[h].at = "returned" /\ ~ stopper'[h].failed =>
                    done' /\ ~ err'
  <2>1. UNCHANGED <<starter, consumer, err>>
    BY <1>4 DEF ShutdownBegins, BeginShutdown, StopStep, ShutdownRequests, ShutdownDrained,
       ShutdownReturns, DeadlinePasses, regVars
  <2>2. CASE ShutdownBegins(g)
    <3>1. stopper'[g].sawStart = started /\ stopper'[g].at # "idle"
      BY <2>2 DEF ShutdownBegins, TypeOK, ShutdownCall
    <3>2. started /\ done' = done
      BY <2>2, <3>1 DEF ShutdownBegins, StartedFirst, TypeOK
    <3>3. \A h \in Stoppers : stopper'[h].at = "returned" =>
             stopper[h].at = "returned" /\ stopper'[h].failed = stopper[h].failed
      BY <2>2, <3>2 DEF ShutdownBegins, TypeOK, ShutdownCall
    <3> QED
      BY <1>2, <2>1, <3>2, <3>3
  <2>3. CASE ShutdownRequests(g) \/ ShutdownDrained(g) \/ DeadlinePasses(g)
    <3>1. \A h \in Stoppers : stopper'[h].at = "returned" =>
             stopper[h].at = "returned" /\ stopper'[h].failed = stopper[h].failed
      BY <2>3 DEF ShutdownRequests, ShutdownDrained, DeadlinePasses, Stops, TypeOK, ShutdownCall
    <3>2. UNCHANGED done
      BY <2>3 DEF ShutdownRequests, ShutdownDrained, DeadlinePasses
    <3> QED
      BY <1>2, <2>1, <3>1, <3>2
  <2>4. CASE ShutdownReturns(g)
    <3>1. \A h \in Stoppers \ {g} : stopper'[h] = stopper[h]
      BY <2>4 DEF ShutdownReturns, Returns, TypeOK
    <3>2. ~ stopper'[g].failed => done /\ ~ err
      BY <2>4 DEF ShutdownReturns, Returns, TypeOK, ShutdownCall
    <3> QED
      BY <1>2, <2>1, <2>4, <3>1, <3>2 DEF ShutdownReturns
  <2> QED
    BY <1>4, <2>2, <2>3, <2>4 DEF StopStep
<1>5. CASE ConsumerSeesEnd
  BY <1>2, <1>5 DEF ConsumerSeesEnd, StreamEnd, lifeVars
<1>6. CASE ConsumerReports
  BY <1>2, <1>6 DEF ConsumerReports, ConsumerEndsIt, regVars
<1>7. CASE ConsumerTakes \/ CollectorStep \/ RegistryUsed \/ UNCHANGED vars
  <2>1. UNCHANGED <<starter, consumer, done, err, stopper>>
    BY <1>7 DEF ConsumerTakes, CollectorStep, RegistryUsed, Register, MarkerComplete, Bind, Discard,
       Lookup, Elapse, vars, lifeVars, regVars
  <2> QED
    BY <1>2, <2>1
<1> QED
  BY <1>3, <1>4, <1>5, <1>6, <1>7 DEF Next, ConsumerStep

-----------------------------------------------------------------------------
LEMMA LifeInvStep == LifeInv /\ [Next]_vars => LifeInv'
<1> SUFFICES ASSUME LifeInv, [Next]_vars PROVE LifeInv'
  OBVIOUS
<1>1. TypeOK /\ CollectorTypeOK /\ CollectorUsed
  BY StepUsesCollector DEF LifeInv, TypeOK
<1> QED
  BY <1>1, TypeStep, FailuresStep, ComesFirstStep, ConsumerEndsItStep, DoneIsFinalStep DEF LifeInv

THEOREM LifeInvariant == Spec => []LifeInv
  BY LifeInvInit, LifeInvStep, PTL DEF Spec

\* Wait says that all is well only if somebody asked for the end, and the
\* session was stopped and its connection closed, whatever else goes on.
THEOREM CleanEnd == Spec => []CleanEndIsReal
<1>1. LifeInv => CleanEndIsReal
  BY DEF LifeInv, ConsumerEndsIt, RunFinishes, PastFinish, FailuresRecorded, CleanEndIsReal
<1> QED
  BY <1>1, LifeInvariant, PTL

\* A Shutdown that reports no error has stopped the session, drained what it
\* sent and released its connection, for any number of Shutdowns that race
\* Start and each other.
THEOREM CleanShutdown == Spec => []CleanShutdownReleases
<1>1. LifeInv => CleanShutdownReleases
  <2> SUFFICES ASSUME LifeInv, StartedFirst, NEW g \in Stoppers,
                      stopper[g].at = "returned", ~ stopper[g].failed
               PROVE  run.at = "done" /\ session = "stopped" /\ released /\ consumer # "active"
    BY DEF CleanShutdownReleases, StartedFirst
  <2>1. done /\ ~ err /\ consumer = "done"
    BY DEF LifeInv, DoneIsFinal
  <2>2. run.at = "done" /\ ~ runErr
    BY <2>1 DEF LifeInv, ConsumerEndsIt
  <2> QED
    BY <2>1, <2>2 DEF LifeInv, RunFinishes, PastFinish, FailuresRecorded
<1> QED
  BY <1>1, LifeInvariant, PTL
=============================================================================
