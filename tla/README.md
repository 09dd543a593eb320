# Verification of firebirdsql-otel

TLA+ models of the OpenTelemetry instrumentation of the Go Firebird driver,
model-checked with TLC and, in part, proved with TLAPS. Paths below are those of
the repository (`src/...`); the modules are in this directory.

## The system

The library wraps a `database/sql` driver and makes three kinds of telemetry:
client spans for driver calls, server spans reconstructed from the text Trace
of a Firebird server, and profiles of the server's profiler. Beside it stand two
diagnostic readers, of the catalog and of the `MON$` tables. Four parts carry
the logic, and each is modelled with everything that runs beside it:

* **The correlation path.** The *instrumented connection* (`client.go`,
  `server_scope.go`) runs a *marker* query,
  `SELECT 1 ... /*firebirdotel_scope:<token>*/`, immediately before a business
  statement, having registered the random token. When the call returns, it
  *binds* the token to the client span, or discards it. The *server* reports
  marker and statement, with everything the statement calls, on a Trace session;
  the *collector* (`trace/runtime.go`) reads it, the *parser*
  (`internal/traceparse`) pairs starts and finishes and guesses the nesting. The
  *span consumer* (`trace/spans.go`, `consume`) sees a marker finish on an
  attachment, takes the next top-level statement there for the root of a tree,
  collects what the root calls, and exports the tree as spans under the client
  span once the root has finished and the client span is known. The *scope
  registry* (`SpanRuntime.registrations`) is all the two sides share.
* **The life of a SpanRuntime**: Start, any number of Shutdowns, Wait, and the
  goroutines behind them.
* **Profiled calls and their rows.** A call starts a profiler session on the
  user's own connection, and finishes it when its rows are closed; calls of one
  transaction share the connection, and with it the server's one current
  session. Rows have a span of their own, whose outcome Close decides together
  with the callbacks of two contexts.
* **The diagnostic readers** share a pool with each other, and the metadata
  reader has a cache that a migration invalidates.

### Components

| Component | State | Operations | Interacts with | What makes it correct |
|---|---|---|---|---|
| Scope registry (`trace/spans.go`) | `registrations`, `running`, `stopping`, `started`, `err` under one mutex | Register, MarkerComplete, Bind, Discard, lookup; Start, Shutdown, Wait | called by every driver goroutine and by the consumer | bounded; admits only while it is consumed; a scope that is gone stays gone |
| Trace parser (`internal/traceparse`) | line, record, a stack of activities per attachment and transaction, sequence, `incomplete` | Feed, Gap, Flush, FlushFinished | called by the collector only | never pairs a finish with another start; never nests wrongly without saying so; bounded |
| Collector (`trace/runtime.go`, `services_buffered.go`) | channel, `stopping`, `closeOnce`, `discard`, `err` | Start, run, finish, requestClose, Shutdown, Wait | server, parser, consumer | events in order; terminates; releases the service connection once |
| Span consumer (`trace/spans.go`) | pending markers, frames, trees, active sequences and their counts | one branch of `consume` per event, ticker, bound signal, end | registry, collector, exporter | right parent, pure trees, nothing lost or repeated, bounded |
| Instrumented connection (`client.go`, `server_scope.go`, `profile_scope.go`, `telemetry.go`) | `serverRows`, `serverToken`, `fallbackToken`, `fallbackQuery`, the token of a statement, transaction context | Exec, Query, Prepare, statement calls, Close, Begin, Commit, ... | database/sql, registry, profiler, driver | every token has one holder and is bound or discarded |
| Rows (`rows.go`) | counters, errors, two cancellations, once | Next, NextResultSet, Close, two callbacks | database/sql, connection, profiler | one outcome per rows, and a true one; Close always returns |
| Profiler sessions (`profiler/runtime.go`, `profile_scope.go`) | the server's sessions and stored profiles, `profileDirty` of the connection | Start, Finish, Cancel, delete, CleanupStale | connection, server tables, diagnostic pool | the session never outlives the lease of its connection; nothing stays stored unnoticed; a profile has the work of its call |
| Metadata reader (`metadata/reader.go`) | the cache, the schema version and generation | Read, Invalidate | diagnostic pool, catalog | no stale answer; exact or truncated graphs; bounded |
| Monitoring reader (`monitoring/reader.go`) | none between calls | Read | diagnostic pool, `MON$` | one moment per snapshot; bounded; gives its connection back |
| SQL text (`internal/sqltext`) | none | completeness, framing, lexing, summaries | parser, client | its scanners agree; literals never show |
| Registration, config (`register_safe.go`, `safe.go`, `config.go`, ...) | names of registered drivers | Register, Open, validation | database/sql | not modelled |
| Capability wrappers (`capabilities_*_generated.go`) | none | generated | database/sql | not modelled |

### What is hard

Goroutines of one transaction share a connection, one driver call at a time,
but an operation is *several* calls when the driver answers `ErrSkip`, and its
profiler session and rows span several more. The consumer runs arbitrarily far
behind. Bind may come before or after the tree is complete. Any record may be
missing or unusable. A scope may expire at any moment. Shutdown may come at any
moment, even during Start. A profiler command may fail although the server has
executed it. A migration may come between any two queries of a walk.
`PROJECT.json` lists each of these hazards at its line.

## The modules

| Module | Models |
|---|---|
| `ScopeRegistry` | the registry as a contract: any goroutine, any operation, any old token. Also the operators on the map that the other modules use |
| `TraceParser` | `finish`, `Gap`, `Flush`, as operators from a parser to a parser and its events |
| `ParsedCalls` | a server whose calls are known, read by `TraceParser` |
| `TraceStream` | the channel between server and consumer, with its end, a damaged record and the events dropped in shutdown |
| `SpanConsumer` | `consume`: one action per branch |
| `ClientScope` | the token's life in connection and statement |
| `Correlation` | the composition of all of these; its properties |
| `ServerSpans` | what the composition promises, without tokens, markers and streams |
| `Collector` | the goroutines of a collector: `run` with `emit` and `finish`, the reader of the stream, and the one that closes the session |
| `SpanLifecycle` | `Start`, `Shutdown` and the frame of `consume`, around a registry and a collector |
| `ProfilerSession` | the server's sessions of one attachment, and the profiler's commands on them with every failure |
| `Rows` | the operators of one `rowsState`: Next, NextResultSet, Close, and the callbacks |
| `ProfiledRows` | calls, transactions and leases of a pool, around `ProfilerSession` and `Rows` |
| `DependencyWalk` | the breadth-first walk of the catalog, one query at a time |
| `MetadataReader` | Read and Invalidate around the walk: cache, expiry, generation |
| `MonitoringReader` | Read of the `MON$` tables, one statement at a time |
| `Diagnostics` | both readers over one pool of connections |
| `SqlText` | the scanners of SQL text, and the reference reading |
| `TableCounters` | the counters of a table row, and the row the server writes |
| `TreeExport` | `exportTree` and `repeatedLeaves` |
| `RecordLines` | `consume`: the records, texts and metadata in the lines of a session, and the session the server writes |
| `MCParsedCalls`, `MCCorrelation`, `MCProfiledRows`, `MCDiagnostics`, `MCAlgorithms` | instances for TLC; `MCSpanLifecycle.cfg` instantiates `SpanLifecycle` directly |
| `ScopeRegistryProofs`, `SpanLifecycleProofs`, `TraceParserProofs`, `ParsedCallsProofs`, `CorrelationProofs`, `ConsumerProofs`, `ProfiledRowsProofs`, `DiagnosticsProofs` | theorems |

`ClientScope` and `SpanConsumer` both extend `TraceStream`, which extends
`ScopeRegistry` and `TraceParser`; `Correlation` extends both. `SpanLifecycle`
extends `ScopeRegistry` and `Collector`: the path of the data is checked in
`Correlation`, where the stream simply ends at some moment, and the life of the
goroutines in `SpanLifecycle`, where events are only counted. `ProfiledRows`
extends `ProfilerSession` and `Rows`; `Diagnostics` extends `MetadataReader`, which
extends `DependencyWalk`, and `MonitoringReader`. The four algorithms are
operators without state; `MCAlgorithms` grows their inputs.

### How state and actions correspond to the code

* **Tokens** are 16 random bytes in the code; here the n-th token is the number
  n. Freshness is thus assumed. A scope records whether its retention has
  elapsed (`expired`) instead of two times; `Elapse` makes that happen, oldest
  scope first. Trees are known by the sequence number of their root.
* **The parser** is run when the server writes a record, and all the delay of
  the stream is in the channel. This is sound because nobody else reads the
  raw text and its order is fixed. Lexing is abstracted to its outcome:
  recognised; a statement without number; no attachment; unusable (a gap). Gaps
  stand for unsupported events (`FAILED EXECUTE_STATEMENT_FINISH` is one), bad
  timestamps, long lines and long records.
* **The server in `ParsedCalls`** is external: activations have identities, and any
  activation that is open may call the next one, since a cursor that is fetched
  again runs its routines under cursors opened after it. Two histories record
  what the text of a Trace cannot show: whether an activation ever started that
  the innermost one did not call (`overlapped`), and whether a routine ever
  finished before one started later (`disordered`).
* **A driver call** is two steps: `DirectCall` or `StatementCall` runs marker,
  profiler and statement on the server and gets the driver's answer; `Return`
  decides about the token. The consumer may run in between.
  database/sql's lock is `Free`. `ErrSkip` leads through `Return` to `Prepare`,
  `PrepareFails` or `GiveUpSkipped`, and from there to `StatementCall`.
* **Owner** is a ghost: each record knows which client operation it works for,
  and no action reads it. `RootAttribution` and `TreePurity` do.
* **The consumer** takes one event per action. Its `bound` channel and its
  ticker both call `flush`; `Flush` may happen at any time, `Tick` also cleans
  `pending`.
* **The collector's goroutine** is the record `run`: where it is, how many events
  of its batch are left, and whether it returns after them. Each branch of the
  nested selects of `emit` is an action: room in the channel (`Emit`), the grace
  period (`GraceBegins`, `GraceEnds`), `discard` (`EventDiscarded`), the context
  (`EmitCancelled`). Timers fire at any moment. `closing` is the goroutine of
  `requestClose`, one per session whoever asks first; connecting, stopping, the
  reply and closing the connection may each fail (`StopSession`,
  `ReleaseService`).
* **Start and Shutdown** are divided where they wait or give up the mutex: Start
  opens the session, publishes the collector, waits for "ready" and decides, and
  a Shutdown may come between any two of these. A failed Start shuts its own
  collector down. `Wait` only reads `done` and `err`, which are variables.
* **Shutdown in `Correlation`** is `ShutdownBegins`, `StreamEnds` and `ConsumerEnds`, at any
  moment; `ChannelOverflows` drops the event that found the channel full, which
  the code does when nobody drained it for the grace period. `dropped`, a ghost,
  remembers that.
* **The ticker** in `SpanConsumer`: `flush` exports complete trees and drops
  expired ones, and `Tick` cleans `pending` after it, as the code does.
* **A profiler command** is answered, is executed with its answer lost, or fails
  before it is executed. None but the DELETE names a session: START ends the current one,
  CANCEL forgets it, FINISH stores every ended one, which is what `AfterStart`,
  `AfterCancel` and `Finish` do to the attachment. `Call` is the whole of a
  profiled driver call; what Close or the return does with the session
  afterwards is one action per command (`FinishStage`, `CancelStage`,
  `ReportStage`, `DeleteStage`): each may fail, and contexts, callbacks, other
  connections and `CleanupStale` go on between them. A lease ends with `GivenBack`, where the pool asks
  `IsValid`.
* **Rows.** A cancelled context first closes `Done` (`Cancel`) and its callback
  sends the error later (`Signal`); `CloseChecks` looks at one cancellation at a
  time, as Close does. `due` is history: which contexts were done when Close
  began; `finish` is what became of the call's FINISH_SESSION.
* **A metadata Read** is one action per query of its walk, so that migrations
  come between any two; the graph remembers, as history, the catalogs of its
  first and last query. `generation` is the code's counter, `announced` the
  schema at the last Invalidate. Expiry is a horizon below which entries have
  expired.
* **A monitoring Read** is one action per statement; the server is a sequence of
  moments, and the first `MON$` query of a transaction fixes its moment.
* **Texts, rows of counters and trees** are abstracted to what the code asks of
  them: classes of characters, numbers of digits, sorts of nodes. The references
  are written the other way round: a reading symbol by symbol, the row the server
  writes, the tree the consumer collected.
* **Lines.** In `RecordLines` a line is what it looks like (a header, `Statement n:`,
  `param0 = ...`) and the record it tells of, which is none if it stands in the text
  of a statement. A line of a text also says what the scanners make of it: an odd
  quote, a last token that wants more, a cut. Functions and triggers are read as
  procedures are. `TraceParser` takes records from there on.

Each `Mutant:` operator is a plausible wrong version of the definition below it.
It is used in no specification; replacing the definition by it must break the
property named with it in `PROJECT.json`, which shows that the property depends
on that piece of code.

## The runs

| Run | Instance | Question |
|---|---|---|
| `span_lifecycle` | Start and 2 Shutdowns, one of them with a context that ends; a channel of 1, a batch of 1, 2 tokens, limit 1, fair | does the registry keep its contract under any order of calls, is success only reported for what was released, and does every goroutine and call end? |
| `parsed_calls` | 2 keys and none, 4 starts, depth 2, 1 stack | does the parser pair and nest rightly, or say that it does not know? |
| `shared_connection` | 2 goroutines, 1 connection, 2 operations, a channel of 11 | are trees pure with profiler, unmarked operations, open cursors and one damaged record, with the stream ending at any moment? |
| `all_marked` | 2 goroutines, 1 connection, MaxNodes 1, MaxFrames 3, expiry, fair | are memory and labels right at the limits? Does an overlap suppress the right cursor? Does what is followed settle? |
| `skipped_calls` | 1 goroutine, 2 connections, 2 texts, 2 operations, failures, fair | does the path with `ErrSkip` implement `ServerSpans`, with one holder per token, and does every undisturbed client span get its tree? |
| `profiled_rows` | 2 calls, 1 connection, 2 sessions, 2 failed commands, 2 cancelled contexts, 3 configurations, fair | does no session outlive its lease, does no profile stay unnoticed, has a profile its call, is the outcome of rows true, and does every call return? |
| `diagnostics` | 2 readers of metadata, or one and a reader of `MON$`, a pool of 1, a cache of 1, 2 schemas, 3 moments, fair | is no answer stale, every graph exact or truncated, every snapshot of one moment, and does every Read return? |
| `algorithms` | texts of 5 pieces, rows of 3 counters, trees of 5 nodes, sessions of 2 records with 3 lines of SQL | do scanners, counters, export and framing agree with their references? |
| `skipped_and_profiled` | 1 goroutine | violated, see below |
| `unmarked_cursors` | 2 goroutines, 1 connection | violated, see below |
| `dropped_events` | 1 goroutine, a channel of 1 | violated, see below |
| `wide_counters` | as `algorithms` | violated, see below |

**Bounds.** `MaxOps` bounds operations, `MaxTokens` and `MaxStarts` tokens and
activations, `MaxLag` the events unread when a call *begins* (a call then adds
up to a dozen more), `Capacity` the channel. Two operations are enough for one to
disturb the other in every pair of phases. With `Routines` an operation calls one
procedure, so that trees have two nodes. A stream is damaged at most once, at any
record: after a gap the parser's state is the initial one but for `incomplete`.
The channel of `shared_connection` holds all but the longest bursts, so that
events are dropped in a small part of the states; `dropped_events` has a channel
of one. In `parsed_calls` damage is unlimited, `MaxScopes` of 1 makes the second
transaction overflow, `MaxDepth` of 2 the third nested call, and four starts allow
recursion and two cursors. Its keys, and its statements, are interchangeable, and so
are goroutines in the runs without liveness: they are symmetric there.

In `span_lifecycle`, `Stoppers` are the callers of Shutdown: two, so that one finds
what the other has begun; `Impatient` those of them whose context may end, one, so
that the other shows what needs no deadline. `Buffer` 1 makes the channel full
after "ready"; `MaxBatches` and `BatchSize` of 1 give an event before the end and
one after it (`Flush`), and three events with "ready" fill the channel, outlast
the grace period, and are discarded. One scope at a time (`MaxPending` 1) and two
tokens make the registry refuse, forget and admit again.

In `profiled_rows`, two calls are enough for one to run inside the other's session
in a transaction, or after it in the next lease; `MaxSessions` 2 gives each its
own; `MaxFailures` 2 lets a command and the one that should repair it fail, and
the repair of the other call too; `MaxCancels` 2 are the query's and the
transaction's context. The configurations are those that differ: the profiler
with and without a driver that has `IsValid`, and rows with their own span.

In `diagnostics`, the pool and the cache have one place, so that readers wait for
each other and entries evict each other; one migration with its Invalidate
(`MaxInvalidations`) falls between any two queries; `MaxStores` 3 lets two reads
store, and a third read what they stored. `MaxNodes` 3 and `MaxDepth` 2 cut the
graphs of the first schema, which has four objects; both have a cycle through a
packaged routine; `MaxRows` 1 cuts some collections of the moments. Migrations and `MON$`
are not read together (`Mixed`): the two readers only share the pool.

In `algorithms`, all limits are small enough to be reached: a column of 3 digits
and a name of 4 characters with counters up to 5 digits, 3 spans per tree, groups
of 2, one group, 5 tokens, 2 brackets. Five pieces of text nest, open, close and
follow a literal or comment by each other. Three lines of SQL in two records let a
line that looks like any other stand in a literal, after it, or between two texts;
`MaxLines` 14 makes the longest records overflow after their text, so that a gap
comes in the middle of one.

**Deadlock.** Not checked in runs with bounded operations: the instance ends when
the operations are used up, as a program that makes no more calls does; and a
SpanRuntime may end, too. That nobody waits for ever is `NothingLeftRunning`,
`CallsReturn` and `ReadsReturn`.

**Fairness** (`Correlation!Fairness`). Weak fairness of receiving an event and of
the ticker: the consumer is a goroutine in a loop over both, and the ticker
fires every second. A driver call returns, and rows are closed: the code relies
on the driver and on database/sql for that. These two are stated on states
(`[]<>(pc # "calling")`) because nothing obliges a caller to begin anything. No
fairness of `Elapse`: the properties hold without retention.

`SpanLifecycle!Fairness` is weak fairness of every goroutine that can go on: the Go
scheduler runs it, and its timers (250 ms, 2 s, 10 s) fire. The stream of a
session that was stopped, whose connection was closed or whose context was
cancelled ends, which is what the driver promises to `WaitChunksContext`. No
fairness of the services that close the session, which may hang for ever, of
the server's traffic, or of the contexts of the callers: `NothingLeftRunning`
and `CallsReturn` hold without them.

`ProfiledRows!Fairness`: the Go runtime runs the callback of a cancelled context
(`Signal`), and the goroutine inside Close or Finish goes on (`Completing`), since
every profiler command has its own deadline. Nothing obliges the application to
call, fetch, cancel or close.

`Diagnostics!Fairness`: a goroutine inside Read goes on, as its statements have
deadlines, and the pool serves those that wait in turn, as database/sql's queue
of connection requests does; that is strong fairness of getting a connection.

### What the violated runs show

* `skipped_and_profiled`: after `ErrSkip` the marker is kept for the retry, but
  the profiler's `CANCEL_SESSION` and the next `START_SESSION` run on the
  attachment in between, and the consumer takes the first of them for the
  operation's root. The comment on `MarkerComplete` says that the business
  statement comes immediately after the marker.
* `unmarked_cursors`: `serverToken` survives the operation it was set for. When
  the open rows belong to an unmarked operation, the overlap discards the scope
  of an older one that waits for its export.
* `dropped_events`: events dropped in shutdown leave no gap in the stream, so
  that markers and statements which are not neighbours are matched. The
  documentation says that loss suppresses the affected trees.
* `wide_counters`: a counter that has overflowed its column and follows a padded
  one is cut in the middle, and its first digits go to the neighbour; the check
  for ambiguous neighbours looks at the numbers after the cut. The test demands
  that such a row be rejected, and tries the one case another check rejects.

The passing runs leave out exactly the combination that a violated run is about:
`skipped_calls` has no profiler, `all_marked` has no unmarked operations,
`TreePurity` and `FramesBelongToTrees` except streams that lost events in shutdown
(a lost finish may leave a frame behind whose tree is gone), and `CountersReadBack`
excepts rows in which numbers run together; `ReadAsRecords` excepts the texts
named under "Not modelled". Two exceptions are limits of the
code that its documents do not exclude, and the text of the property names them:
without an `IsValid` in the driver the pool never learns that a connection is
dirty (`ReusableIsClean`), and the clean-up of a START or FINISH that was refused
cancels whatever session the other call of the transaction has open
(`ProfileHasItsCall`). Two are limits of what a Trace shows, and are premises of the
properties of `ParsedCalls`: when cursors are fetched in turns, the routine a fetch
runs starts under a cursor opened later, and its parent is a guess (`overlapped`);
and when such routines finish out of order, a finish may be given the start of
another activation of the same routine (`disordered`).

## What is proved

`ScopeRegistryProofs`, for every set of spans, every `MaxPending` and every
number of tokens: `RegistryTyped`, `RegistryBounded`, `AdmissionNeedsConsumer`,
`NothingOutlivesConsumer`, `ScopesStayGone` and `ClientSpanStays`. The
inductive invariant is `RegInv`, the conjunction of the type invariant and the
three state properties. None is inductive alone: counting needs the tokens to
be a finite set, which the type invariant says, and that nobody registers when
the consumer is gone follows from `RunningOnlyWhileConsumed`. Most actions
only remove or rewrite scopes; the lemma `ShrinkKeepsInv` deals with them
at once, and `StepKeepsScopes` gives both action properties.

`SpanLifecycleProofs`, for any number of Shutdowns, every capacity of the channel
and every traffic. `LifecycleKeepsRegistry` shows that the detailed specification
implements `RegSpec`, so that the theorems above hold of it (`LifecycleAdmission`).
`LifecycleTyped` includes the bound of the channel. `CleanEnd` and
`CleanShutdown` say that success is only reported for what was released. They
need the invariant `LifeInv`: an error of the clean-up is recorded before the
clean-up is seen to be over (`FailuresRecorded`); `run` does not return before
that, or records its own error (`RunFinishes`); nothing happens to a collector
that Start has not made (`CollectorComesFirst`); and `done` is closed by whoever
is the last to write `err` (`ConsumerEndsIt`, `DoneIsFinal`), so that no
Shutdown reads it too early. Each part is kept by a lemma of its own, with one
step per action.

`TraceParserProofs`, for every set of keys and activities, all limits, and
records in any order: `ParserMemoryBounded`. Its invariant, `WithinLimits`, adds
that the stacks are sequences of frames and the keys finitely many; it is proved
of each result operator (`GapWithinLimits`, `StartWithinLimits`,
`FinishWithinLimits`), then of each action.

`ParsedCallsProofs`, for the same and every order of calls and damage:
`StacksAreInnerCalls`, `FinishesFindTheirStart`, `ParentsAreCallers` and
`CertainStartsAreRight`. The four are one argument. Its invariant `NestingInv` says
that a stack of the parser is the inner end of what is open on the server
(`StacksInner`, which is `StackIsInnerCalls`), and, what a certain start needs, all
of it as long as nothing was lost (`StacksWhole`). A finish is looked for by its
activity from the top, so that open statements must differ (`CallsDiffer`); a parent
is the top, so that what is open must be a chain of calls (`CallsChained`). The
other three properties speak of a step: they hold of the events of every step that
starts in the invariant (`LastStep`). `RemovedAt`, `PushedInner` and `PoppedInner`
are the facts on sequences it takes.

`CorrelationProofs`, for any number of goroutines, connections, transactions and
queries, all limits, and whatever stream and consumer do: `TokensHaveOneHolder` and
`PathIsBounded`. `OneHolder` counts places; the invariant `HolderInv` says instead
that no two places keep the same token (`Exclusive`) and that a registered scope is
kept somewhere exactly until it is bound (`Decided`), and `HoldersCounted` turns one
into the other. What moves a token from place to place is one fact (`Handover`), and
so is what forgets it (`WithoutKeeps`); the consumer only removes scopes
(`RegistryShrinks`). `CallersHold` says at which places of its code a call may keep a
token at all, without which the token of an earlier call could be kept twice.

In the same module, `CursorsSuppressed`: `OverlapSuppressesCursor`, where no call is
skipped and every call that finds no rows open gets a scope (`CallsScoped`). Its
invariant `OverlapInv` says what the connections remember: no two the same token
(`OwnTokens`), and beside open rows only a token that is gone or that of the one
cursor there (`CursorScope`), so that what `serverScope` discards is no other scope;
and a call under way is the one remembered, or has discarded it (`Suppresses`).
`UndisturbedCursors` needs
nothing of the steps: all
operations traced, no failed marker, no end of the session and room in the registry
for every operation (`Undisturbed`, which `MCAllMarked` satisfies) imply that each
call gets its scope (`Admitting`).

`ConsumerProofs`, for the same, every damage to the stream, every delay, and whatever
is dropped in shutdown: `CountsStayTrue`, `FramesKeepTheirTrees`,
`MemoryIsBounded` and `PathIsTyped`. The consumer checks little of what it receives: it relies on the
order of the events. `ConsumerInvariant` states that order and carries it from the
parser's stacks through the channel into the consumer's maps. `PathIsTyped` takes the consumer's half
of `TypeOK` from it, and the client's from `ClientTypes` in `CorrelationProofs`, where
`CallsCounted` counts: the field `serverRows` of a connection is the number of calls
that read rows on it, however they opened them and whatever a close meets, so that it
is never below zero; and an operation, with its repetition after `ErrSkip`, registers
at most two tokens.

* In any stream (`Ordered`), starts come with growing sequences, parents before
  children, and no sequence is on two stacks. So what the consumer keeps is older than
  any start under way (`Known`, `Old`), a start is a new entry of `active` and
  `frames`, and the counters follow the entries one by one (`Counted`): that is
  `CountsAgree`.
* Until an event is dropped (`Nested`, `Following`), an activity finishes before the
  one that called it (`EndsFirst`), so that nothing is followed any more when its root
  finishes and the tree goes.
* When events may be dropped, that order is gone. What is left is that each activity
  under way has a `Family`, the activities it calls, directly or not, which all start
  before it finishes; what may not call any more is `Spent`. With it, a start
  never joins a tree that has been exported (`Related`, `Familiar`), and
  `ConsumerBounded` holds of every stream.

`Grows` says of a step of the parser that it keeps all this; it is transitive
(`GrowsOn`) and is proved of what one message may do to the stacks, nothing or a gap
(`QuietGrows`), a start without room (`SpillsGrows`), a start on top (`PushesGrows`),
the finish of the top (`PopsGrows`), then of each record, of a batch of records
(`ReadGrows`), and of what each call of the client makes the server write. `HeadLeaves` and `DropLeaves` say what stays true when the consumer
takes the first event, or shutdown drops any; then there is one lemma per branch of
`consume`.

`SpansGetOneTree`, `TreesFollowSpans` and `PureTreesImplement`, in the same module, take
the refinement of `ServerSpans` apart. The first two need no assumption on the
configuration: no two trees hang under one span; and a step ends the span of an
operation that has none, or attaches trees, none of them empty, each the only one, to
spans that have ended, were recorded and have none, or does neither, and no tree is
taken back. Four invariants carry this (`Attached`). `SpansInv`: two calls never work
on one operation, the span of a call under way, skipped or prepared has not ended
(`OpsOnce`), and scopes are bound to ended spans only (`BoundIn`). `Binding` says of each
step that it binds one scope at most, to a span that ends in it. `ApartInv`: a token
marks once. Whatever a step writes (`SubmitMarks`, `JobWrites`), a start that carries a
token is new or was under way before (`Marks`, `SilentMarks`), so that of the starts in the
channel, the pending markers and the trees at most one has a given token (`Apart`).
`ExportInv`: no two scopes are bound to one span, and none to a span that has a tree,
because `exportTree` forgets the scope with it. What is left of the promise is that a
tree shows its operation's work alone, and `PureTreesImplement` says that nothing else is:
every behaviour in which that holds (`OwnWork`) implements `ServerSpans`.

`ProfiledRowsProofs`, for any number of calls, connections, sessions, failures
and configurations: `ReusableIsCleanAlways` and `NothingLeftStoredAlways`. The
inductive invariant is `LeaseInv` (`LeasesKnowSessions`). `ReusableIsClean` speaks
of free connections only; before one is free, `Owned` says that each session on a
connection that is not dirty belongs to a call there which has still to end it
or to notice that it cannot, and `DirtyIsLeased` that a dirty connection is not
yet back in the pool. `Leased` says that only a transaction shares a connection,
`RowsOK` and `SessionOK` tie the places of calls, rows and sessions together. There
is one lemma per command of the profiler, then one per action. With the bounds of
the counters it gives `StatesAreTyped`.

Two more invariants stand on it. `OutcomesAreTrue` follows rows from open to closed:
a callback only sends after its context is done (`Honest`), and a context that was
done when Close began is observed by Close unless the rows had ended or Close has
still to look at it (`Observing`, by the position of `CloseChecks`); when Close is
over, that is the property (`Told`). `ProfilesHaveTheirCall` follows one session: it
has measured its call (`Measures`), it is at the server until it is finished and
stored until it is deleted (`Survives`), and no command of another call takes it
away: two calls never have one session (`Alone`), a START or FINISH whose answer was
lost was executed, so that the CANCEL after it finds nothing of others (`Cancels`),
and one that was refused is what `Undisturbed` excepts.

`DiagnosticsProofs`, for every catalog, any number of readers, keys, migrations and
invalidations: `CacheIsFresh`. The inductive invariant is `CacheInv`, which says of
each Read in flight that, if it began under the current generation, it has seen
no catalog older than the last Invalidate (`Fresh`): a read that did not may finish, but
not store. `PoolKeepsReader` shows that the composition with the pool and the
other reader implements `MetaSpec`, and `NoStaleAnswerInPool` follows.

In the same module, `GraphsTellTheTruth`: the walk of the catalog is right, for every
catalog, cyclic ones and ones larger than the limits included. Its invariant says of
each walk under one schema that its nodes are reachable and its edges are theirs
(`Sound`), and that, unless it is marked truncated, every node that does not wait in
the queue has all it depends on (`Complete`); with an empty queue the nodes are then
closed, and so all that is reachable (`EmptyQueueIsExact`, by `ReachableIsClosure`).
`VisitKeepsGraph` carries it through the loop over the rows of a query. `SnapshotsAreOneMoment` needs of each snapshot in flight that its rows so far
are those of the moment it was fixed at (`SnapOK`). `PoolIsBounded` adds that
connections are only held by reads at the places where the code holds one
(`PoolInv`).

Assumptions: the limits of the code (`MaxPending`, `MaxScopes`, `MaxDepth`,
`MaxNodes`, `MaxEntries`, `MaxRows`, `Buffer`, the pool) are positive, as
`NewSpans`, `Start` and the constructors check or the code fixes; the capacity of
the channel and the bounds of the models are natural numbers; there are finitely
many goroutines, and the bound of the tokens is at least twice that of the
operations; `NoSpan` is not a span and `NoToken` not a token; an operation is not a
connection; the catalog has finitely many objects, each schema says what each of
them depends on, the roots are objects, and no body of a package is itself packaged;
the server has a first moment, with numbers of rows in each; there is a connection.

**Induction.** The induction theorems of the library take an operator as a
parameter, which the provers here cannot instantiate. The proofs about the walk go
through recursive functions on `0..n` all the same: `UpTo`, induction over an interval
for a *set* of numbers, follows from the theorem that finite sets are well-founded
under inclusion, which has no such parameter. That is why `Visited`, `Within` and, for the
records of a batch, `Read` are recursive functions with a bounded domain.

Only model-checked: all liveness, which is out of the prover's reach; of
`Correlation`, the purity of trees and the truth of their roots (`TreePurity`,
`RootAttribution`), on which the refinement of `ServerSpans` rests, and the completeness
of those that are not labelled (`CompleteOrLabelled`); and the algorithms of `MCAlgorithms`, whose operators are RECURSIVE.
A theorem about purity would have to assume that where calls may be skipped, each
connection has one goroutine and no profiler, as the runs do. Its invariant has to
follow every record from the call that causes it through stream, parser and channel
into a tree, together with the stacks of the server, and is not proved here.

## What is not modelled

* Span attributes, clock alignment, plans, wording and redaction beyond what
  `SqlText` says: no property of the models depends on them.
* How a single line of a Trace session is recognised: regular expressions, names of
  triggers and explained plans, and how Feed cuts chunks into lines. A line is
  given with what it is.
* `analyze` and `LeadingOperation` of `internal/sqltext`, which name an operation
  and its object: heuristics without a reference to check them against.
* The wire protocol of the services, which is the driver's.
* Registration and configuration: validation and wiring of values that do not
  change; the one state, the names of registered drivers, is database/sql's.
* The capability wrappers: 9,900 of the 15,000 lines of the implementation are
  generated combinations of optional interfaces, each of which forwards a call.
  They keep no state and take no decision, so there is nothing to model in them.
  The models map a little more than half of the lines written by hand.

Some combinations are out of reach of TLC. `TreePurity` is checked with two
goroutines or (through `ServerSpans`) with skipped calls, not with both. With both,
`stmtState.serverScope` uses the kept token without looking at `serverRows` again,
so that another goroutine of the transaction may have opened rows in between.

A few weaknesses are known and have no property. A Shutdown before Start closes
`done`; if Start is called all the same, it opens a session before it looks at
`stopping`, and a further Shutdown returns nil meanwhile. No document says what
it should do, and `CleanShutdownReleases` holds only if no Shutdown came before
Start. The error of `WaitChunksContext` reaches `finish`, which ignores it. A
pending marker whose scope was discarded still counts against `MaxPending` until
the next tick, which needs more attachments than the runs have. And when the
record of a marker is lost, nothing names its scope again: it stays until a
`Register` finds it expired; `FollowedScopeSettles` speaks of the others.

The text of a statement in a Trace record has no end mark, and three kinds of text
mislead the parser without a mark on the event (`Undecidable` in `RecordLines`):
one that goes on where it may end, with an empty line and `param0 = ...` after
`SELECT FIRST 5`, or with a line like `1 ms` in DDL (`LooksOver`); one whose last
token wants more, such as `RETURNING *` or the `...` of a cut text, when no plan
follows, so that the metadata after it is taken for its rest (`LooksUnfinished`); and
one cut inside a literal, which the odd quote of a later record closes
(`ClosedByOther`).

## Plan

1. Done: the correlation path with `ServerSpans`; the lifecycle; profiled calls
   and their rows; the diagnostic readers; the algorithms with the framing
   of records; the proofs about registry, lifecycle, parser limits, leases and the
   metadata cache.
2. Done: the proofs about nesting, the holders of tokens, graphs, snapshots, the pool,
   the outcome of rows and profiles.
3. Done: the proofs of stream and consumer, the types of the whole path, and that
   trees follow spans.
4. Done: one tree at most for each span, and the refinement of `ServerSpans` as long as
   trees are pure.
5. `CompleteOrLabelled`; `RootAttribution` and `TreePurity` under named assumptions on
   the configuration, from which the refinement follows without a condition.
