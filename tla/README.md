# Verification of the Dayu water agent runtime

TLA+ modules, TLC configurations and TLAPS proofs for the runtime in
`src/src/dayu_agent` (paths below are relative to that directory). The runtime
accepts chat requests, gives each one a durable *run*, executes it in an asyncio
task that calls a model provider or a tool, and publishes its progress as numbered
events that clients read over SSE. What can go wrong is in the races: between
requests for one session or key, between the five operations that may end a run,
between a worker's start-up and the other workers, between a reader and the writer.

## The system

| Component | State | Operations | Talks to |
|---|---|---|---|
| run lifecycle (`runtime/state.py`) | none | transition table, event types | everyone |
| relational store (`database/store.py`, `models.py`) | `agent_sessions`, `agent_messages`, `agent_runs`, `agent_stream_events` | sessions: create, append, clear; runs: reserve, mark running, count an attempt, commit, fail, cancel; workers: interrupt, reconcile, prune; events: append, list | PostgreSQL; one transaction per operation, row locks inside |
| store contract (`runtime/store.py`) | none | the abstract operations | implemented by both stores |
| in-memory store (`memory/store.py`) | dictionaries under one lock | the same | none |
| Supervisor (`agents/supervisor.py`) | `_tasks`, `_accepting`; locals of each task | initialize, shutdown, run, start_stream, cancel, stream_run | store, provider, tools, guardrails, metrics |
| retry budget (`runtime/retry.py`) | none | delay_after, permits_retry | Supervisor |
| metrics (`observability/metrics.py`) | counters, the active gauge | run_started, run_finished, ... | Supervisor |
| API (`api/app.py`), CLI (`cli.py`) | none of their own | lifespan, chat, stream, resume, cancel, sessions | Supervisor, store |
| tool registry, permissions, guardrails (`tools/`, `guardrails/`) | definitions by name | register, unregister, get, execute; evaluate | Supervisor, handlers |
| providers (`providers/`) | call count of the fake one | run, stream | Supervisor, the SDK |
| logging, tracing, telemetry, settings, errors, migrations, MCP | none that decides anything | | |

Hard behaviours: workers share only the database, so every decision is a race between
transactions; a coroutine may be cancelled at every await, also inside its own
exception handler; a store operation may fail after it has committed; a process may
die anywhere and is replaced by one with a new identity; a client may lose its
connection between any two events. `PROJECT.json` lists each hazard with its line and
the property that guards it.

## Modules

| Module | Models |
|---|---|
| `RunLifecycle` | statuses, transition table, event types |
| `RunContract` | what the runtime promises a client, without rows, events or workers |
| `RuntimeStore` | the relational store, one action per transaction, and its invariants |
| `RuntimeStoreRefinement` | the mapping by which `RuntimeStore` implements `RunContract` |
| `PostgresStore` | the transactions of `RuntimeStore` statement by statement, with locks and constraints; implements `RuntimeStore` |
| `MemoryStore` | the in-memory store, one action per critical section |
| `MemoryStoreRefinement` | the mappings by which `MemoryStore` implements `RunContract` and, until a prune, `RuntimeStore` |
| `Supervisor` | worker processes, calls, tasks and cancellations over `RuntimeStore` |
| `StreamDelivery` | SSE readers over `RuntimeStore` |
| `ToolRegistry` | the registry and the policy of `register` and `execute` |
| `Turn` | one task between `mark_run_running` and its end: a tool command over `ToolRegistry`, or the retry loop with its clock and provider |
| `AttemptContract` | what the retry loop promises; `Supervisor` and `Turn` both implement it |
| `RuntimeStoreProofs`, `StoreContractProofs` | the TLAPS proofs about `RuntimeStore`: its invariants, its transcripts and the contract |
| `PostgresProofs`, `MemoryStoreProofs`, `StreamProofs`, `TurnProofs` | the proofs about the module each is named for |
| `SupervisorProofs`, `SupervisorTaskProofs` | the proofs about `Supervisor`: processes, calls and cancellation; tasks, workers and the gauge |
| `MCRuntimeStore`, `MCPostgresStore`, `MCMemoryStore`, `MCSupervisor`, `MCStreamDelivery`, `MCTurn` | bounded instances for TLC |

**RuntimeStore.** Each variable is a table or a column. A run is named by the identifier
its reservation draws, so `Runs` is also the supply of unused identifiers, and `ABSENT`
is the status of a row that does not exist. Every operation locks the rows it decides on
before it decides, so it is one step here; an operation that raises rolls back and is no
step. Message contents, usage and metadata are left out; `request_hash` is a value that
is equal exactly when the canonical requests are. Three clocks stamp the rows: an event's
`created_at` is the database server's `now()` at the start of the transaction
(`models.py:148-150`), before it waits for its row lock; `completed_at` is `utc_now()` of the
process after that wait (`store.py:420`, `451`, `492`, `693`); the cut-off of a prune is
`datetime.now` of the process that starts. `now` is the fastest of them, and each reading is
any element of `Timestamps`, the moments at most `Lag` behind it: `Lag` bounds the clock skew
plus the time a transaction is under way. The code bounds neither (it sets no `lock_timeout`),
so `Lag` is an assumption about the deployment, and what it costs is in the properties: an end stays readable
for the retention less one lag.
`InterruptMatching` takes the set of rows that other transactions hold, which
`FOR UPDATE SKIP LOCKED` skips. `ReplayLeavingSession` is the branch of `reserve_run` that
returns a replay from inside the transaction after inserting a session.

**PostgresStore.** A connection of the pool executes one operation at a time; its record in `tx`
says at which statement it is and what it has loaded. `SELECT ... FOR UPDATE` is enabled when
nobody else holds the row, and the lock is kept until the transaction ends. A statement sees
what is committed when it starts (READ COMMITTED), a write is computed from what was loaded,
and it becomes visible in the step that commits. The insert of a run waits for another
insert of its key, then the unique key and the partial unique index on active sessions apply;
a violation aborts (`IntegrityError`) and `ResolveRace` looks for the winner without locks. `AbortVictim`
is PostgreSQL's deadlock detector. Variables of `RuntimeStore` are the committed rows, so the
refinement mapping is the identity. The clock stands still here, and `prune_stream_events` is
left to `RuntimeStore`: its DELETE touches no row an operation on a run or session locks.

**MemoryStore.** Five dictionaries are functions whose domain grows. No critical section
suspends, so an operation is one step, and the steps contain every assignment in
the code's order of checks: nothing rolls back, so each must raise before its first assignment.
An event is numbered by the length of its list plus one, which after a prune repeats numbers (the
docstring at `memory/store.py:221` says "monotonically ordered"); this is why
`MatchesRelationalStore` speaks of states whose logs are whole.

**Supervisor.** A step of a call, a task, a cancel request or a worker is what the code does
between two awaits. A `pc` that names an operation ("marking", "committing") means that its
transaction is under way: it takes effect in the step that ends the await, and other
processes, or `task.cancel()`, may come first. `committed`, `failed` and `cancelled` are the
points after such an await inside the handlers, where a cancellation may still arrive.
The call that reserves a run and the run share a name. Streaming and plain calls differ only
in the deltas they persist, so each run emits some or none. `StoreFails`,
`ReserveUnacknowledged` and one branch of `CancelDurably` are outages, before the commit or
after it. `Crash` loses a process with its tasks and calls; a row its transaction held may
stay locked until `Rollback`. A restart is another element of `Workers`, because
`worker_instance_id` is a fresh UUID. The event loop may go on after `shutdown()` has
returned, as the process that embeds the agent decides when it ends.
`AbandonCall` and `AbandonCancel` are the cancellation of a client's own coroutine, at any await.
The task a caller waits for is shielded (`supervisor.py:648`) and goes on. `reserve_run` is not:
a caller cancelled in it after the commit leaves a pending run for which no task is ever
created, with no outage at all (`Stranded`). `cancel()` shields nothing either: its `gather` passes
the cancellation on to the task.
Time is abstracted: the model takes `Retry` or `GiveUp` freely within the attempt budget, and
`EscapeTimeout` at any moment a delta is being persisted; `Turn` has the clock that decides.

**Turn.** The message and its answering party (`turn`) are chosen once: a tool command, a script of
the fake provider, or the OpenAI provider. Time is counted in ticks since `started`; a deadline of
`asyncio.timeout` fires when it is reached, so the clock does not pass it, and store operations
outside an attempt take any time. The increment of the attempt count is an await between the loop and the
provider: `IncrementUnacknowledged` is its end by a cancellation or by an outage (`StoreFails`), after
which the count may have been committed and no call follows. `ProviderTimesOut` is the provider's own timeout while the task
awaits the provider, `TimeoutEscapes` the same timeout while the task awaits
`append_stream_event` between two items of the generator. The fake provider's `call_count` is that of
one turn. `DelayAfter` computes in whole ticks, with the jitter factor in hundredths. A
registry edit may come between any two awaits of a tool command; a handler may return anything,
raise or hang, and a guardrail of the application's own may block what `PhaseZeroToolGuardrail`
passes. The adapter's errors are classified from the SDK's types and status codes.

**StreamDelivery.** `stream_run` is a cycle of two reads, `List` and `Check`, each a
transaction, with yields between; all store operations interleave. A dropped connection that
loses a yielded event is one that dropped before the yield, since the next connection knows
only the client's `Last-Event-ID`.

## Runs

Deadlock checking is off in every run: calls, cancel requests and store operations are
bounded, so the system really comes to rest.

| Run | Question | Bounds |
|---|---|---|
| `store_transactions` | do racing transactions keep rows, logs and transcripts consistent, and do they implement the contract? | 2 runs, 2 sessions, 1 key, 1 hash, 2 workers, 3 versions, stopped clock, no deltas; or 1 run, deltas up to sequence 3, 3 ticks, retention 2, lag 1 |
| `postgres` | are the interleaved statements the atomic transactions of `RuntimeStore`? | 2 connections; every operation on 1 run and 1 session, or reservations, starts and commits on 2 runs and 2 sessions |
| `memory_store` | does the in-memory store keep the contract, and is it a stand-in for the relational one? | as `store_transactions`, 2 ticks, retention 1, one clock |
| `idempotency` | are callers with one key told the truth? | 2 calls, 2 payloads, 1 key, 1 worker, 1 cancel, clients give up anywhere, no faults |
| `recovery` | retries, deltas, cancellation, a caller that gives up, crashes, shutdown, outages, all at once | 1 call, 2 workers, 1 cancel, 2 attempts, deltas up to sequence 3, the caller gives up before its task exists; or 2 calls with crashes and outages alone |
| `liveness` | does everything end? | 2 calls, 1 worker, 1 cancel, no faults, no deltas; clients give up anywhere beside one call or two of one key |
| `stream_delivery` | what do readers get, while the log is written and after it was pruned? | 1 run, 1 reader with 1 lost connection, deltas up to sequence 3, 3 ticks, retention 2, lag 1 |
| `turn` | do the budgets bound a turn, does its policy hold, does it end? | 4 attempts, 10 ticks of budget, backoff 1 to 3 with three jitters, provider timeout 4, 2 deltas an attempt, 9 definitions of 2 names |

The alternatives of a row are a `CONSTRAINT` of its MC module: each side is explored fully, and a
state in neither is not. Competition needs two rows and no time; retention and numbering
need one log and time. A constraint beside temporal properties could hide a violation if a fair
step led out of it; out of those of `liveness` and `stream_delivery` only lead submissions,
abandonments, requests to cancel and other clients' messages, to which no fairness is attached, so every behaviour
that stays inside is checked to its end. A retention of two ticks leaves, with a lag of one, a window in which a prune takes some events and the end
must stay, and a third tick closes it. That a caller who gives up after its task was created changes
nothing but its own answer is left to `idempotency`, `liveness` and the proofs.

Two runs are enough for the pairwise properties (one active run per session, one run per key,
one turn at a time); two workers for a live and a dead or starting one; a budget of two
attempts has one retry and its refusal; sequence 3 leaves room for a start, a delta, another
delta and an end, hence for a retry after a delta and a drop in mid-log. `MaxVersion` bounds
transcript changes; `EditSession` keeps enough of it for every run to commit, so the bound
blocks no commit. In `turn`, a budget of ten ticks is spent by attempts, by sleeps or by
increments alone, four attempts reach the cap of the backoff, and `MaxClock` is two ticks past the
budget, so that an attempt may find it spent. `MaxDeltas` is the largest sequence a delta may get. Identifiers are only
compared, so their sets are permuted as symmetry in the runs without liveness properties.

What the passing runs show:

* *Store.* `OneActiveRunPerSession`, `KeyNamesOneRun`, `LogAgreesWithStatus`,
  `OnlyCompletedTurns`, `TerminalRunsAreFrozen`, `ActiveRunOwnsTranscript`: whatever races, a run
  ends once, its log and its row agree, and only whole turns of completed runs are in a
  transcript. `ImplementsContract`: every transaction is a step of `RunContract` or invisible.
  `EndStaysReadable`: for the retention less one lag after `completed_at`, the end is in the
  log, although its `created_at` may be older and another clock prunes. It is not there for the whole
  retention: with clocks apart or a long lock wait a prune may take it earlier. `LogIsAppendOnly`: no
  row appears behind a cursor among the rows that are left.
* *Statements.* `ImplementsStore`: locks, re-reads and constraints together make each operation
  atomic. `RepeatIsReplayed`: a repeat that waited for the first request's lock is not refused as
  busy, thanks to the second key look-up. `RacesAreResolved`: a lost race never surfaces as a
  database error. `DeadlockNeedsARepeat`: `reserve_run` locks session then run,
  `commit_run_success` run then session, and the one deadlock this allows needs a repeat of the
  very request that is being committed.
* *In memory.* `DictionariesAgree`: no operation leaves half of itself behind.
  `ActiveLogIsNumbered`: the numbering is gap-free while it matters. `ImplementsContract` always,
  `MatchesRelationalStore` until a prune: a test against this store sees only behaviour
  production has.
* *Supervisor.* `OneExecutionPerKey`, `SuccessIsDurable`: retries of a client never cost a second
  execution or hear of a success that is not stored. `TurnFollowsItsHistory`: an answer joins
  the history its provider saw. `KeepsAttemptContract`: on every path out of the loop attempts
  are counted first, are within the budget, and none follows a delta. `GaugeCoversTasks`: the
  gauge never hides a live task (after a cancellation before the first step, or in a handler,
  `run_finished` is not called and it stays too high). `ActiveRunHasAnOwner`: an active run of a
  serving worker has a task, or a call about to create it, but for two accidents, which do leave
  its session busy until it is cancelled, its worker shuts down or another one starts: its caller
  was cancelled or cut off inside `reserve_run` (`Stranded`), or the store was away when its task
  recorded the end (`Unrecorded`). No other cancellation, wherever it lands, does. `CancelStopsProvider`,
  `DeadRunsAreNotResumed`.
* *Turns.* `CallsStayInBudget`: no call, delta or sleep outlives `max_elapsed_seconds`, and the
  jittered backoff keeps its cap. `CountedAttemptsAreCalled`: the durable count is the number of
  calls, but for the last attempt of a turn that found the time spent, or whose increment was
  cancelled or lost its acknowledgement. `HandlersAreSafe`, `OutputFitsHandler`: the
  second look-up and a registry edited meanwhile let no unsafe handler run and no answer
  pass another tool's schema. `KeepsAttemptContract` again, with the clock.
* *Liveness.* `EveryRunEnds`, `EveryCallerIsAnswered`, `EveryCancelReturns`, `EveryTurnEnds`. A
  stranded run never ends by itself, and whoever repeats its key polls it for ever: these are the
  exceptions the first two state. The third leaves out cancellations whose client gave up.
* *Streams.* `NoGapBehindCursor`: until the end of its run may have expired, a reader has every event its
  cursor has passed, over drops, prunes and late deltas. After that TLC finds a gap: a run that another
  process ended may still persist the delta its task has under way, and if that outlasts the
  retention and a prune, the delta gets number 1 again (`database/store.py:659`).
  `ReceivedEndIsTrue` always. `ResumingClientLearnsTheEnd`: a client that keeps resuming learns the end, unless
  the retention is over first. Readers only read, so one of them stands for all.

Where the code and its documents disagree (runs expected to find a violation; the findings in
`PROJECT.json` quote the lines):

| Run | Counterexample |
|---|---|
| `stream_end` | a run ends between `stream_run`'s empty list and its status check: the stream closes without the terminal event |
| `startup` | a worker that starts interrupts the active runs of another that is serving (and skips the rows a dead worker's transaction still locks) |
| `shutdown_race` | a call admitted before `shutdown()` reserves its run after the interruption |
| `provider_timeout` | the OpenAI provider's timeout fires while a delta is being persisted: the `CancelledError` surfaces outside the generator and the run ends cancelled, not failed. It needs a provider timeout below what is left of the budget; with the defaults (60 s and 30 s) the budget comes first |

### Fairness

`liveness` assumes weak fairness of each task, call and cancel request and of a shutdown:
asyncio resumes every ready coroutine, `asyncio.timeout` ends every provider call, and
transactions end. A worker is not assumed to start, nor a client to call, to come back from an
await or to give up: abandonment is possible at every await and never fair. There are no
crashes, shutdowns or outages in this run: with them a run may stay active until another
worker starts, which the safety runs describe. `stream_delivery` assumes that a connected
generator is resumed and that a client comes back for an end it has not seen, and nothing
about the run. `turn` assumes that time passes, asyncio fires the timeouts that are due, and store
operations and guardrails return; a provider or a handler may hang for ever, and nobody need
cancel.

## Proofs

Eight modules hold 36 theorems. Nothing bounds the sets of runs, sessions, keys, hashes, workers,
connections, readers, requests or tools, nor the numbers; the assumptions are the ones the models
declare: nulls are not values (`NullsAreNotValues`, `NullsAreOutside`, `NoTxnIsNotATxn`,
`NoToolIsOutside`; `NoRunIsNoStatus` says the same of the answers of calls), bounds are naturals, `Lag` among them,
a canonical request is a hash (`HashesCoverRequests`, `HashesAreRequests`), a lock names the row of
one table (`RowsOfTwoTables`: run and session identifiers are different values), and settings are in
the ranges the code validates (`RetryLimitIsPositive`, `BudgetIsValid`, `LimitsAreTimes`,
`DefinitionsAreTools`). `PowersOfTwo` says that 2 ^ n is a natural number: the provers know no
arithmetic of `^`. Every safety property of the passing runs is a theorem
but one; `TypesHold` alone has a hypothesis, named below with the reason.

**Relational store** (`RuntimeStoreProofs`, `StoreContractProofs`).

| Theorem | Property | Argument |
|---|---|---|
| `StoreIsWellTyped` | `StoreTypeOK` | inductive as it stands; `NextSequenceIsFresh` shows that a row is numbered past all others, from a lemma on maxima of bounded sets |
| `OneActiveRun` | `OneActiveRunPerSession` | `RowStep`: a step reserves a run or moves rows along the transition table, which never leads back to active |
| `KeyUniqueness` | `KeyNamesOneRun` | `RowStep` again; only a reservation writes a key |
| `TerminalRunsFrozen` | `TerminalRunsAreFrozen` | no entry of the table leaves a terminal status, and every writer of a frozen column is guarded by it |
| `TranscriptOwned` | `ActiveRunOwnsTranscript` | `OneActiveRun`, and that a reserved run belongs to a session |
| `LogMatchesStatus` | `LogAgreesWithStatus` | `LogStep`: a step announces no new end in a log, or ends the run with one |
| `LogAppendOnly` | `LogIsAppendOnly` | `NextSequenceIsFresh` |
| `EndsAreReadable` | `EndStaysReadable` | `StampedEnds`: the announcing event was created at most one lag before the run's `completed_at` (`TimestampsAreClose`), and no cut-off is ahead of `now`, so a prune never takes it while the row is more than a lag inside the retention |
| `TurnsAreCompleted` | `OnlyCompletedTurns` | inductive as it stands; a commit appends to the transcript of a run that had no turn in it |
| `StoreImplementsContract` | `ImplementsContract` | step by step: reserve, commit, end and clear are the contract's actions, all else leaves its view alone |

The type invariant alone gives nothing about pairs of runs; `RunsHaveSessions` is what lets a step on
one session leave the transcript of another alone.

**Statements** (`PostgresProofs`). The inductive invariant `PgInv` is two-phase locking spelled out. For
each transaction, `TxInv` says what it may rely on at its statement: which rows it holds, and that
what it loaded from them is still what is committed. `Frame(t)` is what a step of *t* does to
others: it keeps their locks and the rows under them. Each statement has a lemma (`LockRunIsGood`,
`QueryActiveIsGood`, ...) that it establishes the next `TxInv` within its `Frame`, and one lemma,
`FrameKeeps`, carries every other transaction over. `RowsAreResolved`, `LogsLeaveRoom` and
`InsertsDiffer` are what the rows and the pending inserts must have in common.

| Theorem | Property | Argument |
|---|---|---|
| `LocksProtect` | `PgInv` | as above |
| `StatementsAreAtomic` | `ImplementsStore` | the step that commits is the atomic operation (`RunWrites`, `SessionWrites`), every other one a stutter |
| `RacesResolved` | `RacesAreResolved` | no flush meets its own sequence (`SequencesAreFree`); the session's lock keeps its active runs away, so a lost insert race is lost to the key, whose holder is found |
| `RepeatsAreReplayed` | `RepeatIsReplayed` | no repeat can be committed between the second look-up and the refusal, as both are under the session's lock |
| `DeadlocksAreRepeats` | `DeadlockNeedsARepeat` | `WaitersHold`: who waits with a lock in hand is a reservation with its session at the second look-up, or a commit with its run at the session |

**In memory** (`MemoryStoreProofs`).

| Theorem | Property | Argument |
|---|---|---|
| `DictionariesAlwaysAgree` | `DictionariesAgree` | inductive with `Contents`, the types of the rows |
| `ActiveLogsAreNumbered` | `ActiveLogIsNumbered` | `ActiveLogsAreWhole`: only the logs of ended runs are pruned, so the length of an active one is its last number |
| `MemoryImplementsContract` | `ImplementsContract` | step by step, also after a prune |

**Supervisor** (`SupervisorProofs`, `SupervisorTaskProofs`). `Shape` relates processes to rows: a row
is its call's, a task is of a reserved row on the worker that owns it. Every other invariant is
inductive relative to it. `SupervisorUsesStore` makes the theorems about the store theorems about the processes.

| Theorem | Property | Argument |
|---|---|---|
| `ProcessesAreWellFormed` | `Shape` | inductive as it stands |
| `SupervisorUsesStore` | | every step is a transaction of `RuntimeStore` or leaves it alone |
| `KeyExecutesOnce` | `OneExecutionPerKey` | two tasks of a key would be two rows of it: `KeyUniqueness` |
| `SuccessIsTrue` | `SuccessIsDurable` | `TasksTellTheTruth`, a task's result is its row; `TargetsMatch`, a call is joined to a run of its own request |
| `CancelIsEffective` | `CancelStopsProvider` | `CancelHolds`: when `cancel` returns, the run is durably over and its task is not there yet, about to be marked running, in a handler or done (`Spared`), whence no attempt of a run that is over begins |
| `DeadRunsStayDead` | `DeadRunsAreNotResumed` | `CrashedAreOver` |
| `ActiveRunsAreOwned` | `ActiveRunHasAnOwner` | `TasksEndTheirRuns`: a task that is signalled or over on a serving worker ended its run or is `Unrecorded` (`Accounted`), and a row without a task still has its call or was left by it inside `reserve_run` (`Reserved`); a signal only comes from a cancellation that is durable or from a worker that no longer serves (`SignalMoves`) |
| `GaugeIsSafe` | `GaugeCoversTasks` | `GaugeCounts`: the gauge is between the tasks that are alive and those that have begun |
| `TypesHold` | `TypeOK` | `Shape` and `GaugeCounts` |
| `TasksKeepContract` | `KeepsAttemptContract` | `AttemptsLeft`: a task that waits for an attempt has one left and has sent no delta |
| `TurnsFollowHistory` | `TurnFollowsItsHistory` | `HistoryHolds`: what an attempt has seen is the transcript, as long as its run is active |

`ActiveRunsAreOwned` has no hypothesis: outages, crashes and abandoned clients are all in the
specification, and the two states they may leave are named in the property.
`TypesHold` assumes that `Runs` is finite, without which the bound of the gauge, a cardinality, means nothing.

**Streams** (`StreamProofs`).

| Theorem | Property | Argument |
|---|---|---|
| `ReceivedEndsAreTrue` | `ReceivedEndIsTrue` | `ReadEndsAreTrue`: an end in a batch or received is its run's, by `LogMatchesStatus`, and frozen |
| `CursorsLeaveNoGap` | `NoGapBehindCursor` | `ReadersKeepUp`: while the window is open, what is left of the log up to `Last-Event-ID` has been received (`Behind`), the log still reaches that number (`Reaches`), and a batch being yielded is next (`Ahead`). `EndIsYoung`: the end and what follows it were created at most one lag before `completed_at`, so until the window closes a prune leaves a row numbered past every cursor and new ones are numbered past it |

The window, `WithinRetention`, is needed: outside it the numbers of a log may start again.

**Turns** (`TurnProofs`).

| Theorem | Property | Argument |
|---|---|---|
| `SafeHandlers` | `HandlersAreSafe` | `ToolInv`: whatever the registry holds was registrable, however often it is edited, and what `execute` holds was authorized in the same step |
| `FittingOutput` | `OutputFitsHandler` | `ToolInv`: the task keeps the definition whose handler it called, so no edit reaches it |
| `CallsInBudget` | `CallsStayInBudget` | `TimeInv`: an attempt's deadline is the budget's own end, and a sleep is begun only if it fits; `DelayIsBounded` shows that doubling, jitter and cap stay between 0 and `max_delay` |
| `CountedAndCalled` | `CountedAttemptsAreCalled` | `AttemptInv`: the two counters agree while the turn goes on, and each step that counts without calling ends it in one of the three ways the property names |
| `LoopKeepsContract` | `KeepsAttemptContract` | `StepKeepsContract`: each step is a step of `AttemptContract` or leaves its view alone; `TimeInv` and `AttemptInv` are inductive together |

Only model-checked:

* `MatchesRelationalStore`. Its prune step filters a sequence with `SelectSeq`, which the library
  defines by recursion over an operator parameter; what such a definition returns cannot be
  proved with these provers.
* Liveness (`EveryRunEnds`, `EveryCallerIsAnswered`, `EveryCancelReturns`, `EveryTurnEnds`,
  `ResumingClientLearnsTheEnd`), which is out of the prover's reach, as is `ENABLED`.
* The four counterexamples, which are facts about single executions.

## Not modelled

The CLI (one `initialize`, one call and one `shutdown` of `Supervisor` in sequence), the built-in
tools (stateless), logging and tracing, settings (validated once; their ranges justify the
assumptions on the constants), the records and error types beyond their `retryable` flag and
codes, migrations (run by an operator before a worker starts), the HTTP middleware and schemas,
and the empty MCP package. The text of messages, which the input and output guardrails
check, and canonical requests, of which only equality matters, are abstracted. `PROJECT.json`
gives the reason for each component.

## Plan

1. A clock in `Supervisor`, so that a delta that outlives the retention and restarts a log's
   numbers appears with the task that persists it.
2. `prune_stream_events` and a clock in `PostgresStore`; `PgInv` would then say that the rows of
   ended runs may shrink under nobody's lock.
3. `MatchesRelationalStore` for the steps that do not prune, which needs nothing about `SelectSeq`.
