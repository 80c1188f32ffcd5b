----------------------------- MODULE Supervisor ------------------------------
(***************************************************************************)
(* The SupervisorAgents of several worker processes over one durable store *)
(* (agents/supervisor.py composed with RuntimeStore).  A step of a client  *)
(* call, of a run's task, of a cancel request or of a worker's start-up or *)
(* shutdown is what the code does between two awaits; a store operation    *)
(* takes effect in the step that ends its await.  Every pc that names an   *)
(* operation means "the transaction is under way", so other processes move *)
(* in between, and task.cancel() may arrive there.                         *)
(*                                                                         *)
(* The call that reserves a run and the run have one name: a reservation   *)
(* draws one identifier.  Streaming calls differ only in the deltas they   *)
(* persist, so every run may emit some or none.  Tool commands reach the   *)
(* success commit or a failure without attempts.                           *)
(***************************************************************************)
EXTENDS RuntimeStore

CONSTANTS
    Payloads,     \* canonical message, user and metadata of a request
    Cancels,      \* the cancel requests clients make
    RetryLimit,   \* RetryBudget.max_attempts
    Outages,      \* BOOLEAN: store operations may raise DatabaseUnavailable
    Crashes,      \* BOOLEAN: a worker process may die without shutting down
    Shutdowns     \* BOOLEAN: a worker process may shut down

\* json.dumps then SHA-256: equal exactly on equal canonical requests.
RequestHash(payload, param) == <<payload, param>>

ASSUME HashesCoverRequests ==
    Payloads \X (Sessions \cup {NoSession}) \subseteq Hashes
ASSUME NoRunIsNoStatus == NoRun \notin RunStatus
ASSUME RetryLimitIsPositive == RetryLimit \in Nat \ {0}
ASSUME FaultsAreSwitches == {Outages, Crashes, Shutdowns} \subseteq BOOLEAN

VARIABLES
    mode,      \* where a worker is in initialize() and shutdown()
    draining,  \* the tasks shutdown() cancelled and gathers
    gauge,     \* RuntimeMetrics._active_runs
    lingering, \* runs whose row a dead worker's transaction still locks
    call,      \* the client's run() or start_stream() call
    pc,        \* where a run's task is; "none" before create_task
    seen,      \* the history list_messages returned to the task
    emitted,   \* emitted_delta
    signal,    \* task.cancel() called and not yet delivered
    result,    \* how the task ended
    cancel     \* the client's cancel() calls

workerVars == <<mode, draining, gauge, lingering>>
taskVars   == <<pc, seen, emitted, signal, result>>
vars == <<storeVars, workerVars, taskVars, call, cancel>>

\* Where a task awaits inside the try block of _execute_owned, where it awaits
\* inside one of its handlers, and where it awaits a transaction on its run.
TryBlock     == {"marking", "loading", "tool", "attempting", "calling", "persisting",
                 "sleeping", "committing", "committed"}
Handler      == {"failing", "failed", "cancelling", "cancelled"}
Transactions == {"marking", "attempting", "persisting", "committing", "failing",
                 "cancelling"}

\* self._tasks holds the run; its done callback has not run.
Live(r)          == pc[r] \in {"created"} \cup TryBlock \cup Handler
WorkerOf(r)      == call[r].worker
LocalTasks(w)    == {r \in Runs : Live(r) /\ WorkerOf(r) = w}
Running(w)       == mode[w] \notin {"off", "crashed"}

IdleCall   == [pc |-> "idle", worker |-> NoRun, param |-> NoSession,
               payload |-> NoRun, key |-> NoKey, target |-> NoRun, answer |-> NoRun]
IdleCancel == [pc |-> "idle", worker |-> NoRun, run |-> NoRun]

Init ==
    /\ StoreInit
    /\ mode = [w \in Workers |-> "off"]
    /\ draining = [w \in Workers |-> {}]
    /\ gauge = [w \in Workers |-> 0]
    /\ lingering = {}
    /\ call = [q \in Runs |-> IdleCall]
    /\ pc = [r \in Runs |-> "none"]
    /\ seen = [r \in Runs |-> <<>>]
    /\ emitted = [r \in Runs |-> FALSE]
    /\ signal = [r \in Runs |-> FALSE]
    /\ result = [r \in Runs |-> "none"]
    /\ cancel = [c \in Cancels |-> IdleCancel]

-----------------------------------------------------------------------------
(* Client calls: _start and _wait_for_result. *)

CallAt(q, at) == call[q].pc = at /\ Running(call[q].worker)

\* The accepting check and the input guardrails, up to the reservation.
Submit(q, w, param, payload, key) ==
    /\ call[q].pc = "idle"
    /\ mode[w] = "serving"
    /\ call' = [call EXCEPT ![q] = [IdleCall EXCEPT
                    !.pc = "reserving", !.worker = w, !.param = param,
                    !.payload = payload, !.key = key]]
    /\ UNCHANGED <<storeVars, workerVars, taskVars, cancel>>

Answer(q, a) ==
    call' = [call EXCEPT ![q].pc = "answered", ![q].answer = a]

Reserve(q) ==
    LET c == call[q]
        h == RequestHash(c.payload, c.param)
    IN  /\ CallAt(q, "reserving")
        /\ \/ /\ \E s \in Sessions : ReserveRun(q, c.param, s, c.key, h, c.worker)
              /\ call' = [call EXCEPT ![q].pc = "reserved", ![q].target = q]
           \/ \E r \in Runs :
                /\ Replays(c.key, h, r)
                /\ \/ UNCHANGED storeVars
                   \/ /\ c.param = NoSession
                      /\ \E s \in Sessions : ReplayLeavingSession(s, c.key, h)
                /\ call' = [call EXCEPT ![q].pc = "replayed", ![q].target = r]
           \/ Conflicts(c.key, h) /\ Answer(q, "conflict") /\ UNCHANGED storeVars
           \/ NotFound(c.param, c.key) /\ Answer(q, "not_found") /\ UNCHANGED storeVars
           \/ Busy(c.param, c.key) /\ Answer(q, "busy") /\ UNCHANGED storeVars
           \/ Outages /\ Answer(q, "unavailable") /\ UNCHANGED storeVars
        /\ UNCHANGED <<workerVars, taskVars, cancel>>

\* The commit is durable but its acknowledgement is lost.
ReserveUnacknowledged(q) ==
    LET c == call[q]
    IN  /\ Outages
        /\ CallAt(q, "reserving")
        /\ \E s \in Sessions :
              ReserveRun(q, c.param, s, c.key, RequestHash(c.payload, c.param), c.worker)
        /\ Answer(q, "unavailable")
        /\ UNCHANGED <<workerVars, taskVars, cancel>>

\* reserve_run returns: count the run, create its task, then wait for it or
\* (start_stream) return its identity.
StartTask(q) ==
    /\ CallAt(q, "reserved")
    /\ gauge' = [gauge EXCEPT ![call[q].worker] = @ + 1]
    /\ pc' = [pc EXCEPT ![q] = "created"]
    /\ \/ call' = [call EXCEPT ![q].pc = "awaiting"]
       \/ Answer(q, "accepted")
    /\ UNCHANGED <<storeVars, mode, draining, lingering, seen, emitted, signal, result,
                   cancel>>

\* A replay awaits the task if this process has it and polls otherwise.
JoinRun(q) ==
    LET r == call[q].target
    IN  /\ CallAt(q, "replayed")
        /\ \/ call' = [call EXCEPT ![q].pc =
                 IF r \in LocalTasks(call[q].worker) THEN "awaiting" ELSE "polling"]
           \/ Answer(q, "accepted")
        /\ UNCHANGED <<storeVars, workerVars, taskVars, cancel>>

TaskAnswers(q) ==
    /\ CallAt(q, "awaiting")
    /\ pc[call[q].target] = "done"
    /\ Answer(q, result[call[q].target])
    /\ UNCHANGED <<storeVars, workerVars, taskVars, cancel>>

\* Mutant of PollAnswers: only success ends the poll.
PollAwaitsSuccess(q) ==
    /\ CallAt(q, "polling")
    /\ status[call[q].target] = COMPLETED
    /\ Answer(q, COMPLETED)
    /\ UNCHANGED <<storeVars, workerVars, taskVars, cancel>>

PollAnswers(q) ==
    /\ CallAt(q, "polling")
    /\ \/ Terminal(call[q].target) /\ Answer(q, status[call[q].target])
       \/ Outages /\ Answer(q, "unavailable")
    /\ UNCHANGED <<storeVars, workerVars, taskVars, cancel>>

\* The caller's coroutine is cancelled at an await.  A task it waits for is
\* shielded; a reservation whose commit it has not returned from ("reserved")
\* keeps its row, and no task is ever created for it.
AbandonCall(q) ==
    /\ call[q].pc \notin {"idle", "answered"}
    /\ Running(call[q].worker)
    /\ Answer(q, "abandoned")
    /\ UNCHANGED <<storeVars, workerVars, taskVars, cancel>>

-----------------------------------------------------------------------------
(* The task of a run: _execute_owned and _run_provider_with_retry. *)

\* A task that has been cancelled does nothing but receive CancelledError.
TaskAt(r, at) == pc[r] = at /\ ~ signal[r]

Goto(r, at) == pc' = [pc EXCEPT ![r] = at]
OnlyPc      == UNCHANGED <<workerVars, seen, emitted, signal, result, call, cancel>>
Keep(r, at) == Goto(r, at) /\ OnlyPc

Begin(r) ==
    /\ TaskAt(r, "created")
    /\ Keep(r, "marking")
    /\ UNCHANGED storeVars

\* A refused transition raises InvalidRunTransitionError: the failure handler.
Mark(r) ==
    /\ TaskAt(r, "marking")
    /\ \/ MarkRunRunning(r, WorkerOf(r)) /\ (Keep(r, "loading") \/ Keep(r, "tool"))
       \/ /\ ~ ValidRunTransition(status[r], RUNNING)
          /\ Keep(r, "failing") /\ UNCHANGED storeVars

\* The tool is allowed, runs and returns, or one of these raises.
RunTool(r) ==
    /\ TaskAt(r, "tool")
    /\ Keep(r, "committing") \/ Keep(r, "failing")
    /\ UNCHANGED storeVars

LoadHistory(r) ==
    /\ TaskAt(r, "loading")
    /\ seen' = [seen EXCEPT ![r] = transcript[request[r].session]]
    /\ Goto(r, "attempting")
    /\ UNCHANGED <<storeVars, workerVars, emitted, signal, result, call, cancel>>

BeginAttempt(r) ==
    /\ TaskAt(r, "attempting")
    /\ \/ /\ IncrementRunAttempt(r)
          /\ emitted' = [emitted EXCEPT ![r] = FALSE]
          /\ Goto(r, "calling")
          /\ UNCHANGED <<workerVars, seen, signal, result, call, cancel>>
       \/ Terminal(r) /\ Keep(r, "failing") /\ UNCHANGED storeVars

\* The provider yields a delta; emitted_delta is set before it is persisted.
\* The bound leaves the delta a place behind a terminal event.
ReceiveDelta(r) ==
    /\ TaskAt(r, "calling")
    /\ NextSequence(r) < MaxDeltas
    /\ emitted' = [emitted EXCEPT ![r] = TRUE]
    /\ Goto(r, "persisting")
    /\ UNCHANGED <<storeVars, workerVars, seen, signal, result, call, cancel>>

PersistDelta(r) ==
    /\ TaskAt(r, "persisting")
    /\ AppendStreamEvent(r, RESPONSE_DELTA)
    /\ Keep(r, "calling")

\* A final response passes the output guardrails.
ReceiveResponse(r) ==
    /\ TaskAt(r, "calling")
    /\ Keep(r, "committing")
    /\ UNCHANGED storeVars

PermitsRetry(r) == attempts[r] < RetryLimit

\* The provider's own timeout fires while the task awaits the store: the
\* CancelledError surfaces outside the provider's generator, where nothing turns
\* it into a TimeoutError.  The transaction may have committed.
EscapeTimeout(r) ==
    /\ TaskAt(r, "persisting")
    /\ UNCHANGED storeVars \/ AppendStreamEvent(r, RESPONSE_DELTA)
    /\ Keep(r, "cancelling")

\* Mutant of Retry: a persisted delta does not rule it out.
RetryAfterDelta(r) ==
    /\ TaskAt(r, "calling")
    /\ PermitsRetry(r)
    /\ Keep(r, "sleeping")
    /\ UNCHANGED storeVars

\* A retryable provider error or a timeout, before any delta and within budget.
Retry(r) ==
    /\ TaskAt(r, "calling")
    /\ ~ emitted[r]
    /\ PermitsRetry(r)
    /\ Keep(r, "sleeping")
    /\ UNCHANGED storeVars

\* Any other error: not retryable, after a delta, a spent attempt or time
\* budget, a blocked output, the deadline passing while a delta is persisted.
GiveUp(r) ==
    /\ TaskAt(r, "calling") \/ TaskAt(r, "persisting")
    /\ Keep(r, "failing")
    /\ UNCHANGED storeVars

Wake(r) ==
    /\ TaskAt(r, "sleeping")
    /\ Keep(r, "attempting")
    /\ UNCHANGED storeVars

\* Mutant of Commit: a refused commit is taken for a success.
CommitIgnoringRefusal(r) ==
    /\ TaskAt(r, "committing")
    /\ CommitRunSuccess(r) \/ (Terminal(r) /\ UNCHANGED storeVars)
    /\ Keep(r, "committed")

Commit(r) ==
    /\ TaskAt(r, "committing")
    /\ \/ CommitRunSuccess(r) /\ Keep(r, "committed")
       \/ /\ ~ ValidRunTransition(status[r], COMPLETED)
          /\ Keep(r, "failing") /\ UNCHANGED storeVars

\* Mutant of Fail: the failure is not made durable.
FailSilently(r) ==
    /\ TaskAt(r, "failing")
    /\ Keep(r, "failed")
    /\ UNCHANGED storeVars

Fail(r) ==
    /\ TaskAt(r, "failing")
    /\ FailRun(r) \/ (Terminal(r) /\ UNCHANGED storeVars)
    /\ Keep(r, "failed")

\* Mutant of EnsureCancelled: a run that is terminal already is waited for.
EnsureCancelledStrictly(r) ==
    /\ TaskAt(r, "cancelling")
    /\ CancelRun(r, WorkerOf(r))
    /\ Keep(r, "cancelled")

\* _ensure_cancelled_if_active swallows what cancel_run raises.
EnsureCancelled(r) ==
    /\ TaskAt(r, "cancelling")
    /\ \/ CancelRun(r, WorkerOf(r))
       \/ Terminal(r) /\ UNCHANGED storeVars
       \/ Outages /\ UNCHANGED storeVars
    /\ Keep(r, "cancelled")

Outcome(at) == CASE at = "committed" -> COMPLETED
                 [] at = "failed"    -> FAILED
                 [] at = "cancelled" -> CANCELLED

\* run_finished, then the coroutine returns or raises; the done callback.
FinishTask(r) ==
    /\ \E at \in {"committed", "failed", "cancelled"} :
          TaskAt(r, at) /\ result' = [result EXCEPT ![r] = Outcome(at)]
    /\ gauge' = [gauge EXCEPT ![WorkerOf(r)] = IF @ = 0 THEN 0 ELSE @ - 1]
    /\ Goto(r, "done")
    /\ UNCHANGED <<storeVars, mode, draining, lingering, seen, emitted, signal, call,
                   cancel>>

\* The task ends with an exception no handler of _execute_owned catches.
Escape(r, how) ==
    /\ result' = [result EXCEPT ![r] = how]
    /\ Goto(r, "done")

\* Mutant of DeliverCancel: run_finished is called before the durable cancel.
DeliverCancelCounting(r) ==
    /\ signal[r]
    /\ signal' = [signal EXCEPT ![r] = FALSE]
    /\ pc[r] \in TryBlock
    /\ Goto(r, "cancelling")
    /\ gauge' = [gauge EXCEPT ![WorkerOf(r)] = IF @ = 0 THEN 0 ELSE @ - 1]
    /\ UNCHANGED <<storeVars, mode, draining, lingering, seen, emitted, result, call, cancel>>

\* CancelledError arrives: before the first step there is no handler yet, in
\* the try block it is handled once, inside a handler it ends the task.
DeliverCancel(r) ==
    /\ signal[r]
    /\ signal' = [signal EXCEPT ![r] = FALSE]
    /\ \/ pc[r] \in TryBlock /\ Goto(r, "cancelling") /\ UNCHANGED result
       \/ pc[r] \in {"created"} \cup Handler /\ Escape(r, CANCELLED)
    /\ UNCHANGED <<storeVars, workerVars, seen, emitted, call, cancel>>

\* What the transaction a task awaits does to the run when it commits.
Transaction(r) ==
    \/ pc[r] = "marking" /\ MarkRunRunning(r, WorkerOf(r))
    \/ pc[r] = "attempting" /\ IncrementRunAttempt(r)
    \/ pc[r] = "persisting" /\ AppendStreamEvent(r, RESPONSE_DELTA)
    \/ pc[r] = "committing" /\ CommitRunSuccess(r)
    \/ pc[r] = "failing" /\ FailRun(r)

\* A store operation raises DatabaseUnavailable: handled in the try block,
\* escaping when it is fail_run itself.  The transaction was rolled back, or it
\* committed and only its acknowledgement was lost.
StoreFails(r) ==
    /\ Outages
    /\ UNCHANGED storeVars \/ Transaction(r)
    /\ \/ /\ \E at \in {"marking", "loading", "attempting", "persisting", "committing"} :
                TaskAt(r, at)
          /\ Keep(r, "failing")
       \/ /\ TaskAt(r, "failing")
          /\ Escape(r, FAILED)
          /\ UNCHANGED <<workerVars, seen, emitted, signal, call, cancel>>

-----------------------------------------------------------------------------
(* cancel(): the durable transition, then the signal, then the gather. *)

CancelAt(c, at) == cancel[c].pc = at /\ Running(cancel[c].worker)

RequestCancel(c, w, r) ==
    /\ cancel[c].pc = "idle"
    /\ mode[w] = "serving"
    /\ status[r] # ABSENT
    /\ cancel' = [cancel EXCEPT ![c] = [pc |-> "cancelling", worker |-> w, run |-> r]]
    /\ UNCHANGED <<storeVars, workerVars, taskVars, call>>

\* Mutant of CancelDurably: the task is signalled first, and its own handler is
\* left to make the cancellation durable.
SignalFirst(c) ==
    /\ CancelAt(c, "cancelling")
    /\ cancel' = [cancel EXCEPT ![c].pc = "signalling"]
    /\ UNCHANGED <<storeVars, workerVars, taskVars, call>>

\* CANCELLED also when it already was.  Without a signal end a run that ended
\* otherwise, a foreign owner, and an outage, which may follow the commit.
CancelDurably(c) ==
    LET r == cancel[c].run
        w == cancel[c].worker
    IN  /\ CancelAt(c, "cancelling")
        /\ \/ /\ CancelRun(r, w) \/ (status[r] = CANCELLED /\ UNCHANGED storeVars)
              /\ cancel' = [cancel EXCEPT ![c].pc = "signalling"]
           \/ /\ \/ Terminal(r) /\ status[r] # CANCELLED /\ UNCHANGED storeVars
                 \/ Active(r) /\ owner[r] # w /\ UNCHANGED storeVars
                 \/ Outages /\ (UNCHANGED storeVars \/ CancelRun(r, w))
              /\ cancel' = [cancel EXCEPT ![c].pc = "unsignalled"]
        /\ UNCHANGED <<workerVars, taskVars, call>>

\* Mutant of SignalTask: the task is neither signalled nor awaited.
ReturnWithoutSignal(c) ==
    /\ CancelAt(c, "signalling")
    /\ cancel' = [cancel EXCEPT ![c].pc = "returned"]
    /\ UNCHANGED <<storeVars, workerVars, taskVars, call>>

SignalTask(c) ==
    LET r == cancel[c].run
    IN  /\ CancelAt(c, "signalling")
        /\ IF r \in LocalTasks(cancel[c].worker)
           THEN /\ signal' = [signal EXCEPT ![r] = TRUE]
                /\ cancel' = [cancel EXCEPT ![c].pc = "gathering"]
           ELSE /\ cancel' = [cancel EXCEPT ![c].pc = "returned"]
                /\ UNCHANGED signal
        /\ UNCHANGED <<storeVars, workerVars, pc, seen, emitted, result, call>>

GatherTask(c) ==
    /\ CancelAt(c, "gathering")
    /\ pc[cancel[c].run] = "done"
    /\ cancel' = [cancel EXCEPT ![c].pc = "returned"]
    /\ UNCHANGED <<storeVars, workerVars, taskVars, call>>

\* The client's own coroutine is cancelled, before or after its transition is
\* durable.  Nothing is shielded here: gather() passes the cancellation on, and
\* the task is signalled once more.
AbandonCancel(c) ==
    LET r == cancel[c].run
    IN  /\ \/ /\ CancelAt(c, "cancelling") \/ CancelAt(c, "signalling")
              /\ UNCHANGED signal
           \/ /\ CancelAt(c, "gathering")
              /\ signal' = [signal EXCEPT ![r] = Live(r)]
        /\ cancel' = [cancel EXCEPT ![c].pc = "abandoned"]
        /\ UNCHANGED <<storeVars, workerVars, pc, seen, emitted, result, call>>

-----------------------------------------------------------------------------
(* Worker processes.  A restart is another worker: identities are fresh. *)

\* Rows another transaction may hold when FOR UPDATE SKIP LOCKED reads them.
LockableRows ==
    lingering
        \cup {r \in Runs : pc[r] \in Transactions}
        \cup {cancel[c].run : c \in {d \in Cancels : CancelAt(d, "cancelling")}}
        \cup UNION {KeyHolders(call[q].key) : q \in {p \in Runs : CallAt(p, "reserving")}}

Move(w, from, to) == mode[w] = from /\ mode' = [mode EXCEPT ![w] = to]
OnlyMode          == UNCHANGED <<draining, gauge, lingering, taskVars, call, cancel>>

\* initialize(): connectivity is verified before a row is touched.
Start(w) == Move(w, "off", "starting") /\ OnlyMode /\ UNCHANGED storeVars

Reconcile(w) ==
    /\ Move(w, "starting", "pruning")
    /\ \E locked \in SUBSET LockableRows : ReconcileOrphanedRuns(w, locked)
    /\ OnlyMode

Prune(w) == Move(w, "pruning", "serving") /\ PruneStreamEvents /\ OnlyMode

\* shutdown(): admission stops at once, the durable interruption follows.
BeginShutdown(w) ==
    Shutdowns /\ Move(w, "serving", "closing") /\ OnlyMode /\ UNCHANGED storeVars

InterruptOwned(w) ==
    /\ Move(w, "closing", "interrupted")
    /\ \E locked \in SUBSET LockableRows : InterruptWorkerRuns(w, locked)
    /\ OnlyMode

CancelTasks(w) ==
    /\ Move(w, "interrupted", "draining")
    /\ draining' = [draining EXCEPT ![w] = LocalTasks(w)]
    /\ signal' = [r \in Runs |-> signal[r] \/ r \in LocalTasks(w)]
    /\ UNCHANGED <<storeVars, gauge, lingering, pc, seen, emitted, result, call, cancel>>

EndShutdown(w) ==
    /\ Move(w, "draining", "stopped")
    /\ \A r \in draining[w] : pc[r] = "done"
    /\ OnlyMode
    /\ UNCHANGED storeVars

\* The process dies: its tasks, calls and metrics go with it.  A transaction
\* it had under way is rolled back, but perhaps not at once.
Crash(w) ==
    LET lost == LocalTasks(w)
    IN  /\ Crashes
        /\ Running(w)
        /\ mode' = [mode EXCEPT ![w] = "crashed"]
        /\ gauge' = [gauge EXCEPT ![w] = 0]
        /\ pc' = [r \in Runs |-> IF r \in lost THEN "done" ELSE pc[r]]
        /\ result' = [r \in Runs |-> IF r \in lost THEN "lost" ELSE result[r]]
        /\ signal' = [r \in Runs |-> signal[r] /\ r \notin lost]
        /\ \E rows \in SUBSET {r \in lost : pc[r] \in Transactions} :
              lingering' = lingering \cup rows
        /\ UNCHANGED <<storeVars, draining, seen, emitted, call, cancel>>

Rollback(r) ==
    /\ r \in lingering
    /\ lingering' = lingering \ {r}
    /\ UNCHANGED <<storeVars, mode, draining, gauge, taskVars, call, cancel>>

\* Session operations of other clients; the bound leaves room for every run.
EditSession ==
    /\ \E w \in Workers : mode[w] = "serving"
    /\ SessionStep
    /\ \A s \in Sessions : version'[s] + Cardinality(Runs) <= MaxVersion
    /\ UNCHANGED <<workerVars, taskVars, call, cancel>>

-----------------------------------------------------------------------------

\* Cancellation is delivered without regard to what the task would do next.
TaskStep(r) ==
    \/ Begin(r) \/ Mark(r) \/ RunTool(r) \/ LoadHistory(r) \/ BeginAttempt(r)
    \/ ReceiveDelta(r) \/ PersistDelta(r) \/ ReceiveResponse(r) \/ Retry(r)
    \/ GiveUp(r) \/ EscapeTimeout(r) \/ Wake(r) \/ Commit(r) \/ Fail(r)
    \/ EnsureCancelled(r) \/ FinishTask(r) \/ DeliverCancel(r) \/ StoreFails(r)

CallStep(q) ==
    \/ Reserve(q) \/ ReserveUnacknowledged(q) \/ StartTask(q) \/ JoinRun(q)
    \/ TaskAnswers(q) \/ PollAnswers(q)

CancelStep(c) == CancelDurably(c) \/ SignalTask(c) \/ GatherTask(c)

ShutdownStep(w) == InterruptOwned(w) \/ CancelTasks(w) \/ EndShutdown(w)

WorkerStep(w) ==
    \/ Start(w) \/ Reconcile(w) \/ Prune(w) \/ BeginShutdown(w) \/ ShutdownStep(w)
    \/ Crash(w)

ClientStep ==
    \E w \in Workers :
        \/ \E q \in Runs, param \in Sessions \cup {NoSession}, payload \in Payloads,
              key \in Keys \cup {NoKey} : Submit(q, w, param, payload, key)
        \/ \E c \in Cancels, r \in Runs : RequestCancel(c, w, r)

\* A client may give up at any await and owes nobody that it does.
AbandonStep == (\E q \in Runs : AbandonCall(q)) \/ (\E c \in Cancels : AbandonCancel(c))

Next ==
    \/ ClientStep
    \/ AbandonStep
    \/ EditSession
    \/ \E r \in Runs : TaskStep(r) \/ CallStep(r) \/ Rollback(r)
    \/ \E c \in Cancels : CancelStep(c)
    \/ \E w \in Workers : WorkerStep(w)

\* asyncio resumes every ready coroutine, a provider call ends within the
\* deadline of asyncio.timeout, and a transaction ends.
Fairness ==
    /\ \A r \in Runs : WF_vars(TaskStep(r)) /\ WF_vars(CallStep(r))
    /\ \A c \in Cancels : WF_vars(CancelStep(c))
    /\ \A w \in Workers : WF_vars(ShutdownStep(w))

Spec     == Init /\ [][Next]_vars
FairSpec == Spec /\ Fairness

-----------------------------------------------------------------------------
(* Safety. *)

CallPc    == {"idle", "reserving", "reserved", "replayed", "awaiting", "polling", "answered"}
CancelPc  == {"idle", "cancelling", "signalling", "gathering", "returned", "unsignalled",
              "abandoned"}
Mode      == {"off", "starting", "pruning", "serving", "closing", "interrupted", "draining",
              "stopped", "crashed"}
Refusal   == {"conflict", "not_found", "busy", "unavailable", "accepted", "abandoned"}
Result    == TERMINAL_RUN_STATUSES \cup {"none", "lost"}

TypeOK ==
    /\ StoreTypeOK
    /\ mode \in [Workers -> Mode]
    /\ draining \in [Workers -> SUBSET Runs]
    /\ gauge \in [Workers -> 0 .. Cardinality(Runs)]
    /\ lingering \subseteq Runs
    /\ call \in [Runs -> [pc : CallPc, worker : Workers \cup {NoRun},
                          param : Sessions \cup {NoSession},
                          payload : Payloads \cup {NoRun}, key : Keys \cup {NoKey},
                          target : Runs \cup {NoRun},
                          answer : Refusal \cup Result \cup {NoRun}]]
    /\ pc \in [Runs -> {"none", "created", "done"} \cup TryBlock \cup Handler]
    /\ seen \in [Runs -> Seq(Message)]
    /\ {emitted, signal} \subseteq [Runs -> BOOLEAN]
    /\ result \in [Runs -> Result]
    /\ cancel \in [Cancels -> [pc : CancelPc, worker : Workers \cup {NoRun},
                              run : Runs \cup {NoRun}]]

\* Calls with one idempotency key start at most one task between them, on
\* whichever workers they arrive.
OneExecutionPerKey ==
    \A p, q \in Runs :
        /\ call[p].key = call[q].key /\ call[p].key # NoKey
        /\ pc[p] # "none" /\ pc[q] # "none"
        => p = q

\* A caller is told "completed" only of a run that durably completed and that
\* answers the very request this caller made, own or replayed.
SuccessIsDurable ==
    \A q \in Runs :
        call[q].answer = COMPLETED =>
            /\ status[call[q].target] = COMPLETED
            /\ request[call[q].target].hash = RequestHash(call[q].payload, call[q].param)

\* A reservation that is durable and whose caller never came back from it.
Stranded(r) ==
    /\ status[r] = PENDING
    /\ pc[r] = "none"
    /\ \/ call[r].answer = "abandoned"
       \/ Outages /\ call[r].answer = "unavailable"

\* A task that ended while the store was away: fail_run raised in its handler,
\* or _ensure_cancelled_if_active swallowed what cancel_run raised after the
\* provider's timeout, which no client asked for, had ended a streamed attempt.
Unrecorded(r) ==
    /\ Outages
    /\ pc[r] = "done"
    /\ result[r] = FAILED \/ (result[r] = CANCELLED /\ emitted[r])

\* While its worker serves, an active run has someone to end it, the call about
\* to create its task or the task, with two exceptions: its caller was cancelled
\* or cut off inside reserve_run, or its task's last write met an outage.
\* Neither cancel(), which overtakes both, nor a caller who leaves later, nor a
\* second cancellation inside a handler makes a run that keeps its session busy
\* with nobody to end it.
ActiveRunHasAnOwner ==
    \A r \in Runs :
        Active(r) /\ mode[owner[r]] = "serving" =>
            call[r].pc = "reserved" \/ Live(r) \/ Stranded(r) \/ Unrecorded(r)

\* When cancel() has returned a cancelled run on the owning worker the provider
\* is not being called for it, nor will be, even if the cancellation overtook
\* the creation of the run's task.
CancelStopsProvider ==
    \A c \in Cancels :
        cancel[c].pc = "returned" /\ cancel[c].worker = owner[cancel[c].run] =>
            pc[cancel[c].run] \notin {"calling", "persisting", "sleeping"}

\* The active_runs gauge never hides a task: whichever handler ends a run, and
\* however cancellations overtake it, run_finished is not called for a task that
\* still has work to do, nor twice for one.
GaugeCoversTasks ==
    \A w \in Workers : Running(w) => Cardinality(LocalTasks(w)) <= gauge[w]

\* shutdown() leaves no active run behind ("Process shutdown marks owned
\* active runs interrupted").
ShutdownLeavesNoActiveRun ==
    \A r \in Runs : Active(r) => mode[owner[r]] # "stopped"

-----------------------------------------------------------------------------
(* What a step may never do. *)

\* A provider's answer joins exactly the history the provider was shown: no
\* message, clear or other turn slips in between list_messages and the commit.
TurnFollowsItsHistory ==
    [][\A r \in Runs :
          status'[r] = COMPLETED /\ status[r] # COMPLETED /\ attempts[r] > 0 =>
              transcript'[request[r].session] =
                  seen[r] \o <<[role |-> "user", run |-> r],
                               [role |-> "assistant", run |-> r]>>]_vars

\* Nobody resumes the work of a dead process: its active runs can only be
\* interrupted, and neither attempts nor turns are added for them.
DeadRunsAreNotResumed ==
    [][\A r \in Runs :
          Active(r) /\ mode[owner[r]] = "crashed" =>
              /\ status'[r] \in {status[r], INTERRUPTED}
              /\ attempts'[r] = attempts[r]
              /\ pc'[r] = pc[r]]_vars

\* Start-up interrupts the active runs of processes that have ended and of no
\* other ("Mark active runs from prior process instances as interrupted.").
StartupInterruptsPriorInstances ==
    [][\A w \in Workers, r \in Runs :
          mode[w] = "starting" /\ mode'[w] = "pruning" /\ Active(r) =>
              (status'[r] = INTERRUPTED <=> mode[owner[r]] \in {"crashed", "stopped"})]_vars

\* What the retry contract sees of a run's task.
Phase(r) ==
    IF pc[r] \in {"calling", "persisting"} THEN "calling"
    ELSE IF pc[r] \in {"none", "created", "marking", "loading", "tool", "attempting",
                       "sleeping"}
         THEN "waiting"
         ELSE "over"

Contract(r) ==
    INSTANCE AttemptContract WITH MaxAttempts <- RetryLimit, phase <- Phase(r),
        attempts <- attempts[r], emitted <- emitted[r]

\* Every run's task keeps the contract of the retry loop, which Turn.tla's loop
\* keeps too: attempts are counted first, no more than max_attempts of them, and
\* none after a delta, on every path by which errors, outages, cancellations,
\* shutdowns and crashes leave the loop.
KeepsAttemptContract ==
    /\ \A r \in Runs : Contract(r)!Init
    /\ [][\A r \in Runs : [Contract(r)!Next]_(Contract(r)!vars)]_vars

-----------------------------------------------------------------------------
(* Liveness, without crashes, shutdowns and outages. *)

\* Every reserved run reaches a terminal status, so its session is freed, also
\* when nobody waits for it any more; all but a run whose caller was cancelled
\* inside reserve_run.
EveryRunEnds == \A r \in Runs : status[r] = PENDING ~> Terminal(r) \/ Stranded(r)

\* Every caller with a run to wait for is answered: no replay misses the end
\* of the run it joined, locally or by polling, unless it polls a run that was
\* stranded, which never ends by itself.
EveryCallerIsAnswered ==
    \A q \in Runs :
        call[q].pc \in {"reserved", "replayed"} ~>
            call[q].pc = "answered" \/ (\E r \in Runs : call[q].target = r /\ Stranded(r))

\* Every cancellation that reached the task returns, even while the task
\* handles an earlier cancellation or a failure, unless its client gives up.
EveryCancelReturns ==
    \A c \in Cancels :
        cancel[c].pc = "signalling" ~> cancel[c].pc \in {"returned", "abandoned"}
=============================================================================
