------------------------- MODULE SupervisorTaskProofs -------------------------
(***************************************************************************)
(* What Supervisor promises of the tasks of its runs: who ends an active   *)
(* run, what the gauge counts, which history a turn follows, and the retry *)
(* contract every task keeps.  They rest on the shape of the processes.    *)
(***************************************************************************)
EXTENDS SupervisorProofs

-----------------------------------------------------------------------------
(* How tasks and workers move. *)

\* A task is created by its call, moves by itself, and is lost in a crash.
LEMMA TaskMoves ==
    ASSUME Shape, [Next]_vars, NEW r \in Runs
    PROVE  \/ UNCHANGED <<pc[r], result[r]>>
           \/ TaskStep(r) /\ UNCHANGED <<mode, call>>
           \/ StartTask(r)
           \/ /\ Live(r) /\ pc'[r] = "done" /\ mode'[WorkerOf(r)] = "crashed"
              /\ UNCHANGED call
<1> USE DEF Shape
<1>1. ASSUME NEW x \in Runs, TaskStep(x)
      PROVE  \/ UNCHANGED <<pc[r], result[r]>>
             \/ TaskStep(r) /\ UNCHANGED <<mode, call>>
  BY <1>1, TaskEffect
<1>2. ASSUME NEW q \in Runs, CallMove(q)
      PROVE  UNCHANGED <<pc[r], result[r]>> \/ StartTask(r)
  <2>1. CASE StartTask(q)
    BY <2>1 DEF StartTask, TaskTypes
  <2>2. QED
    BY <1>2, <2>1
    DEF CallMove, CallStep, AbandonCall, Reserve, ReserveUnacknowledged, JoinRun, TaskAnswers,
        PollAnswers, taskVars
<1>3. ASSUME NEW c \in Cancels, CancelMove(c)
      PROVE  UNCHANGED <<pc[r], result[r]>>
  BY <1>3, CancelEffect
<1>4. ASSUME NEW w \in Workers, WorkerStep(w)
      PROVE  \/ UNCHANGED <<pc[r], result[r]>>
             \/ /\ Live(r) /\ pc'[r] = "done" /\ mode'[WorkerOf(r)] = "crashed"
                /\ UNCHANGED call
  BY <1>4, WorkerEffect DEF LocalTasks
<1>5. CASE ClientStep \/ EditSession \/ (\E x \in Runs : Rollback(x)) \/ UNCHANGED vars
  BY <1>5 DEF ClientStep, Submit, RequestCancel, EditSession, Rollback, vars, taskVars
<1>6. QED
  BY <1>1, <1>2, <1>3, <1>4, <1>5 DEF Next, AbandonStep, CallMove, CancelMove

\* A worker serves once, after it has started, and never comes back from a crash.
LEMMA ModeMoves ==
    ASSUME Shape, [Next]_vars, NEW w \in Workers
    PROVE  \/ mode'[w] = mode[w]
           \/ /\ mode[w] = "off" /\ mode'[w] = "starting"
              /\ OnlyMode
           \/ /\ mode[w] = "starting" /\ mode'[w] = "pruning"
              /\ OnlyMode
           \/ /\ mode[w] = "pruning" /\ mode'[w] = "serving"
              /\ OnlyMode
           \/ /\ mode[w] \notin {"off", "crashed", "starting", "pruning"}
              /\ mode'[w] \in {"closing", "interrupted", "draining", "stopped"}
           \/ Crash(w)
<1> USE DEF Shape
<1>1. CASE WorkerStep(w)
  BY <1>1
  DEF WorkerStep, ShutdownStep, Start, Reconcile, Prune, BeginShutdown, InterruptOwned,
      CancelTasks, EndShutdown, Move, WorkerTypes
<1>2. ASSUME NEW v \in Workers \ {w}, WorkerStep(v)
      PROVE  mode'[w] = mode[w]
  BY <1>2, WorkerEffect
<1>3. ASSUME NEW r \in Runs, TaskStep(r) \/ CallMove(r) \/ Rollback(r)
      PROVE  mode'[w] = mode[w]
  BY <1>3, TaskEffect
  DEF CallMove, CallStep, AbandonCall, Reserve, ReserveUnacknowledged, StartTask, JoinRun,
      TaskAnswers, PollAnswers, Rollback, workerVars
<1>4. ASSUME NEW c \in Cancels, CancelMove(c)
      PROVE  mode'[w] = mode[w]
  BY <1>4, CancelEffect DEF workerVars
<1>5. CASE ClientStep \/ EditSession \/ UNCHANGED vars
  BY <1>5 DEF ClientStep, Submit, RequestCancel, EditSession, vars, workerVars
<1>6. QED
  BY <1>1, <1>2, <1>3, <1>4, <1>5 DEF Next, AbandonStep, CallMove, CancelMove

\* Another task's delta and history are not this one's.
LEMMA OthersKeepBuffers ==
    ASSUME Shape, [Next]_vars, NEW r \in Runs, ~ TaskStep(r)
    PROVE  emitted'[r] = emitted[r] /\ seen'[r] = seen[r]
<1>1. ASSUME NEW x \in Runs, TaskStep(x)
      PROVE  emitted'[r] = emitted[r] /\ seen'[r] = seen[r]
  BY <1>1, TaskEffect
<1>2. ASSUME NEW q \in Runs, CallMove(q)
      PROVE  UNCHANGED <<emitted, seen>>
  BY <1>2
  DEF CallMove, CallStep, AbandonCall, Reserve, ReserveUnacknowledged, StartTask, JoinRun,
      TaskAnswers, PollAnswers, taskVars
<1>3. QED
  BY <1>1, <1>2, CancelEffect, WorkerEffect
  DEF Next, AbandonStep, CallMove, CancelMove, ClientStep, Submit, RequestCancel, EditSession,
      Rollback, vars, taskVars

\* Only the task's own transaction counts an attempt.
LEMMA AttemptMoves ==
    ASSUME Shape, [Next]_vars, NEW r \in Runs, attempts'[r] # attempts[r]
    PROVE  /\ BeginAttempt(r) \/ StoreFails(r)
           /\ IncrementRunAttempt(r) /\ TaskAt(r, "attempting")
<1> USE DEF Shape
<1>0. attempts' # attempts
  OBVIOUS
<1>1. ASSUME NEW x \in Runs, NEW w, Finish(x, FAILED) \/ Finish(x, COMPLETED)
               \/ Finish(x, CANCELLED) \/ MarkRunRunning(x, w)
               \/ AppendStreamEvent(x, RESPONSE_DELTA) \/ UNCHANGED storeVars
      PROVE  FALSE
  BY <1>0, <1>1 DEF Finish, MarkRunRunning, AppendStreamEvent, storeVars, runVars
<1>2. ASSUME NEW x \in Runs, IncrementRunAttempt(x)
      PROVE  x = r
  BY <1>2 DEF IncrementRunAttempt, StoreTypeOK
<1>3. ASSUME NEW x \in Runs, TaskStep(x)
      PROVE  /\ BeginAttempt(r) \/ StoreFails(r)
             /\ IncrementRunAttempt(r) /\ TaskAt(r, "attempting")
  <2>1. CASE StoreFails(x)
    <3>1. Transaction(x)
      BY <1>1, <2>1 DEF StoreFails
    <3>2. pc[x] = "attempting" /\ IncrementRunAttempt(x)
      BY <1>1, <3>1 DEF Transaction, CommitRunSuccess, FailRun
    <3>3. QED
      BY <1>2, <2>1, <3>2 DEF StoreFails, TaskAt
  <2>2. CASE BeginAttempt(x)
    BY <1>1, <1>2, <2>2 DEF BeginAttempt
  <2>3. QED
    BY <1>1, <1>3, <2>1, <2>2
    DEF TaskStep, Begin, Mark, RunTool, LoadHistory, ReceiveDelta, PersistDelta,
        ReceiveResponse, Retry, GiveUp, EscapeTimeout, Wake, Commit, Fail, EnsureCancelled,
        FinishTask, DeliverCancel, CommitRunSuccess, FailRun, CancelRun
<1>4. ASSUME NEW q \in Runs, CallMove(q)
      PROVE  FALSE
  BY <1>0, <1>4, CallsReserveOwnRows DEF runVars
<1>5. ASSUME NEW c \in Cancels, CancelMove(c)
      PROVE  FALSE
  <2>1. cancel[c].run \in Runs
    BY <1>5, CancelEffect DEF CallTypes
  <2>2. QED
    BY <1>1, <1>5, <2>1
    DEF CancelMove, CancelStep, AbandonCancel, CancelDurably, SignalTask, GatherTask, CancelRun
<1>6. ASSUME NEW w \in Workers, WorkerStep(w)
      PROVE  FALSE
  BY <1>0, <1>6, WorkerStoreStep
  DEF MaintenanceStep, InterruptWorkerRuns, ReconcileOrphanedRuns, InterruptMatching,
      PruneStreamEvents, Tick, storeVars, runVars
<1>7. CASE ClientStep \/ EditSession \/ (\E x \in Runs : Rollback(x)) \/ UNCHANGED vars
  BY <1>0, <1>7
  DEF ClientStep, Submit, RequestCancel, EditSession, SessionStep, CreateSession,
      AppendMessage, ClearSession, Rollback, vars, storeVars, runVars
<1>8. QED
  BY <1>3, <1>4, <1>5, <1>6, <1>7 DEF Next, AbandonStep, CallMove, CancelMove

-----------------------------------------------------------------------------
(* A dead process. *)

\* The tasks of a worker that crashed are over, and no call creates another.
CrashedAreOver ==
    \A r \in Runs : pc[r] # "none" /\ mode[WorkerOf(r)] = "crashed" => pc[r] = "done"

\* A crash ends every task of the process, and its calls stop with it.
LEMMA CrashedAreOverStep ==
    ASSUME Shape, [Next]_vars, CrashedAreOver
    PROVE  CrashedAreOver'
<1> USE DEF Shape
<1> SUFFICES ASSUME NEW r \in Runs, pc'[r] # "none", mode'[call'[r].worker] = "crashed"
             PROVE  pc'[r] = "done"
  BY DEF CrashedAreOver, WorkerOf
<1>1. CASE StartTask(r)
  BY <1>1 DEF StartTask, CallAt, Running, Answer, CallTypes, CallType
<1>2. CASE pc'[r] = "done"
  BY <1>2
<1>3. CASE pc[r] # "none" /\ (UNCHANGED pc[r] \/ (TaskStep(r) /\ UNCHANGED <<mode, call>>))
  <2>1. call[r].pc # "idle" /\ WorkerOf(r) \in Workers
    BY <1>3, TasksHaveWorkers DEF OwnTargets
  <2>2. call'[r].worker = WorkerOf(r)
    BY <2>1, CallsKeepRequests DEF SameRequest, WorkerOf
  <2>3. CASE mode[WorkerOf(r)] = "crashed"
    BY <1>3, <2>2, <2>3, TaskHasBegun DEF CrashedAreOver
  <2>4. CASE mode[WorkerOf(r)] # "crashed"
    <3>1. Crash(WorkerOf(r))
      BY <2>1, <2>2, <2>4, ModeMoves
    <3>2. pc' = [x \in Runs |-> IF x \in LocalTasks(WorkerOf(r)) THEN "done" ELSE pc[x]]
      BY <3>1 DEF Crash
    <3>3. pc[r] = "done" \/ Live(r)
      BY <1>3 DEF TaskTypes, TaskPc, Live
    <3>4. QED
      BY <3>2, <3>3 DEF LocalTasks
  <2>5. QED
    BY <2>3, <2>4
<1>4. QED
  BY <1>1, <1>2, <1>3, TaskMoves, TaskHasBegun

\* Nobody acts for a dead process: its tasks and calls have stopped, cancel()
\* refuses a foreign owner, and only start-up interrupts what it left.
LEMMA DeadRunStep ==
    ASSUME Shape, [Next]_vars, CrashedAreOver, NEW r \in Runs, Active(r),
           mode[owner[r]] = "crashed"
    PROVE  /\ status'[r] \in {status[r], INTERRUPTED}
           /\ attempts'[r] = attempts[r]
           /\ pc'[r] = pc[r]
<1> USE DEF Shape
<1>0. /\ status[r] # ABSENT /\ owner[r] = WorkerOf(r)
      /\ pc[r] \in {"none", "done"} /\ ~ Live(r)
  <2>1. status[r] # ABSENT
    BY DEF Active, ACTIVE_RUN_STATUSES, PENDING, RUNNING, ABSENT
  <2>2. owner[r] = WorkerOf(r)
    BY <2>1 DEF OwnRows, WorkerOf
  <2>3. pc[r] \in {"none", "done"}
    BY <2>2 DEF CrashedAreOver
  <2>4. QED
    BY <2>1, <2>2, <2>3 DEF Live, TryBlock, Handler
<1>1. ~ TaskStep(r)
  BY <1>0, TaskHasBegun
<1>2. pc'[r] = pc[r]
  <2>1. ~ StartTask(r)
    BY <1>0 DEF StartTask, CallAt, Running, WorkerOf
  <2>2. QED
    BY <1>0, <1>1, <2>1, TaskMoves
<1>3. attempts'[r] = attempts[r]
  BY <1>0, AttemptMoves DEF TaskAt
<1>4. ASSUME UNCHANGED runVars
      PROVE  status'[r] = status[r]
  BY <1>4 DEF runVars
<1>5. ASSUME NEW x \in Runs \ {r}, NEW w, NEW to, Finish(x, to) \/ MarkRunRunning(x, w)
      PROVE  status'[r] = status[r]
  BY <1>5 DEF Finish, MarkRunRunning, StoreTypeOK
<1>6. ASSUME NEW x \in Runs, TaskStep(x)
      PROVE  status'[r] = status[r]
  <2>1. x \in Runs \ {r}
    BY <1>1, <1>6
  <2>2. CASE StoreFails(x)
    BY <1>4, <1>5, <2>1, <2>2
    DEF StoreFails, Transaction, IncrementRunAttempt, AppendStreamEvent, CommitRunSuccess,
        FailRun, storeVars, runVars
  <2>3. CASE UNCHANGED storeVars
    BY <1>4, <2>3 DEF storeVars
  <2>4. QED
    BY <1>4, <1>5, <1>6, <2>1, <2>2, <2>3
    DEF TaskStep, Begin, Mark, RunTool, LoadHistory, BeginAttempt, ReceiveDelta, PersistDelta,
        ReceiveResponse, Retry, GiveUp, EscapeTimeout, Wake, Commit, Fail, EnsureCancelled,
        FinishTask, DeliverCancel, CommitRunSuccess, FailRun, CancelRun, IncrementRunAttempt,
        AppendStreamEvent, runVars
<1>7. ASSUME NEW q \in Runs, CallMove(q)
      PROVE  status'[r] = status[r]
  BY <1>0, <1>4, <1>7, CallsReserveOwnRows
<1>8. ASSUME NEW c \in Cancels, CancelMove(c)
      PROVE  status'[r] = status[r]
  <2>1. CASE UNCHANGED storeVars
    BY <1>4, <2>1 DEF storeVars
  <2>2. ASSUME CancelDurably(c), CancelRun(cancel[c].run, cancel[c].worker)
        PROVE  status'[r] = status[r]
    <3>1. cancel[c].run # r
      BY <2>2 DEF CancelDurably, CancelAt, Running, CancelRun
    <3>2. cancel[c].run \in Runs
      BY <1>8, CancelEffect DEF CallTypes
    <3>3. QED
      BY <1>5, <2>2, <3>1, <3>2 DEF CancelRun
  <2>3. QED
    BY <1>8, <2>1, <2>2
    DEF CancelMove, CancelStep, AbandonCancel, CancelDurably, SignalTask, GatherTask
<1>9. ASSUME MaintenanceStep
      PROVE  status'[r] \in {status[r], INTERRUPTED}
  BY <1>4, <1>9
  DEF MaintenanceStep, InterruptWorkerRuns, ReconcileOrphanedRuns, InterruptMatching,
      PruneStreamEvents, Tick
<1>10. ASSUME NEW w \in Workers, WorkerStep(w)
      PROVE  status'[r] \in {status[r], INTERRUPTED}
  BY <1>4, <1>9, <1>10, WorkerStoreStep DEF storeVars
<1>11. CASE ClientStep \/ EditSession \/ (\E x \in Runs : Rollback(x)) \/ UNCHANGED vars
  <2>1. UNCHANGED runVars
    BY <1>11
    DEF ClientStep, Submit, RequestCancel, EditSession, SessionStep, CreateSession,
        AppendMessage, ClearSession, Rollback, vars, storeVars
  <2>2. QED
    BY <1>2, <1>3, <1>4, <2>1
<1>12. QED
  BY <1>2, <1>3, <1>6, <1>7, <1>8, <1>10, <1>11 DEF Next, AbandonStep, CallMove, CancelMove

\* The active runs of a process that died are interrupted by a later start-up or
\* stay as they are: no attempt, turn or task is added for them.
THEOREM DeadRunsStayDead == Spec => DeadRunsAreNotResumed
<1>1. Init => CrashedAreOver
  BY DEF Init, CrashedAreOver
<1>2. Shape /\ CrashedAreOver /\ [Next]_vars =>
        [\A r \in Runs :
            Active(r) /\ mode[owner[r]] = "crashed" =>
                /\ status'[r] \in {status[r], INTERRUPTED}
                /\ attempts'[r] = attempts[r]
                /\ pc'[r] = pc[r]]_vars
  BY DeadRunStep
<1>3. QED
  BY <1>1, <1>2, CrashedAreOverStep, ProcessesAreWellFormed, PTL
  DEF Spec, DeadRunsAreNotResumed

-----------------------------------------------------------------------------
(* Who ends an active run. *)

\* The task of an active run has not been told to stop, and stops with its run
\* still active only if an outage kept it from recording how.
Accounted(r) ==
    Terminal(r) \/ /\ ~ signal[r]
                   /\ pc[r] \notin {"committed", "failed"}
                   /\ pc[r] \in {"persisting", "cancelling"} => emitted[r]
                   /\ pc[r] = "cancelled" => Outages /\ emitted[r]
                   /\ pc[r] = "done" => Unrecorded(r)

\* A row without a task has the call that will create it or was left by it.
Reserved(r) ==
    \/ call[r].pc = "reserved"
    \/ /\ call[r].pc = "answered"
       /\ call[r].answer = "abandoned" \/ (Outages /\ call[r].answer = "unavailable")

\* Calls are made of serving workers only, a row without a task is not started,
\* and on a serving worker every task is accounted for.
TasksEndTheirRuns ==
    \A r \in Runs :
        /\ call[r].pc # "idle" => mode[WorkerOf(r)] \notin {"off", "starting", "pruning"}
        /\ signal[r] => pc[r] # "none"
        /\ pc[r] # "none" /\ mode[WorkerOf(r)] = "serving" => Accounted(r)
        /\ status[r] # ABSENT /\ pc[r] = "none" => status[r] # RUNNING /\ Reserved(r)

\* A task is signalled by a cancel() of its own run, the first time or as its
\* client gives up, or by a worker that has stopped serving.
LEMMA SignalMoves ==
    ASSUME Shape, [Next]_vars, NEW r \in Runs, signal'[r], ~ signal[r]
    PROVE  /\ Live(r) /\ pc' = pc
           /\ \/ \E c \in Cancels : /\ cancel[c].pc \in {"signalling", "gathering"}
                                    /\ cancel[c].run = r
              \/ mode'[WorkerOf(r)] = "draining" /\ UNCHANGED call
<1> USE DEF Shape
<1>0. signal' # signal
  OBVIOUS
<1>1. ASSUME NEW x \in Runs, TaskStep(x)
      PROVE  FALSE
  <2>1. x = r
    BY <1>1, TaskEffect
  <2>2. signal' = signal \/ signal' = [signal EXCEPT ![r] = FALSE]
    BY <1>1, <2>1
    DEF TaskStep, Begin, Mark, RunTool, LoadHistory, BeginAttempt, ReceiveDelta, PersistDelta,
        ReceiveResponse, Retry, GiveUp, EscapeTimeout, Wake, Commit, Fail, EnsureCancelled,
        FinishTask, DeliverCancel, StoreFails, Keep, OnlyPc
  <2>3. QED
    BY <2>2 DEF TaskTypes
<1>2. ASSUME NEW q \in Runs, CallMove(q)
      PROVE  FALSE
  BY <1>0, <1>2
  DEF CallMove, CallStep, AbandonCall, Reserve, ReserveUnacknowledged, StartTask, JoinRun,
      TaskAnswers, PollAnswers, taskVars
<1>3. ASSUME NEW c \in Cancels, CancelMove(c)
      PROVE  /\ cancel[c].pc \in {"signalling", "gathering"} /\ cancel[c].run = r
             /\ Live(r) /\ pc' = pc
  <2>1. SignalTask(c) \/ AbandonCancel(c)
    BY <1>0, <1>3 DEF CancelMove, CancelStep, CancelDurably, GatherTask, taskVars
  <2>2. /\ cancel[c].pc \in {"signalling", "gathering"} /\ pc' = pc
        /\ \/ signal' = [signal EXCEPT ![cancel[c].run] = TRUE] /\ Live(cancel[c].run)
           \/ signal' = [signal EXCEPT ![cancel[c].run] = Live(cancel[c].run)]
    BY <1>0, <2>1 DEF SignalTask, AbandonCancel, CancelAt, LocalTasks
  <2>3. cancel[c].run = r
    BY <2>2 DEF TaskTypes
  <2>4. QED
    BY <2>2, <2>3 DEF TaskTypes, Live
<1>4. ASSUME NEW w \in Workers, WorkerStep(w)
      PROVE  Live(r) /\ pc' = pc /\ mode'[WorkerOf(r)] = "draining" /\ UNCHANGED call
  <2>1. CASE CancelTasks(w)
    <3>1. r \in LocalTasks(w)
      BY <2>1 DEF CancelTasks
    <3>2. mode'[w] = "draining"
      BY <2>1 DEF CancelTasks, Move, WorkerTypes
    <3>3. QED
      BY <2>1, <3>1, <3>2 DEF LocalTasks, CancelTasks
  <2>2. CASE Crash(w)
    BY <2>2 DEF Crash
  <2>3. QED
    BY <1>0, <1>4, <2>1, <2>2
    DEF WorkerStep, ShutdownStep, Start, Reconcile, Prune, BeginShutdown, InterruptOwned,
        EndShutdown, OnlyMode, taskVars
<1>5. CASE ClientStep \/ EditSession \/ (\E x \in Runs : Rollback(x)) \/ UNCHANGED vars
  BY <1>0, <1>5 DEF ClientStep, Submit, RequestCancel, EditSession, Rollback, vars, taskVars
<1>6. QED
  BY <1>1, <1>2, <1>3, <1>4, <1>5 DEF Next, AbandonStep, CallMove, CancelMove

\* A task accounts for itself: it leaves its last transaction with an ended run,
\* or the transaction met an outage.
LEMMA TaskAccounts ==
    ASSUME Shape, NEW r \in Runs, TaskStep(r), Accounted(r)
    PROVE  Accounted(r)'
<1> USE DEF Shape
<1> SUFFICES ASSUME ~ Terminal(r), ~ Terminal(r)'
             PROVE  /\ ~ signal'[r]
                    /\ pc'[r] \notin {"committed", "failed"}
                    /\ pc'[r] \in {"persisting", "cancelling"} => emitted'[r]
                    /\ pc'[r] = "cancelled" => Outages /\ emitted'[r]
                    /\ pc'[r] = "done" => Unrecorded(r)'
  <2>1. Terminal(r) => Terminal(r)'
    <3>1. WorkerOf(r) \in Workers
      BY TaskHasBegun, TasksHaveWorkers
    <3>2. [StoreNext]_storeVars
      BY <3>1, TaskStoreStep DEF StoreNext
    <3>3. QED
      BY <3>2, FrozenStep DEF Terminal
  <2>2. QED
    BY <2>1 DEF Accounted
<1>1. /\ ~ signal[r] /\ pc[r] \notin {"committed", "failed"}
      /\ pc[r] \in {"persisting", "cancelling"} => emitted[r]
      /\ pc[r] = "cancelled" => Outages /\ emitted[r]
  BY DEF Accounted
<1>2. ASSUME NEW at, Keep(r, at)
      PROVE  pc'[r] = at /\ UNCHANGED <<signal, emitted>>
  BY <1>2 DEF Keep, Goto, OnlyPc, TaskTypes
<1>3. ASSUME NEW to \in {COMPLETED, FAILED, CANCELLED}, Finish(r, to)
      PROVE  FALSE
  BY <1>3 DEF Finish, Terminal, TERMINAL_RUN_STATUSES, StoreTypeOK
<1>4. CASE Commit(r)
  BY <1>1, <1>2, <1>3, <1>4 DEF Commit, CommitRunSuccess
<1>5. CASE Fail(r)
  BY <1>3, <1>5 DEF Fail, FailRun
<1>6. CASE EnsureCancelled(r)
  BY <1>1, <1>2, <1>3, <1>6 DEF EnsureCancelled, CancelRun, TaskAt
<1>7. CASE FinishTask(r)
  <2>1. TaskAt(r, "cancelled") /\ result' = [result EXCEPT ![r] = Outcome("cancelled")]
    BY <1>1, <1>7 DEF FinishTask, TaskAt
  <2>2. /\ pc'[r] = "done" /\ result'[r] = CANCELLED
        /\ emitted' = emitted /\ signal' = signal
    BY <1>7, <2>1 DEF FinishTask, Goto, TaskTypes, Outcome
  <2>3. QED
    BY <1>1, <2>1, <2>2 DEF TaskAt, Unrecorded
<1>8. CASE DeliverCancel(r)
  BY <1>1, <1>8 DEF DeliverCancel
<1>9. CASE StoreFails(r)
  <2>1. CASE Keep(r, "failing")
    BY <1>1, <1>2, <2>1
  <2>2. CASE Escape(r, FAILED) /\ UNCHANGED <<workerVars, seen, emitted, signal, call, cancel>>
    BY <1>1, <1>9, <2>2 DEF Escape, Goto, TaskTypes, Unrecorded, StoreFails
  <2>3. QED
    BY <1>9, <2>1, <2>2 DEF StoreFails
<1>10. CASE EscapeTimeout(r)
  BY <1>1, <1>2, <1>10 DEF EscapeTimeout, TaskAt
<1>11. CASE LoadHistory(r) \/ BeginAttempt(r) \/ ReceiveDelta(r)
  BY <1>1, <1>2, <1>11 DEF LoadHistory, BeginAttempt, ReceiveDelta, Goto, TaskTypes
<1>12. CASE Begin(r) \/ Mark(r) \/ RunTool(r) \/ PersistDelta(r) \/ ReceiveResponse(r)
             \/ Retry(r) \/ GiveUp(r) \/ Wake(r)
  BY <1>1, <1>2, <1>12
  DEF Begin, Mark, RunTool, PersistDelta, ReceiveResponse, Retry, GiveUp, Wake
<1>13. QED
  BY <1>4, <1>5, <1>6, <1>7, <1>8, <1>9, <1>10, <1>11, <1>12 DEF TaskStep

\* The row a call reserves is the call's to create a task for, unless the call
\* was cut off from it.
LEMMA ReservedRowsAwaitTasks ==
    ASSUME Shape, [Next]_vars, NEW r \in Runs, status[r] = ABSENT, status'[r] # ABSENT
    PROVE  status'[r] # RUNNING /\ Reserved(r)'
<1> USE DEF Shape
<1>1. ~ RowsMoveOn
  BY TransitionsLeaveActive DEF RowsMoveOn
<1>2. PICK p \in Runs : CallMove(p)
  BY <1>1, OnlyCallsReserve
<1>3. p = r /\ CallMove(r) /\ call[r].pc = "reserving"
  BY <1>2, CallsReserveOwnRows DEF runVars
<1>4. UNCHANGED storeVars => FALSE
  BY DEF storeVars, runVars
<1>5. Reserve(r) \/ ReserveUnacknowledged(r)
  BY <1>3, <1>4 DEF CallMove, CallStep, AbandonCall, StartTask, JoinRun, TaskAnswers, PollAnswers
<1>6. ASSUME NEW s, NEW k, NEW h, ReplayLeavingSession(s, k, h)
      PROVE  FALSE
  BY <1>6 DEF ReplayLeavingSession, CreateSession, runVars
<1>7. ASSUME NEW s, NEW param, NEW k, NEW h, NEW w, ReserveRun(r, param, s, k, h, w)
      PROVE  status'[r] # RUNNING
  BY <1>7 DEF ReserveRun, StoreTypeOK, PENDING, RUNNING
<1>8. ASSUME call' = [call EXCEPT ![r].pc = "reserved", ![r].target = r]
      PROVE  Reserved(r)'
  BY <1>8 DEF CallTypes, CallType, Reserved
<1>9. ASSUME Outages, Answer(r, "unavailable")
      PROVE  Reserved(r)'
  <2>1. call'[r].pc = "answered" /\ call'[r].answer = "unavailable"
    BY <1>9 DEF Answer, CallTypes, CallType
  <2>2. QED
    BY <1>9, <2>1 DEF Reserved
<1>10. QED
  BY <1>4, <1>5, <1>6, <1>7, <1>8, <1>9 DEF Reserve, ReserveUnacknowledged

\* Only the task of a run marks it running.
LEMMA RunningMoves ==
    ASSUME Shape, [Next]_vars, NEW r \in Runs,
           status[r] \notin {ABSENT, RUNNING}, status'[r] = RUNNING
    PROVE  pc[r] = "marking"
<1> USE DEF Shape
<1>0. {PENDING, COMPLETED, FAILED, CANCELLED, INTERRUPTED} \cap {RUNNING} = {}
  BY DEF PENDING, RUNNING, COMPLETED, FAILED, CANCELLED, INTERRUPTED
<1>1. ASSUME NEW x \in Runs, NEW to \in {COMPLETED, FAILED, CANCELLED}, Finish(x, to)
      PROVE  FALSE
  BY <1>0, <1>1 DEF Finish, StoreTypeOK
<1>2. ASSUME UNCHANGED storeVars \/ UNCHANGED runVars
      PROVE  FALSE
  BY <1>2 DEF storeVars, runVars
<1>3. ASSUME NEW x \in Runs, NEW w, MarkRunRunning(x, w)
      PROVE  x = r
  BY <1>3 DEF MarkRunRunning, StoreTypeOK
<1>4. ASSUME NEW x \in Runs, IncrementRunAttempt(x) \/ AppendStreamEvent(x, RESPONSE_DELTA)
      PROVE  FALSE
  BY <1>4 DEF IncrementRunAttempt, AppendStreamEvent, runVars
<1>5. ASSUME NEW x \in Runs, TaskStep(x)
      PROVE  pc[r] = "marking"
  <2>1. CASE StoreFails(x)
    BY <1>1, <1>2, <1>3, <1>4, <2>1 DEF StoreFails, Transaction, CommitRunSuccess, FailRun
  <2>2. CASE Mark(x)
    BY <1>2, <1>3, <2>2 DEF Mark, TaskAt
  <2>3. QED
    BY <1>1, <1>2, <1>4, <1>5, <2>1, <2>2
    DEF TaskStep, Begin, RunTool, LoadHistory, BeginAttempt, ReceiveDelta, PersistDelta,
        ReceiveResponse, Retry, GiveUp, EscapeTimeout, Wake, Commit, Fail, EnsureCancelled,
        FinishTask, DeliverCancel, CommitRunSuccess, FailRun, CancelRun
<1>6. ASSUME NEW q \in Runs, CallMove(q)
      PROVE  FALSE
  BY <1>2, <1>6, CallsReserveOwnRows
<1>7. ASSUME NEW c \in Cancels, CancelMove(c)
      PROVE  FALSE
  <2>1. cancel[c].run \in Runs
    BY <1>7, CancelEffect DEF CallTypes
  <2>2. QED
    BY <1>1, <1>2, <1>7, <2>1
    DEF CancelMove, CancelStep, AbandonCancel, CancelDurably, SignalTask, GatherTask, CancelRun
<1>8. ASSUME MaintenanceStep \/ SessionStep
      PROVE  FALSE
  BY <1>0, <1>2, <1>8
  DEF MaintenanceStep, InterruptWorkerRuns, ReconcileOrphanedRuns, InterruptMatching,
      PruneStreamEvents, Tick, SessionStep, CreateSession, AppendMessage, ClearSession
<1>9. ASSUME NEW w \in Workers, WorkerStep(w)
      PROVE  FALSE
  BY <1>2, <1>8, <1>9, WorkerStoreStep
<1>10. CASE ClientStep \/ EditSession \/ (\E x \in Runs : Rollback(x)) \/ UNCHANGED vars
  BY <1>2, <1>8, <1>10
  DEF ClientStep, Submit, RequestCancel, EditSession, Rollback, vars
<1>11. QED
  BY <1>5, <1>6, <1>7, <1>9, <1>10 DEF Next, AbandonStep, CallMove, CancelMove

\* A call is submitted to a serving worker, which then serves until it stops.
LEMMA CallsMeetServingWorkers ==
    ASSUME Shape, [Next]_vars, TasksEndTheirRuns, NEW r \in Runs, call'[r].pc # "idle"
    PROVE  /\ mode'[call'[r].worker] \notin {"off", "starting", "pruning"}
           /\ call[r].pc # "idle" =>
                 /\ call[r].worker \in Workers /\ call'[r].worker = call[r].worker
                 /\ mode'[call[r].worker] = "serving" => mode[call[r].worker] = "serving"
<1> USE DEF Shape
<1>1. CASE call[r].pc # "idle"
  <2>1. call[r].worker \in Workers /\ call'[r].worker = call[r].worker
    BY <1>1, CallsKeepRequests DEF CallTypes, SameRequest
  <2>2. mode[call[r].worker] \notin {"off", "starting", "pruning"}
    BY <1>1 DEF TasksEndTheirRuns, WorkerOf
  <2>3. Crash(call[r].worker) => mode'[call[r].worker] = "crashed"
    BY <2>1 DEF Crash, WorkerTypes
  <2>4. QED
    BY <2>1, <2>2, <2>3, ModeMoves
<1>2. CASE call[r].pc = "idle"
  <2>1. call'[r] # call[r] /\ ~ CallEffect(r)
    BY <1>2 DEF CallEffect
  <2>2. ASSUME NEW q \in Runs, NEW w \in Workers, NEW param, NEW payload, NEW key,
               Submit(q, w, param, payload, key)
        PROVE  mode'[call'[r].worker] = "serving"
    <3>1. q = r
      BY <2>1, <2>2 DEF Submit, CallTypes
    <3>2. QED
      BY <2>2, <3>1 DEF Submit, workerVars, CallTypes, CallType, IdleCall
  <2>3. ASSUME NEW q \in Runs, CallMove(q)
        PROVE  FALSE
    BY <2>1, <2>3, CallsTakeEffect DEF CallEffect
  <2>4. UNCHANGED call => FALSE
    BY <2>1
  <2>5. QED
    BY <1>2, <2>2, <2>3, <2>4, TaskEffect, CancelEffect, WorkerEffect
    DEF Next, AbandonStep, CallMove, CancelMove, ClientStep, RequestCancel, EditSession,
        Rollback, vars
<1>3. QED
  BY <1>1, <1>2

\* A task on a serving worker stays accounted for, whoever takes the step.
LEMMA TasksStayAccounted ==
    ASSUME Shape, [Next]_vars, CancelHolds, TasksEndTheirRuns, NEW r \in Runs,
           pc'[r] # "none", mode'[call'[r].worker] = "serving"
    PROVE  Accounted(r)'
<1> USE DEF Shape
<1>1. CASE StartTask(r)
  <2>1. pc[r] = "none" /\ pc'[r] = "created" /\ signal' = signal
    BY <1>1 DEF StartTask, CallAt, OwnTargets, TaskTypes
  <2>2. QED
    BY <2>1 DEF TasksEndTheirRuns, Accounted
<1>2. CASE ~ StartTask(r)
  <2>1. pc[r] # "none" /\ call[r].pc # "idle"
    BY <1>2, TaskMoves, TaskHasBegun DEF OwnTargets, Live, TryBlock, Handler
  <2>2. call'[r].pc # "idle"
    BY <2>1, CallsKeepRequests
  <2>3. /\ mode[WorkerOf(r)] = "serving" /\ mode'[WorkerOf(r)] = "serving"
        /\ WorkerOf(r) \in Workers
    BY <2>1, <2>2, CallsMeetServingWorkers DEF WorkerOf
  <2>4. Accounted(r)
    BY <2>1, <2>3 DEF TasksEndTheirRuns
  <2>5. Terminal(r) => Terminal(r)'
    BY StoreSteps, FrozenStep DEF Terminal
  <2>6. CASE TaskStep(r)
    BY <2>4, <2>6, TaskAccounts
  <2>7. CASE ~ TaskStep(r)
    <3>1. UNCHANGED <<pc[r], result[r]>>
      BY <1>2, <2>3, <2>7, TaskMoves
    <3>2. emitted'[r] = emitted[r]
      BY <2>7, OthersKeepBuffers
    <3>3. CASE signal'[r] /\ ~ signal[r]
      <4>1. PICK c \in Cancels : cancel[c].pc \in {"signalling", "gathering"} /\ cancel[c].run = r
        BY <2>3, <3>3, SignalMoves
      <4>2. Terminal(r)
        BY <4>1 DEF CancelHolds, Terminal, TERMINAL_RUN_STATUSES
      <4>3. QED
        BY <2>5, <4>2 DEF Accounted
    <3>4. CASE signal[r] \/ ~ signal'[r]
      BY <2>4, <2>5, <3>1, <3>2, <3>4 DEF Accounted, Unrecorded
    <3>5. QED
      BY <3>3, <3>4
  <2>8. QED
    BY <2>6, <2>7
<1>3. QED
  BY <1>1, <1>2

\* The invariant is inductive.
LEMMA TasksEndTheirRunsStep ==
    ASSUME Shape, [Next]_vars, CancelHolds, TasksEndTheirRuns
    PROVE  TasksEndTheirRuns'
<1> USE DEF Shape
<1> SUFFICES ASSUME NEW r \in Runs
             PROVE  /\ call'[r].pc # "idle" =>
                          mode'[call'[r].worker] \notin {"off", "starting", "pruning"}
                    /\ signal'[r] => pc'[r] # "none"
                    /\ pc'[r] # "none" /\ mode'[call'[r].worker] = "serving" => Accounted(r)'
                    /\ status'[r] # ABSENT /\ pc'[r] = "none" =>
                          status'[r] # RUNNING /\ Reserved(r)'
  BY DEF TasksEndTheirRuns, WorkerOf
<1>1. signal'[r] => pc'[r] # "none"
  <2>1. CASE signal[r]
    BY <2>1, TaskMoves, TaskEffect DEF TasksEndTheirRuns, StartTask, TaskTypes
  <2>2. CASE ~ signal[r] /\ signal'[r]
    BY <2>2, SignalMoves DEF Live, TryBlock, Handler
  <2>3. QED
    BY <2>1, <2>2
<1>2. ASSUME status'[r] # ABSENT, pc'[r] = "none"
      PROVE  status'[r] # RUNNING /\ Reserved(r)'
  <2>1. CASE status[r] = ABSENT
    BY <1>2, <2>1, ReservedRowsAwaitTasks
  <2>2. CASE status[r] # ABSENT
    <3>1. pc[r] = "none"
      BY <1>2, TaskMoves, TaskEffect DEF StartTask, TaskTypes
    <3>2. status[r] # RUNNING /\ Reserved(r)
      BY <2>2, <3>1 DEF TasksEndTheirRuns
    <3>3. status'[r] # RUNNING
      BY <2>2, <3>1, <3>2, RunningMoves
    <3>4. ASSUME call'[r] = call[r]
          PROVE  Reserved(r)'
      BY <3>2, <3>4 DEF Reserved
    <3>5. ASSUME CallEffect(r)
          PROVE  Reserved(r)'
      BY <1>2, <3>2, <3>5 DEF CallEffect, Reserved, TaskTypes
    <3>6. QED
      BY <3>2, <3>3, <3>4, <3>5, CallMoves DEF Reserved
  <2>3. QED
    BY <2>1, <2>2
<1>3. QED
  BY <1>1, <1>2, CallsMeetServingWorkers, TasksStayAccounted

\* An active run of a serving worker has its call or its task to end it, whatever
\* was cancelled, given up, crashed elsewhere or shut down.  Where outages are
\* possible a run may also be one whose caller or whose task they cut off, and
\* then it is known which: nobody else's run is ever left alone.
THEOREM ActiveRunsAreOwned == Spec => []ActiveRunHasAnOwner
<1>1. Init => TasksEndTheirRuns
  BY DEF Init, StoreInit, TasksEndTheirRuns, IdleCall
<1>2. Init => CancelHolds
  BY DEF Init, CancelHolds, IdleCancel
<1>3. Shape /\ CancelHolds /\ TasksEndTheirRuns /\ [Next]_vars => TasksEndTheirRuns'
  BY TasksEndTheirRunsStep
<1>4. Shape /\ CancelHolds /\ [Next]_vars => CancelHolds'
  BY CancelHoldsStep
<1>5. Shape /\ TasksEndTheirRuns => ActiveRunHasAnOwner
  <2> SUFFICES ASSUME Shape, TasksEndTheirRuns, NEW r \in Runs, Active(r),
                      mode[owner[r]] = "serving", ~ Live(r)
               PROVE  call[r].pc = "reserved" \/ Stranded(r) \/ Unrecorded(r)
    BY DEF ActiveRunHasAnOwner
  <2>1. status[r] # ABSENT /\ ~ Terminal(r)
    BY DEF Active, Terminal, ACTIVE_RUN_STATUSES, TERMINAL_RUN_STATUSES, PENDING, RUNNING,
       COMPLETED, FAILED, CANCELLED, INTERRUPTED, ABSENT
  <2>2. owner[r] = WorkerOf(r)
    BY <2>1 DEF Shape, OwnRows, WorkerOf
  <2>3. pc[r] \in {"none", "done"}
    BY DEF Live, Shape, TaskTypes, TaskPc
  <2>4. CASE pc[r] = "done"
    BY <2>1, <2>2, <2>4 DEF TasksEndTheirRuns, Accounted
  <2>5. CASE pc[r] = "none"
    <3>1. status[r] = PENDING /\ Reserved(r)
      BY <2>1, <2>5 DEF TasksEndTheirRuns, Active, ACTIVE_RUN_STATUSES
    <3>2. QED
      BY <2>5, <3>1 DEF Reserved, Stranded
  <2>6. QED
    BY <2>3, <2>4, <2>5
<1>6. QED
  BY <1>1, <1>2, <1>3, <1>4, <1>5, ProcessesAreWellFormed, PTL DEF Spec

-----------------------------------------------------------------------------
(* The active_runs gauge. *)

\* The runs whose tasks a worker has ever created.
Started(w) == {r \in Runs : pc[r] # "none" /\ WorkerOf(r) = w}

\* A worker's gauge lies between the tasks it has and the tasks it ever had.
GaugeCounts ==
    \A w \in Workers :
        /\ IsFiniteSet(Started(w))
        /\ Cardinality(LocalTasks(w)) <= gauge[w]
        /\ gauge[w] <= Cardinality(Started(w))

\* run_started for a task that is new to both sets.
LEMMA CountUp ==
    ASSUME NEW S, NEW L, NEW g \in Nat, NEW x, IsFiniteSet(S), L \subseteq S, x \notin S,
           Cardinality(L) <= g, g <= Cardinality(S)
    PROVE  /\ IsFiniteSet(S \cup {x})
           /\ Cardinality(L \cup {x}) <= g + 1
           /\ g + 1 <= Cardinality(S \cup {x})
<1>1. IsFiniteSet(L) /\ x \notin L
  BY FS_Subset
<1>2. Cardinality(S) \in Nat /\ Cardinality(L) \in Nat
  BY <1>1, FS_CardinalityType
<1>3. IsFiniteSet(S \cup {x}) /\ Cardinality(S \cup {x}) = Cardinality(S) + 1
  BY FS_AddElement
<1>4. Cardinality(L \cup {x}) = Cardinality(L) + 1
  BY <1>1, FS_AddElement
<1>5. QED
  BY <1>2, <1>3, <1>4

\* run_finished for a task that was counted: the gauge is not at zero yet.
LEMMA CountDown ==
    ASSUME NEW S, NEW L, NEW g \in Nat, NEW x \in L, IsFiniteSet(S), L \subseteq S,
           Cardinality(L) <= g, g <= Cardinality(S)
    PROVE  /\ g # 0
           /\ Cardinality(L \ {x}) <= g - 1
           /\ g - 1 <= Cardinality(S)
<1>1. IsFiniteSet(L)
  BY FS_Subset
<1>2. Cardinality(S) \in Nat /\ Cardinality(L) \in Nat
  BY <1>1, FS_CardinalityType
<1>3. Cardinality(L \ {x}) = Cardinality(L) - 1 /\ IsFiniteSet(L \ {x})
  BY <1>1, FS_RemoveElement
<1>4. Cardinality(L \ {x}) \in Nat
  BY <1>3, FS_CardinalityType
<1>5. QED
  BY <1>2, <1>3, <1>4

\* A task that ends without run_finished leaves the gauge above the tasks.
LEMMA CountStays ==
    ASSUME NEW S, NEW L, NEW g \in Nat, NEW M, IsFiniteSet(S), L \subseteq S, M \subseteq L,
           Cardinality(L) <= g
    PROVE  Cardinality(M) <= g
<1>1. IsFiniteSet(L)
  BY FS_Subset
<1>2. IsFiniteSet(M) /\ Cardinality(M) <= Cardinality(L)
  BY <1>1, FS_Subset
<1>3. Cardinality(M) \in Nat /\ Cardinality(L) \in Nat
  BY <1>1, <1>2, FS_CardinalityType
<1>4. QED
  BY <1>2, <1>3

\* The sets a step changes are those of the worker whose task it creates or ends.
LEMMA TaskSetsMove ==
    ASSUME Shape, [Next]_vars, NEW w \in Workers
    PROVE  \/ /\ \A r \in Runs : pc[r] # "none" /\ WorkerOf(r) = w => pc'[r] = pc[r]
              /\ \A r \in Runs : pc[r] = "none" /\ pc'[r] # "none" => call[r].worker # w
              /\ gauge'[w] = gauge[w]
           \/ \E r \in Runs : StartTask(r) /\ call[r].worker = w
           \/ \E r \in Runs : TaskStep(r) /\ WorkerOf(r) = w
           \/ Crash(w)
<1> USE DEF Shape
<1>1. ASSUME UNCHANGED <<pc, gauge>>
      PROVE  /\ \A r \in Runs : pc[r] # "none" /\ WorkerOf(r) = w => pc'[r] = pc[r]
             /\ \A r \in Runs : pc[r] = "none" /\ pc'[r] # "none" => call[r].worker # w
             /\ gauge'[w] = gauge[w]
  BY <1>1
<1>2. ASSUME NEW x \in Runs, TaskStep(x), WorkerOf(x) # w
      PROVE  /\ \A r \in Runs : pc[r] # "none" /\ WorkerOf(r) = w => pc'[r] = pc[r]
             /\ \A r \in Runs : pc[r] = "none" /\ pc'[r] # "none" => call[r].worker # w
             /\ gauge'[w] = gauge[w]
  <2>1. pc[x] # "none" /\ WorkerOf(x) \in Workers
    BY <1>2, TaskHasBegun, TasksHaveWorkers
  <2>2. gauge'[w] = gauge[w]
    BY <1>2, <2>1, TaskEffect DEF WorkerTypes
  <2>3. QED
    BY <1>2, <2>1, <2>2, TaskEffect
<1>3. ASSUME NEW q \in Runs, StartTask(q), call[q].worker # w
      PROVE  /\ \A r \in Runs : pc[r] # "none" /\ WorkerOf(r) = w => pc'[r] = pc[r]
             /\ \A r \in Runs : pc[r] = "none" /\ pc'[r] # "none" => call[r].worker # w
             /\ gauge'[w] = gauge[w]
  <2>1. call[q].worker \in Workers /\ call[q].worker # w
    BY <1>3 DEF StartTask, CallAt, CallTypes
  <2>2. gauge'[w] = gauge[w]
    BY <1>3, <2>1 DEF StartTask, WorkerTypes
  <2>3. pc' = [pc EXCEPT ![q] = "created"]
    BY <1>3 DEF StartTask
  <2>4. QED
    BY <1>3, <2>2, <2>3 DEF WorkerOf, TaskTypes
<1>4. ASSUME NEW v \in Workers, WorkerStep(v)
      PROVE  \/ /\ \A r \in Runs : pc[r] # "none" /\ WorkerOf(r) = w => pc'[r] = pc[r]
                /\ \A r \in Runs : pc[r] = "none" /\ pc'[r] # "none" => call[r].worker # w
                /\ gauge'[w] = gauge[w]
             \/ Crash(w)
  <2>1. CASE Crash(v) /\ v # w
    BY <2>1
    DEF Crash, LocalTasks, WorkerTypes, TaskTypes, Live, TryBlock, Handler, WorkerOf
  <2>2. CASE ~ Crash(v)
    BY <1>1, <1>4, <2>2
    DEF WorkerStep, ShutdownStep, Start, Reconcile, Prune, BeginShutdown, InterruptOwned,
        CancelTasks, EndShutdown, OnlyMode, taskVars
  <2>3. QED
    BY <2>1, <2>2
<1>5. CASE ClientStep \/ EditSession \/ (\E x \in Runs : Rollback(x)) \/ UNCHANGED vars
           \/ (\E c \in Cancels : CancelMove(c))
  BY <1>1, <1>5, CancelEffect
  DEF ClientStep, Submit, RequestCancel, EditSession, Rollback, vars, taskVars, workerVars
<1>6. ASSUME NEW q \in Runs, CallMove(q), ~ StartTask(q)
      PROVE  UNCHANGED <<pc, gauge>>
  BY <1>6
  DEF CallMove, CallStep, AbandonCall, Reserve, ReserveUnacknowledged, JoinRun, TaskAnswers,
      PollAnswers, taskVars, workerVars
<1>7. QED
  BY <1>1, <1>2, <1>3, <1>4, <1>5, <1>6 DEF Next, AbandonStep, CallMove, CancelMove

\* A task that takes a step stays or ends, and run_finished is called only by one
\* that ends.
LEMMA TaskCounts ==
    ASSUME Shape, NEW r \in Runs, TaskStep(r)
    PROVE  gauge' = gauge \/ pc'[r] = "done"
BY DEF TaskStep, Begin, Mark, RunTool, LoadHistory, BeginAttempt, ReceiveDelta, PersistDelta,
       ReceiveResponse, Retry, GiveUp, EscapeTimeout, Wake, Commit, Fail, EnsureCancelled,
       FinishTask, DeliverCancel, StoreFails, Keep, OnlyPc, Goto, workerVars, Shape, TaskTypes

\* run_started and run_finished keep the count between its bounds.
LEMMA GaugeCountsStep ==
    ASSUME Shape, [Next]_vars, GaugeCounts
    PROVE  GaugeCounts'
<1> USE DEF Shape
<1> SUFFICES ASSUME NEW w \in Workers
             PROVE  /\ IsFiniteSet(Started(w)')
                    /\ Cardinality(LocalTasks(w)') <= gauge'[w]
                    /\ gauge'[w] <= Cardinality(Started(w)')
  BY DEF GaugeCounts
<1> DEFINE S == Started(w)
           L == LocalTasks(w)
<1>1. /\ IsFiniteSet(S) /\ L \subseteq S
      /\ Cardinality(L) <= gauge[w] /\ gauge[w] <= Cardinality(S)
      /\ gauge[w] \in Nat
  BY DEF GaugeCounts, LocalTasks, Started, Live, TryBlock, Handler, WorkerTypes
<1>2. \A r \in Runs : pc[r] # "none" => call'[r].worker = call[r].worker
  BY CallsKeepRequests DEF OwnTargets, SameRequest
<1>3. \A r \in Runs : StartTask(r) => call'[r].worker = call[r].worker
  BY CallsKeepRequests DEF StartTask, CallAt, SameRequest
<1>4. ASSUME \A r \in Runs : pc[r] # "none" => pc'[r] # "none",
             \A r \in Runs : pc[r] = "none" /\ pc'[r] # "none" => call[r].worker # w,
             \A r \in Runs : pc[r] = "none" /\ pc'[r] # "none" =>
                                call'[r].worker = call[r].worker
      PROVE  Started(w)' = S
  BY <1>2, <1>4 DEF Started, WorkerOf
<1>5. CASE \E r \in Runs : StartTask(r) /\ call[r].worker = w
  <2>1. PICK r \in Runs : StartTask(r) /\ call[r].worker = w
    BY <1>5
  <2>2. pc[r] = "none" /\ pc' = [pc EXCEPT ![r] = "created"] /\ gauge'[w] = gauge[w] + 1
    BY <2>1 DEF StartTask, CallAt, OwnTargets, WorkerTypes
  <2>3. Started(w)' = S \cup {r} /\ r \notin S
    BY <1>2, <1>3, <2>1, <2>2 DEF Started, WorkerOf, TaskTypes
  <2>4. LocalTasks(w)' = L \cup {r}
    BY <1>2, <1>3, <2>1, <2>2 DEF LocalTasks, Live, WorkerOf, TaskTypes, TryBlock, Handler
  <2> HIDE DEF S, L
  <2>5. QED
    BY <1>1, <2>2, <2>3, <2>4, CountUp
<1>6. CASE \E r \in Runs : TaskStep(r) /\ WorkerOf(r) = w
  <2>1. PICK r \in Runs : TaskStep(r) /\ WorkerOf(r) = w
    BY <1>6
  <2>2. /\ pc[r] \notin {"none", "done"} /\ pc'[r] \notin {"none", "created"}
        /\ \A x \in Runs \ {r} : pc'[x] = pc[x]
        /\ call' = call
        /\ gauge'[w] = gauge[w] \/ gauge'[w] = IF gauge[w] = 0 THEN 0 ELSE gauge[w] - 1
    BY <2>1, TaskEffect DEF WorkerTypes
  <2>3. Started(w)' = S
    BY <2>2 DEF Started, WorkerOf
  <2>4. r \in L
    BY <2>1, <2>2 DEF LocalTasks, Live, TaskTypes, TaskPc
  <2>5. CASE gauge'[w] = gauge[w]
    <3>1. LocalTasks(w)' \subseteq L
      BY <2>2, <2>4 DEF LocalTasks, Live, WorkerOf
    <3> HIDE DEF S, L
    <3>2. QED
      BY <1>1, <2>3, <2>5, <3>1, CountStays
  <2>6. CASE pc'[r] = "done" /\ gauge'[w] = IF gauge[w] = 0 THEN 0 ELSE gauge[w] - 1
    <3>1. LocalTasks(w)' = L \ {r}
      BY <2>2, <2>6 DEF LocalTasks, Live, WorkerOf, TryBlock, Handler
    <3> HIDE DEF S, L
    <3>2. QED
      BY <1>1, <2>3, <2>4, <2>6, <3>1, CountDown
  <2>7. QED
    BY <2>1, <2>2, <2>5, <2>6, TaskCounts
<1>7. CASE Crash(w)
  <2>1. /\ pc' = [r \in Runs |-> IF r \in L THEN "done" ELSE pc[r]]
        /\ gauge'[w] = 0 /\ call' = call
    BY <1>7 DEF Crash, WorkerTypes
  <2>2. Started(w)' = S
    BY <1>1, <2>1 DEF Started, WorkerOf
  <2>3. LocalTasks(w)' = {}
    BY <2>1 DEF LocalTasks, Live, WorkerOf, TryBlock, Handler
  <2> HIDE DEF S, L
  <2>4. QED
    BY <1>1, <2>1, <2>2, <2>3, FS_EmptySet, FS_CardinalityType
<1>8. CASE /\ \A r \in Runs : pc[r] # "none" /\ WorkerOf(r) = w => pc'[r] = pc[r]
           /\ \A r \in Runs : pc[r] = "none" /\ pc'[r] # "none" => call[r].worker # w
           /\ gauge'[w] = gauge[w]
  <2>1. \A r \in Runs : pc[r] # "none" => pc'[r] # "none"
    BY TaskMoves, TaskEffect DEF StartTask, TaskTypes
  <2>2. \A r \in Runs : pc[r] = "none" /\ pc'[r] # "none" => call'[r].worker = call[r].worker
    BY <1>3, TaskMoves, TaskHasBegun DEF Live, TryBlock, Handler
  <2>3. Started(w)' = S
    BY <1>4, <1>8, <2>1, <2>2
  <2>4. LocalTasks(w)' = L
    BY <1>2, <1>8, <2>1, <2>2 DEF LocalTasks, Live, WorkerOf, TryBlock, Handler
  <2> HIDE DEF S, L
  <2>5. QED
    BY <1>1, <1>8, <2>3, <2>4
<1>9. QED
  BY <1>5, <1>6, <1>7, <1>8, TaskSetsMove

\* Before a process has run a task its gauge is zero.
LEMMA InitGaugeCounts == Init => GaugeCounts
<1> SUFFICES ASSUME Init, NEW w \in Workers
             PROVE  /\ IsFiniteSet(Started(w))
                    /\ Cardinality(LocalTasks(w)) <= gauge[w]
                    /\ gauge[w] <= Cardinality(Started(w))
  BY DEF GaugeCounts
<1>1. Started(w) = {} /\ LocalTasks(w) = {} /\ gauge[w] = 0
  BY DEF Init, Started, LocalTasks, Live, TryBlock, Handler
<1>2. QED
  BY <1>1, FS_EmptySet

\* The gauge an operator watches never reads less than the tasks that run,
\* whichever handler ends a task and however often it is cancelled.
THEOREM GaugeIsSafe == Spec => []GaugeCoversTasks
<1>1. GaugeCounts => GaugeCoversTasks
  BY DEF GaugeCounts, GaugeCoversTasks
<1>2. QED
  BY <1>1, InitGaugeCounts, GaugeCountsStep, ProcessesAreWellFormed, PTL DEF Spec

\* Every variable keeps its type, and no gauge ever counts more tasks than there
\* are runs.
THEOREM TypesHold ==
    ASSUME IsFiniteSet(Runs)
    PROVE  Spec => []TypeOK
<1>1. Shape /\ GaugeCounts => TypeOK
  <2> SUFFICES ASSUME Shape, GaugeCounts
               PROVE  TypeOK
    OBVIOUS
  <2> USE DEF Shape
  <2>1. gauge \in [Workers -> 0 .. Cardinality(Runs)]
    <3>1. ASSUME NEW w \in Workers
          PROVE  gauge[w] \in 0 .. Cardinality(Runs)
      <4>1. Started(w) \subseteq Runs
        BY DEF Started
      <4>2. Cardinality(Started(w)) <= Cardinality(Runs)
        BY <4>1, FS_Subset
      <4>3. /\ gauge[w] \in Nat /\ gauge[w] <= Cardinality(Started(w))
            /\ Cardinality(Started(w)) \in Nat /\ Cardinality(Runs) \in Nat
        BY FS_CardinalityType DEF GaugeCounts, WorkerTypes
      <4>4. QED
        BY <4>2, <4>3
    <3>2. QED
      BY <3>1 DEF WorkerTypes
  <2>2. QED
    BY <2>1
    DEF TypeOK, WorkerTypes, TaskTypes, CallTypes, CallType, CancelType, TaskPc
<1>2. QED
  BY <1>1, InitGaugeCounts, GaugeCountsStep, ProcessesAreWellFormed, InitShape, ShapeStep, PTL
  DEF Spec

-----------------------------------------------------------------------------
(* The retry contract. *)

\* A task that still waits for an attempt has one left and has emitted nothing.
AttemptsLeft ==
    \A r \in Runs : Phase(r) = "waiting" => attempts[r] < RetryLimit /\ ~ emitted[r]

\* What a step of the contract looks like from a task that stays where it is, ...
LEMMA ContractStutters ==
    ASSUME NEW r \in Runs, UNCHANGED <<Phase(r), attempts[r], emitted[r]>>
    PROVE  [Contract(r)!Next]_(Contract(r)!vars)
BY DEF Contract!vars

\* ... and from one that leaves the loop.
LEMMA ContractStops ==
    ASSUME NEW r \in Runs, Phase(r)' = "over", UNCHANGED <<attempts[r], emitted[r]>>
    PROVE  [Contract(r)!Next]_(Contract(r)!vars)
BY DEF Contract!vars, Contract!Next, Contract!Stop

\* A count takes the attempt the contract still has.
LEMMA ContractCounts ==
    ASSUME NEW r \in Runs, attempts[r] \in Nat, Phase(r) = "waiting",
           attempts[r] < RetryLimit, attempts'[r] = attempts[r] + 1,
           Phase(r)' \in {"calling", "over"}, ~ emitted'[r], emitted'[r] \in BOOLEAN
    PROVE  [Contract(r)!Next]_(Contract(r)!vars)
BY DEF Contract!vars, Contract!Next, Contract!Count

\* The phase is a matter of the pc alone.
LEMMA PhaseOfPc ==
    ASSUME NEW r \in Runs
    PROVE  /\ Phase(r) \in {"waiting", "calling", "over"}
           /\ pc'[r] = pc[r] => Phase(r)' = Phase(r)
           /\ pc[r] \in {"none", "created", "marking", "loading", "tool", "attempting",
                         "sleeping"} <=> Phase(r) = "waiting"
           /\ pc'[r] \in {"none", "created", "marking", "loading", "tool", "attempting",
                          "sleeping"} <=> Phase(r)' = "waiting"
           /\ pc[r] \in {"calling", "persisting"} <=> Phase(r) = "calling"
           /\ pc'[r] \in {"calling", "persisting"} <=> Phase(r)' = "calling"
BY DEF Phase

\* A task's own step is a step of the contract, and leaves an attempt to take
\* whenever it goes on waiting.
LEMMA TaskKeepsContract ==
    ASSUME Shape, [Next]_vars, AttemptsLeft, NEW r \in Runs, TaskStep(r)
    PROVE  /\ [Contract(r)!Next]_(Contract(r)!vars)
           /\ Phase(r)' = "waiting" => attempts'[r] < RetryLimit /\ ~ emitted'[r]
<1> USE DEF Shape
<1>0. attempts[r] \in Nat /\ emitted[r] \in BOOLEAN /\ RetryLimit \in Nat
  BY BoundsAreNaturals, RetryLimitIsPositive DEF StoreTypeOK, TaskTypes
<1>1. pc[r] # "attempting" => attempts'[r] = attempts[r]
  BY AttemptMoves DEF TaskAt
<1>2. ASSUME NEW at, pc' = [pc EXCEPT ![r] = at]
      PROVE  pc'[r] = at
  BY <1>2 DEF TaskTypes
<1>3. ASSUME attempts'[r] = attempts[r], emitted'[r] = emitted[r], Phase(r)' = "over"
      PROVE  /\ [Contract(r)!Next]_(Contract(r)!vars)
             /\ Phase(r)' = "waiting" => attempts'[r] < RetryLimit /\ ~ emitted'[r]
  BY <1>3, ContractStops
<1>4. ASSUME attempts'[r] = attempts[r], emitted'[r] = emitted[r], Phase(r)' = Phase(r)
      PROVE  /\ [Contract(r)!Next]_(Contract(r)!vars)
             /\ Phase(r)' = "waiting" => attempts'[r] < RetryLimit /\ ~ emitted'[r]
  BY <1>4, ContractStutters DEF AttemptsLeft
<1>5. CASE LoadHistory(r) \/ PersistDelta(r) \/ Wake(r)
  <2>1. /\ emitted' = emitted /\ pc[r] # "attempting"
        /\ \/ pc[r] \in {"loading", "sleeping"} /\ pc'[r] = "attempting"
           \/ pc[r] = "persisting" /\ pc'[r] = "calling"
    BY <1>2, <1>5 DEF LoadHistory, PersistDelta, Wake, TaskAt, Keep, OnlyPc, Goto
  <2>2. QED
    BY <1>1, <1>4, <2>1, PhaseOfPc
<1>6. CASE Begin(r) \/ Mark(r)
  <2>1. emitted' = emitted /\ pc[r] \in {"created", "marking"}
        /\ pc'[r] \in {"marking", "loading", "tool", "failing"}
    BY <1>2, <1>6 DEF Begin, Mark, TaskAt, Keep, OnlyPc, Goto
  <2>2. Phase(r)' = Phase(r) \/ Phase(r)' = "over"
    BY <2>1 DEF Phase
  <2>3. QED
    BY <1>1, <1>3, <1>4, <2>1, <2>2
<1>7. CASE RunTool(r) \/ ReceiveResponse(r) \/ GiveUp(r) \/ EscapeTimeout(r) \/ Commit(r)
             \/ Fail(r) \/ EnsureCancelled(r) \/ FinishTask(r)
  <2>1. emitted' = emitted /\ pc[r] # "attempting"
        /\ pc'[r] \in {"committing", "committed", "failing", "failed", "cancelling",
                       "cancelled", "done"}
    BY <1>2, <1>7
    DEF RunTool, ReceiveResponse, GiveUp, EscapeTimeout, Commit, Fail, EnsureCancelled,
        FinishTask, TaskAt, Keep, OnlyPc, Goto
  <2>2. Phase(r)' = "over"
    BY <2>1 DEF Phase
  <2>3. QED
    BY <1>1, <1>3, <2>1, <2>2
<1>8. CASE DeliverCancel(r)
  <2>1. pc'[r] \in {"cancelling", "done"} /\ emitted' = emitted /\ storeVars' = storeVars
    BY <1>2, <1>8 DEF DeliverCancel, Goto, Escape
  <2>2. Phase(r)' = "over" /\ attempts'[r] = attempts[r]
    BY <2>1 DEF Phase, storeVars, runVars
  <2>3. QED
    BY <1>3, <2>1, <2>2
<1>9. CASE ReceiveDelta(r)
  <2>1. /\ pc[r] = "calling" /\ pc'[r] = "persisting" /\ emitted'[r] = TRUE
    BY <1>2, <1>9 DEF ReceiveDelta, TaskAt, Goto, TaskTypes
  <2>2. /\ Phase(r) = "calling" /\ Phase(r)' = "calling" /\ attempts'[r] = attempts[r]
    BY <1>1, <2>1 DEF Phase
  <2>3. QED
    BY <2>1, <2>2 DEF Contract!Next, Contract!Emit
<1>10. CASE Retry(r)
  <2>1. /\ pc[r] = "calling" /\ pc'[r] = "sleeping" /\ emitted' = emitted
        /\ ~ emitted[r] /\ attempts[r] < RetryLimit
    BY <1>2, <1>10 DEF Retry, TaskAt, Keep, OnlyPc, Goto, PermitsRetry
  <2>2. /\ Phase(r) = "calling" /\ Phase(r)' = "waiting" /\ attempts'[r] = attempts[r]
    BY <1>1, <2>1 DEF Phase
  <2>3. QED
    BY <2>1, <2>2 DEF Contract!Next, Contract!Retry
<1>11. CASE BeginAttempt(r) \/ StoreFails(r)
  <2>1. CASE IncrementRunAttempt(r) /\ pc[r] = "attempting"
    <3>1. attempts'[r] = attempts[r] + 1 /\ Phase(r) = "waiting"
      BY <2>1 DEF IncrementRunAttempt, StoreTypeOK, Phase
    <3>2. attempts[r] < RetryLimit /\ ~ emitted[r]
      BY <3>1 DEF AttemptsLeft
    <3>3. ~ emitted'[r] /\ emitted'[r] \in BOOLEAN
      BY <1>0, <1>11, <3>2 DEF BeginAttempt, StoreFails, Keep, OnlyPc, TaskTypes
    <3>4. pc'[r] \in {"calling", "failing", "done"}
      BY <1>2, <1>11 DEF BeginAttempt, StoreFails, Keep, Goto, Escape
    <3>5. Phase(r)' \in {"calling", "over"}
      BY <3>4 DEF Phase
    <3>6. QED
      BY <1>0, <3>1, <3>2, <3>3, <3>5, ContractCounts
  <2>2. CASE attempts'[r] = attempts[r]
    <3>1. /\ attempts[r] + 1 # attempts[r]
          /\ IncrementRunAttempt(r) => attempts'[r] = attempts[r] + 1
      BY <1>0 DEF IncrementRunAttempt, StoreTypeOK
    <3>2. emitted' = emitted /\ pc'[r] \in {"failing", "done"}
      BY <1>2, <1>11, <2>2, <3>1 DEF BeginAttempt, StoreFails, Keep, OnlyPc, Goto, Escape
    <3>3. Phase(r)' = "over"
      BY <3>2 DEF Phase
    <3>4. QED
      BY <1>3, <2>2, <3>2, <3>3
  <2>3. QED
    BY <2>1, <2>2, AttemptMoves DEF TaskAt
<1>12. QED
  BY <1>5, <1>6, <1>7, <1>8, <1>9, <1>10, <1>11 DEF TaskStep

\* So is a step of anybody else: it creates the task, loses it, or leaves it alone.
LEMMA ContractStep ==
    ASSUME Shape, [Next]_vars, AttemptsLeft
    PROVE  /\ AttemptsLeft'
           /\ \A r \in Runs : [Contract(r)!Next]_(Contract(r)!vars)
<1> USE DEF Shape
<1> SUFFICES ASSUME NEW r \in Runs
             PROVE  /\ [Contract(r)!Next]_(Contract(r)!vars)
                    /\ Phase(r)' = "waiting" => attempts'[r] < RetryLimit /\ ~ emitted'[r]
  BY DEF AttemptsLeft
<1>1. CASE TaskStep(r)
  BY <1>1, TaskKeepsContract
<1>2. CASE ~ TaskStep(r)
  <2>1. attempts'[r] = attempts[r] /\ emitted'[r] = emitted[r]
    BY <1>2, AttemptMoves, OthersKeepBuffers DEF TaskStep
  <2>2. \/ pc'[r] = pc[r]
        \/ pc[r] = "none" /\ pc'[r] = "created"
        \/ pc'[r] = "done"
    BY <1>2, TaskMoves DEF StartTask, CallAt, OwnTargets, TaskTypes
  <2>3. Phase(r)' = Phase(r) \/ Phase(r)' = "over"
    BY <2>2 DEF Phase
  <2>4. CASE Phase(r)' = Phase(r)
    BY <2>1, <2>4, ContractStutters DEF AttemptsLeft
  <2>5. CASE Phase(r)' = "over"
    BY <2>1, <2>5, ContractStops
  <2>6. QED
    BY <2>3, <2>4, <2>5
<1>3. QED
  BY <1>1, <1>2

\* Every run's task keeps the retry contract, through every outage, cancellation,
\* shutdown and crash: attempts are counted before the provider is called, within
\* the limit, and never after a delta.
THEOREM TasksKeepContract == Spec => KeepsAttemptContract
<1>1. Init => AttemptsLeft /\ \A r \in Runs : Contract(r)!Init
  BY RetryLimitIsPositive DEF Init, StoreInit, AttemptsLeft, Phase, Contract!Init
<1>2. Shape /\ AttemptsLeft /\ [Next]_vars =>
        AttemptsLeft' /\ [\A r \in Runs : [Contract(r)!Next]_(Contract(r)!vars)]_vars
  BY ContractStep
<1>3. QED
  BY <1>1, <1>2, ProcessesAreWellFormed, PTL DEF Spec, KeepsAttemptContract

-----------------------------------------------------------------------------
(* The history of a turn. *)

\* A run that counted no attempt is before its loop or a tool command, and the
\* history an active run was given is still the transcript of its session.
HistoryHolds ==
    \A r \in Runs :
        /\ pc[r] \in {"none", "created", "marking", "tool", "loading"} => attempts[r] = 0
        /\ /\ Active(r)
           /\ \/ pc[r] \in {"attempting", "calling", "persisting", "sleeping"}
              \/ pc[r] = "committing" /\ attempts[r] > 0
           => seen[r] = transcript[request[r].session]

\* Only the task's own commit completes a run.
LEMMA CompletionMoves ==
    ASSUME Shape, [Next]_vars, NEW r \in Runs, status'[r] = COMPLETED, status[r] # COMPLETED
    PROVE  CommitRunSuccess(r) /\ pc[r] = "committing"
<1> USE DEF Shape
<1>0. {PENDING, RUNNING, FAILED, CANCELLED, INTERRUPTED} \cap {COMPLETED} = {}
  BY DEF PENDING, RUNNING, COMPLETED, FAILED, CANCELLED, INTERRUPTED
<1>1. ASSUME NEW x \in Runs, NEW w, Finish(x, FAILED) \/ Finish(x, CANCELLED)
               \/ MarkRunRunning(x, w)
      PROVE  FALSE
  BY <1>0, <1>1 DEF Finish, MarkRunRunning, StoreTypeOK
<1>2. ASSUME UNCHANGED storeVars \/ UNCHANGED runVars
      PROVE  FALSE
  BY <1>2 DEF storeVars, runVars
<1>3. ASSUME NEW x \in Runs, CommitRunSuccess(x)
      PROVE  x = r
  BY <1>3 DEF CommitRunSuccess, Finish, StoreTypeOK
<1>4. ASSUME NEW x \in Runs, IncrementRunAttempt(x) \/ AppendStreamEvent(x, RESPONSE_DELTA)
      PROVE  FALSE
  BY <1>4 DEF IncrementRunAttempt, AppendStreamEvent, runVars
<1>5. ASSUME NEW x \in Runs, TaskStep(x)
      PROVE  CommitRunSuccess(r) /\ pc[r] = "committing"
  <2>1. CASE StoreFails(x)
    BY <1>1, <1>2, <1>3, <1>4, <2>1 DEF StoreFails, Transaction, FailRun
  <2>2. CASE Commit(x)
    BY <1>2, <1>3, <2>2 DEF Commit, TaskAt
  <2>3. QED
    BY <1>1, <1>2, <1>4, <1>5, <2>1, <2>2
    DEF TaskStep, Begin, Mark, RunTool, LoadHistory, BeginAttempt, ReceiveDelta, PersistDelta,
        ReceiveResponse, Retry, GiveUp, EscapeTimeout, Wake, Fail, EnsureCancelled,
        FinishTask, DeliverCancel, FailRun, CancelRun
<1>6. ASSUME NEW q \in Runs, CallMove(q)
      PROVE  FALSE
  <2>1. CASE q # r
    BY <1>2, <1>6, <2>1, CallsReserveOwnRows
  <2>2. ASSUME NEW s, NEW param, NEW k, NEW h, NEW w, ReserveRun(r, param, s, k, h, w)
        PROVE  FALSE
    BY <1>0, <2>2 DEF ReserveRun, StoreTypeOK
  <2>3. ASSUME NEW s, NEW k, NEW h, ReplayLeavingSession(s, k, h)
        PROVE  FALSE
    BY <1>2, <2>3 DEF ReplayLeavingSession, CreateSession
  <2>4. QED
    BY <1>2, <1>6, <2>1, <2>2, <2>3
    DEF CallMove, CallStep, AbandonCall, Reserve, ReserveUnacknowledged, StartTask, JoinRun,
        TaskAnswers, PollAnswers
<1>7. ASSUME NEW c \in Cancels, CancelMove(c)
      PROVE  FALSE
  <2>1. cancel[c].run \in Runs
    BY <1>7, CancelEffect DEF CallTypes
  <2>2. QED
    BY <1>1, <1>2, <1>7, <2>1
    DEF CancelMove, CancelStep, AbandonCancel, CancelDurably, SignalTask, GatherTask, CancelRun
<1>8. ASSUME MaintenanceStep \/ SessionStep
      PROVE  FALSE
  BY <1>0, <1>2, <1>8
  DEF MaintenanceStep, InterruptWorkerRuns, ReconcileOrphanedRuns, InterruptMatching,
      PruneStreamEvents, Tick, SessionStep, CreateSession, AppendMessage, ClearSession
<1>9. ASSUME NEW w \in Workers, WorkerStep(w)
      PROVE  FALSE
  BY <1>2, <1>8, <1>9, WorkerStoreStep
<1>10. CASE ClientStep \/ EditSession \/ (\E x \in Runs : Rollback(x)) \/ UNCHANGED vars
  BY <1>2, <1>8, <1>10
  DEF ClientStep, Submit, RequestCancel, EditSession, Rollback, vars
<1>11. QED
  BY <1>5, <1>6, <1>7, <1>9, <1>10 DEF Next, AbandonStep, CallMove, CancelMove

\* Where a task's step can come from that leaves it inside its turn.
LEMMA TurnMoves ==
    ASSUME Shape, [Next]_vars, NEW r \in Runs, TaskStep(r), ~ LoadHistory(r)
    PROVE  /\ seen' = seen
           /\ pc'[r] \in {"attempting", "calling", "persisting", "sleeping"} =>
                 pc[r] \in {"attempting", "calling", "persisting", "sleeping"}
           /\ pc'[r] = "committing" => pc[r] \in {"calling", "tool"}
           /\ pc'[r] \in {"none", "created", "marking", "tool", "loading"} =>
                 pc[r] \in {"none", "created", "marking", "tool", "loading"}
<1> USE DEF Shape
<1>1. ASSUME NEW at, pc' = [pc EXCEPT ![r] = at]
      PROVE  pc'[r] = at
  BY <1>1 DEF TaskTypes
<1>2. CASE Begin(r) \/ Mark(r) \/ RunTool(r) \/ BeginAttempt(r) \/ ReceiveDelta(r)
             \/ PersistDelta(r) \/ ReceiveResponse(r) \/ Retry(r) \/ GiveUp(r)
             \/ EscapeTimeout(r) \/ Wake(r)
  BY <1>1, <1>2
  DEF Begin, Mark, RunTool, BeginAttempt, ReceiveDelta, PersistDelta, ReceiveResponse, Retry,
      GiveUp, EscapeTimeout, Wake, TaskAt, Keep, OnlyPc, Goto
<1>3. CASE Commit(r) \/ Fail(r) \/ EnsureCancelled(r) \/ FinishTask(r) \/ DeliverCancel(r)
             \/ StoreFails(r)
  BY <1>1, <1>3
  DEF Commit, Fail, EnsureCancelled, FinishTask, DeliverCancel, StoreFails, Keep, OnlyPc,
      Goto, Escape
<1>4. QED
  BY <1>2, <1>3 DEF TaskStep

\* Nobody writes the transcript behind an active run's back, so what the task
\* loaded stays true until it commits.
LEMMA HistoryHoldsStep ==
    ASSUME Shape, OneActiveRunPerSession, [Next]_vars, HistoryHolds
    PROVE  HistoryHolds'
<1> USE DEF Shape
<1> SUFFICES ASSUME NEW r \in Runs
             PROVE  /\ pc'[r] \in {"none", "created", "marking", "tool", "loading"} =>
                          attempts'[r] = 0
                    /\ /\ Active(r)'
                       /\ \/ pc'[r] \in {"attempting", "calling", "persisting", "sleeping"}
                          \/ pc'[r] = "committing" /\ attempts'[r] > 0
                       => seen'[r] = transcript'[request'[r].session]
  BY DEF HistoryHolds
<1>1. pc'[r] = pc[r] \/ TaskStep(r) \/ (pc[r] = "none" /\ pc'[r] = "created") \/ pc'[r] = "done"
  BY TaskMoves DEF StartTask, CallAt, OwnTargets, TaskTypes
<1>2. LoadHistory(r) => /\ pc[r] = "loading" /\ pc'[r] = "attempting"
                        /\ seen'[r] = transcript[request[r].session]
  BY DEF LoadHistory, TaskAt, Goto, TaskTypes
<1>3. pc[r] # "attempting" => attempts'[r] = attempts[r]
  BY AttemptMoves DEF TaskAt
<1>4. ASSUME pc'[r] \in {"none", "created", "marking", "tool", "loading"}
      PROVE  attempts'[r] = 0
  <2>1. pc[r] \in {"none", "created", "marking", "tool", "loading"}
    BY <1>1, <1>2, <1>4, TurnMoves
  <2>2. QED
    BY <1>3, <2>1 DEF HistoryHolds
<1>5. ASSUME Active(r)',
             \/ pc'[r] \in {"attempting", "calling", "persisting", "sleeping"}
             \/ pc'[r] = "committing" /\ attempts'[r] > 0
      PROVE  seen'[r] = transcript'[request'[r].session]
  <2>1. pc[r] # "none"
    BY <1>1, <1>5, TaskHasBegun
  <2>2. status[r] # ABSENT
    BY <2>1 DEF OwnTargets
  <2>3. Active(r)
    <3>1. Active(r) \/ Terminal(r)
      BY <2>2 DEF Active, Terminal, StoreTypeOK, RunStatus
    <3>2. Terminal(r) => Terminal(r)'
      BY StoreSteps, FrozenStep DEF Terminal
    <3>3. ~ Terminal(r)'
      BY <1>5
      DEF Active, Terminal, ACTIVE_RUN_STATUSES, TERMINAL_RUN_STATUSES, PENDING, RUNNING,
          COMPLETED, FAILED, CANCELLED, INTERRUPTED
    <3>4. QED
      BY <3>1, <3>2, <3>3
  <2>4. status'[r] # COMPLETED
    BY <1>5 DEF Active, ACTIVE_RUN_STATUSES, PENDING, RUNNING, COMPLETED
  <2>5. request'[r] = request[r]
        /\ transcript'[request[r].session] = transcript[request[r].session]
    BY <2>2, <2>3, <2>4, RowsStay, StoreSteps, TranscriptStep
  <2>6. CASE LoadHistory(r)
    BY <1>2, <2>5, <2>6
  <2>7. CASE ~ LoadHistory(r)
    <3>1. seen'[r] = seen[r]
      BY <2>7, OthersKeepBuffers, TurnMoves
    <3>2. pc[r] # "tool" \/ pc'[r] # "committing"
      BY <1>3, <1>5 DEF HistoryHolds
    <3>3. \/ pc[r] \in {"attempting", "calling", "persisting", "sleeping"}
          \/ pc[r] = "committing" /\ attempts[r] > 0
      BY <1>1, <1>3, <1>5, <2>1, <2>7, <3>2, TurnMoves
    <3>4. QED
      BY <2>3, <2>5, <3>1, <3>3 DEF HistoryHolds
  <2>8. QED
    BY <2>6, <2>7
<1>6. QED
  BY <1>4, <1>5

\* The turn a provider's run adds to its session follows exactly the history the
\* provider was given: no message, clear or other turn comes between.
THEOREM TurnsFollowHistory == Spec => TurnFollowsItsHistory
<1>1. Init => HistoryHolds
  BY DEF Init, StoreInit, HistoryHolds
<1>2. Spec => []OneActiveRunPerSession
  BY SupervisorUsesStore, OneActiveRun, PTL
<1>3. ASSUME Shape, HistoryHolds, [Next]_vars, NEW r \in Runs,
             status'[r] = COMPLETED, status[r] # COMPLETED, attempts[r] > 0
      PROVE  transcript'[request[r].session] =
                 seen[r] \o <<[role |-> "user", run |-> r], [role |-> "assistant", run |-> r]>>
  <2>1. CommitRunSuccess(r) /\ pc[r] = "committing"
    BY <1>3, CompletionMoves
  <2>2. Active(r) /\ status[r] # ABSENT
    BY <2>1, TransitionsLeaveActive DEF CommitRunSuccess, Finish, Active
  <2>3. seen[r] = transcript[request[r].session]
    BY <1>3, <2>1, <2>2 DEF HistoryHolds
  <2>4. request[r].session \in Sessions /\ transcript \in [Sessions -> Seq(Message)]
    BY <1>3, <2>2 DEF Shape, RunsHaveSessions, StoreTypeOK
  <2>5. QED
    BY <2>1, <2>3, <2>4 DEF CommitRunSuccess
<1>4. Shape /\ HistoryHolds /\ [Next]_vars =>
        [\A r \in Runs :
            status'[r] = COMPLETED /\ status[r] # COMPLETED /\ attempts[r] > 0 =>
                transcript'[request[r].session] =
                    seen[r] \o <<[role |-> "user", run |-> r],
                                 [role |-> "assistant", run |-> r]>>]_vars
  BY <1>3
<1>5. QED
  BY <1>1, <1>2, <1>4, HistoryHoldsStep, ProcessesAreWellFormed, PTL
  DEF Spec, TurnFollowsItsHistory
=============================================================================
