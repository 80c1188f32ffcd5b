--------------------------- MODULE SupervisorProofs ---------------------------
(***************************************************************************)
(* The invariants of Supervisor for every number of workers, runs, cancel  *)
(* requests, sessions and keys, every bound and every choice of faults.    *)
(***************************************************************************)
EXTENDS Supervisor, RuntimeStoreProofs, FiniteSetTheorems

-----------------------------------------------------------------------------
(* Types. *)

CallType   == [pc : CallPc, worker : Workers \cup {NoRun}, param : Sessions \cup {NoSession},
               payload : Payloads \cup {NoRun}, key : Keys \cup {NoKey},
               target : Runs \cup {NoRun}, answer : Refusal \cup Result \cup {NoRun}]
CancelType == [pc : CancelPc, worker : Workers \cup {NoRun}, run : Runs \cup {NoRun}]
TaskPc     == {"none", "created", "done"} \cup TryBlock \cup Handler

\* TypeOK without the bound of the gauge, which takes the finiteness of Runs,
\* and with what the fields of a call hold once it has begun.
WorkerTypes ==
    /\ mode \in [Workers -> Mode]
    /\ draining \in [Workers -> SUBSET Runs]
    /\ gauge \in [Workers -> Nat]
    /\ lingering \subseteq Runs
TaskTypes ==
    /\ pc \in [Runs -> TaskPc]
    /\ seen \in [Runs -> Seq(Message)]
    /\ emitted \in [Runs -> BOOLEAN]
    /\ signal \in [Runs -> BOOLEAN]
    /\ result \in [Runs -> Result]
CallTypes ==
    /\ call \in [Runs -> CallType]
    /\ \A q \in Runs : call[q].pc # "idle" =>
          call[q].worker \in Workers /\ call[q].payload \in Payloads
    /\ cancel \in [Cancels -> CancelType]
    /\ \A c \in Cancels : cancel[c].pc # "idle" =>
          cancel[c].worker \in Workers /\ cancel[c].run \in Runs

\* A run has a task only once its own call has reserved it, and then the call
\* waits for that task or has been answered.
OwnTargets ==
    \A q \in Runs :
        /\ call[q].pc \in {"reserved", "replayed", "awaiting", "polling"} =>
              call[q].target \in Runs
        /\ call[q].pc = "reserved" =>
              call[q].target = q /\ pc[q] = "none" /\ status[q] # ABSENT
        /\ pc[q] # "none" =>
              /\ call[q].pc \in {"awaiting", "answered"}
              /\ call[q].target = q
              /\ status[q] # ABSENT

\* A row carries the worker and the request of the call that reserved it.
OwnRows ==
    \A q \in Runs : status[q] # ABSENT =>
        /\ call[q].pc \notin {"idle", "reserving"}
        /\ owner[q] = call[q].worker
        /\ request[q].key = call[q].key
        /\ request[q].hash = RequestHash(call[q].payload, call[q].param)

\* The steps of a call and of a cancel request, with the one by which its client
\* gives it up.
CallMove(q)   == CallStep(q) \/ AbandonCall(q)
CancelMove(c) == CancelStep(c) \/ AbandonCancel(c)

Shape ==
    /\ StoreTypeOK /\ RunsHaveSessions
    /\ WorkerTypes /\ TaskTypes /\ CallTypes
    /\ OwnTargets /\ OwnRows

\* A run with a task has a worker.
LEMMA TasksHaveWorkers ==
    ASSUME CallTypes, OwnTargets, NEW r \in Runs, pc[r] # "none"
    PROVE  WorkerOf(r) \in Workers
<1>1. call[r].pc # "idle"
  BY DEF OwnTargets
<1>2. QED
  BY <1>1 DEF CallTypes, WorkerOf

\* The request hash of a submitted call is one the store knows.
LEMMA HashType ==
    ASSUME NEW payload \in Payloads, NEW param \in Sessions \cup {NoSession}
    PROVE  RequestHash(payload, param) \in Hashes
BY HashesCoverRequests DEF RequestHash

-----------------------------------------------------------------------------
(* Every step is a transaction of the store or leaves it alone. *)

\* reserve_run as a call makes it.
LEMMA CallReserves ==
    ASSUME CallTypes, NEW q \in Runs, call[q].pc = "reserving", NEW s \in Sessions,
           ReserveRun(q, call[q].param, s, call[q].key,
                      RequestHash(call[q].payload, call[q].param), call[q].worker)
    PROVE  StoreNext
<1>1. /\ call[q].param \in Sessions \cup {NoSession} /\ call[q].key \in Keys \cup {NoKey}
      /\ call[q].worker \in Workers /\ call[q].payload \in Payloads
  BY DEF CallTypes, CallType
<1>2. call[q].param \in {NoSession, s}
  BY DEF ReserveRun, Resolves
<1>3. RequestHash(call[q].payload, call[q].param) \in Hashes
  BY <1>1, HashType
<1>4. ReservationStep
  BY <1>1, <1>2, <1>3 DEF ReservationStep
<1>5. QED
  BY <1>4 DEF StoreNext

\* The replay that leaves a session behind, as a call makes it.
LEMMA CallReplays ==
    ASSUME CallTypes, NEW q \in Runs, call[q].pc = "reserving", NEW s \in Sessions,
           ReplayLeavingSession(s, call[q].key, RequestHash(call[q].payload, call[q].param))
    PROVE  StoreNext
<1>1. /\ call[q].param \in Sessions \cup {NoSession} /\ call[q].key \in Keys \cup {NoKey}
      /\ call[q].payload \in Payloads
  BY DEF CallTypes, CallType
<1>2. RequestHash(call[q].payload, call[q].param) \in Hashes
  BY <1>1, HashType
<1>3. ReservationStep
  BY <1>1, <1>2 DEF ReservationStep
<1>4. QED
  BY <1>3 DEF StoreNext

\* A client call reserves, replays or leaves the store alone.
LEMMA CallStoreStep ==
    ASSUME CallTypes, NEW q \in Runs, CallMove(q)
    PROVE  [StoreNext]_storeVars
<1>1. CASE Reserve(q)
  BY <1>1, CallReserves, CallReplays DEF Reserve, CallAt
<1>2. CASE ReserveUnacknowledged(q)
  BY <1>2, CallReserves DEF ReserveUnacknowledged, CallAt
<1>3. QED
  BY <1>1, <1>2
  DEF CallMove, CallStep, AbandonCall, StartTask, JoinRun, TaskAnswers, PollAnswers

\* A task's transaction is one of the run's.
LEMMA TransactionIsRunStep ==
    ASSUME NEW r \in Runs, WorkerOf(r) \in Workers, Transaction(r)
    PROVE  RunStep
BY DEF Transaction, RunStep

\* A task moves its run along or leaves the store alone.
LEMMA TaskStoreStep ==
    ASSUME NEW r \in Runs, WorkerOf(r) \in Workers, TaskStep(r)
    PROVE  RunStep \/ UNCHANGED storeVars
<1>1. CASE Mark(r) \/ BeginAttempt(r) \/ PersistDelta(r) \/ EscapeTimeout(r)
  BY <1>1 DEF Mark, BeginAttempt, PersistDelta, EscapeTimeout, RunStep
<1>2. CASE Commit(r) \/ Fail(r) \/ EnsureCancelled(r)
  BY <1>2 DEF Commit, Fail, EnsureCancelled, RunStep
<1>3. CASE StoreFails(r)
  BY <1>3, TransactionIsRunStep DEF StoreFails
<1>4. QED
  BY <1>1, <1>2, <1>3
  DEF TaskStep, Begin, RunTool, LoadHistory, ReceiveDelta, ReceiveResponse, Retry, GiveUp,
      Wake, FinishTask, DeliverCancel

\* A task that takes a step has begun.
LEMMA TaskHasBegun ==
    ASSUME NEW r \in Runs, TaskStep(r)
    PROVE  pc[r] # "none" /\ pc[r] # "done"
BY DEF TaskStep, Begin, Mark, RunTool, LoadHistory, BeginAttempt, ReceiveDelta, PersistDelta,
       ReceiveResponse, Retry, GiveUp, EscapeTimeout, Wake, Commit, Fail, EnsureCancelled,
       FinishTask, DeliverCancel, StoreFails, TaskAt, TryBlock, Handler

\* cancel() cancels the run it was given or leaves the store alone.
LEMMA CancelStoreStep ==
    ASSUME CallTypes, NEW c \in Cancels, CancelMove(c)
    PROVE  RunStep \/ UNCHANGED storeVars
<1>1. ASSUME CancelDurably(c)
      PROVE  RunStep \/ UNCHANGED storeVars
  <2>1. cancel[c].worker \in Workers /\ cancel[c].run \in Runs
    BY <1>1 DEF CancelDurably, CancelAt, CallTypes
  <2>2. QED
    BY <1>1, <2>1 DEF CancelDurably, RunStep
<1>2. QED
  BY <1>1 DEF CancelMove, CancelStep, AbandonCancel, SignalTask, GatherTask

\* A worker's start-up and shutdown interrupt and prune.
LEMMA WorkerStoreStep ==
    ASSUME WorkerTypes, TaskTypes, CallTypes, NEW w \in Workers, WorkerStep(w)
    PROVE  MaintenanceStep \/ UNCHANGED storeVars
<1>1. LockableRows \subseteq Runs
  BY DEF LockableRows, WorkerTypes, CallTypes, CancelAt, KeyHolders
<1>2. QED
  BY <1>1
  DEF WorkerStep, Start, Reconcile, Prune, BeginShutdown, ShutdownStep, InterruptOwned,
      CancelTasks, EndShutdown, Crash, MaintenanceStep

\* The processes work on the tables only by the transactions of RuntimeStore,
\* so whatever those keep invariant holds under the supervisor.
LEMMA StoreSteps ==
    Shape /\ [Next]_vars => [StoreNext]_storeVars
<1> SUFFICES ASSUME Shape, [Next]_vars
             PROVE  [StoreNext]_storeVars
  OBVIOUS
<1> USE DEF Shape
<1>1. CASE ClientStep
  BY <1>1 DEF ClientStep, Submit, RequestCancel
<1>2. CASE EditSession
  BY <1>2 DEF EditSession, StoreNext
<1>3. ASSUME NEW r \in Runs, TaskStep(r)
      PROVE  [StoreNext]_storeVars
  <2>1. WorkerOf(r) \in Workers
    BY <1>3, TaskHasBegun, TasksHaveWorkers
  <2>2. QED
    BY <1>3, <2>1, TaskStoreStep DEF StoreNext
<1>4. ASSUME NEW q \in Runs, CallMove(q)
      PROVE  [StoreNext]_storeVars
  BY <1>4, CallStoreStep
<1>5. ASSUME NEW r \in Runs, Rollback(r)
      PROVE  [StoreNext]_storeVars
  BY <1>5 DEF Rollback
<1>6. ASSUME NEW c \in Cancels, CancelMove(c)
      PROVE  [StoreNext]_storeVars
  BY <1>6, CancelStoreStep DEF StoreNext
<1>7. ASSUME NEW w \in Workers, WorkerStep(w)
      PROVE  [StoreNext]_storeVars
  BY <1>7, WorkerStoreStep DEF StoreNext
<1>8. CASE UNCHANGED vars
  BY <1>8 DEF vars
<1>9. QED
  BY <1>1, <1>2, <1>3, <1>4, <1>5, <1>6, <1>7, <1>8 DEF Next, AbandonStep, CallMove, CancelMove

-----------------------------------------------------------------------------
(* What a client call does to its own row. *)

\* A call keeps its request while it moves: no step takes a call back or lets it
\* answer for another request.
SameRequest(q) ==
    /\ call'[q].worker = call[q].worker
    /\ call'[q].param = call[q].param
    /\ call'[q].payload = call[q].payload
    /\ call'[q].key = call[q].key

\* A call that is answered has the type of a call.
LEMMA AnswerEffect ==
    ASSUME call \in [Runs -> CallType], NEW q \in Runs, NEW a \in Refusal \cup Result,
           Answer(q, a)
    PROVE  /\ call' \in [Runs -> CallType]
           /\ call'[q].pc = "answered" /\ call'[q].answer = a
           /\ call'[q].target = call[q].target
           /\ SameRequest(q)
           /\ \A p \in Runs \ {q} : call'[p] = call[p]
BY ZenonT(60) DEF Answer, CallType, CallPc, SameRequest

\* So has one that moves without an answer.
LEMMA MoveEffect ==
    ASSUME call \in [Runs -> CallType], NEW q \in Runs, NEW at \in CallPc, NEW t \in Runs \cup {NoRun},
           call' = [call EXCEPT ![q].pc = at, ![q].target = t]
    PROVE  /\ call' \in [Runs -> CallType]
           /\ call'[q].pc = at /\ call'[q].answer = call[q].answer
           /\ call'[q].target = t
           /\ SameRequest(q)
           /\ \A p \in Runs \ {q} : call'[p] = call[p]
BY ZenonT(60) DEF CallType, SameRequest

\* And one that moves and keeps its target.
LEMMA StayEffect ==
    ASSUME call \in [Runs -> CallType], NEW q \in Runs, NEW at \in CallPc,
           call' = [call EXCEPT ![q].pc = at]
    PROVE  /\ call' \in [Runs -> CallType]
           /\ call'[q].pc = at /\ call'[q].answer = call[q].answer
           /\ call'[q].target = call[q].target
           /\ SameRequest(q)
           /\ \A p \in Runs \ {q} : call'[p] = call[p]
BY DEF CallType, SameRequest

\* The branches of a call, by where they lead.
CallEffect(q) ==
    /\ call' \in [Runs -> CallType]
    /\ SameRequest(q)
    /\ \A p \in Runs \ {q} : call'[p] = call[p]
    /\ call[q].pc # "idle" /\ Running(call[q].worker)
    /\ \/ /\ call[q].pc = "reserving" /\ call'[q].pc = "reserved"
          /\ call'[q].target = q /\ call'[q].answer = call[q].answer
          /\ status[q] = ABSENT /\ status'[q] # ABSENT
          /\ pc' = pc
       \/ \E r \in Runs :
            /\ call[q].pc = "reserving" /\ call'[q].pc = "replayed"
            /\ call'[q].target = r /\ call'[q].answer = call[q].answer
            /\ Replays(call[q].key, RequestHash(call[q].payload, call[q].param), r)
            /\ pc' = pc
       \/ /\ call[q].pc = "reserving" /\ call'[q].pc = "answered"
          /\ call'[q].target = call[q].target
          /\ call'[q].answer \in {"conflict", "not_found", "busy", "unavailable"}
          /\ pc' = pc
       \/ /\ call[q].pc = "reserved" /\ call'[q].pc \in {"awaiting", "answered"}
          /\ call'[q].target = call[q].target
          /\ call'[q].answer \in {call[q].answer, "accepted"}
          /\ pc' = [pc EXCEPT ![q] = "created"]
       \/ /\ call[q].pc = "replayed" /\ call'[q].pc \in {"awaiting", "polling", "answered"}
          /\ call'[q].target = call[q].target
          /\ call'[q].answer \in {call[q].answer, "accepted"}
          /\ pc' = pc
       \/ /\ call[q].pc \in {"awaiting", "polling"} /\ call'[q].pc = "answered"
          /\ call'[q].target = call[q].target
          /\ \/ /\ call[q].pc = "awaiting" /\ pc[call[q].target] = "done"
                /\ call'[q].answer = result[call[q].target]
             \/ /\ call[q].pc = "polling"
                /\ Terminal(call[q].target) /\ call'[q].answer = status[call[q].target]
             \/ call'[q].answer = "unavailable"
          /\ pc' = pc
       \/ /\ call[q].pc # "answered" /\ call'[q].pc = "answered"
          /\ call'[q].target = call[q].target
          /\ call'[q].answer = "abandoned"
          /\ pc' = pc

\* reserve_run and its outcomes.
LEMMA ReserveEffect ==
    ASSUME Shape, NEW q \in Runs, Reserve(q) \/ ReserveUnacknowledged(q)
    PROVE  CallEffect(q)
<1> USE DEF Shape, CallTypes
<1>0. {"conflict", "not_found", "busy", "unavailable"} \subseteq Refusal \cup Result
  BY DEF Refusal
<1>1. call[q].pc = "reserving" /\ Running(call[q].worker) /\ pc' = pc
  BY DEF Reserve, ReserveUnacknowledged, CallAt, taskVars
<1>2. {"reserved", "replayed"} \subseteq CallPc
  BY DEF CallPc
<1>3. ASSUME NEW s \in Sessions, NEW param, NEW k, NEW h, NEW w,
             ReserveRun(q, param, s, k, h, w)
      PROVE  status[q] = ABSENT /\ status'[q] # ABSENT
  BY <1>3 DEF ReserveRun, StoreTypeOK, ABSENT, PENDING
<1>4. ASSUME NEW s \in Sessions, NEW param, NEW k, NEW h, NEW w,
             ReserveRun(q, param, s, k, h, w),
             call' = [call EXCEPT ![q].pc = "reserved", ![q].target = q]
      PROVE  CallEffect(q)
  BY <1>1, <1>2, <1>3, <1>4, MoveEffect, ZenonT(60) DEF CallEffect
<1>5. ASSUME NEW r \in Runs, Replays(call[q].key, RequestHash(call[q].payload, call[q].param), r),
             call' = [call EXCEPT ![q].pc = "replayed", ![q].target = r]
      PROVE  CallEffect(q)
  BY <1>1, <1>2, <1>5, MoveEffect, ZenonT(60) DEF CallEffect
<1>6. ASSUME NEW a \in {"conflict", "not_found", "busy", "unavailable"}, Answer(q, a)
      PROVE  CallEffect(q)
  BY <1>0, <1>1, <1>6, AnswerEffect DEF CallEffect
<1>7. QED
  BY <1>4, <1>5, <1>6 DEF Reserve, ReserveUnacknowledged

\* The steps after it.
LEMMA CallsTakeEffect ==
    ASSUME Shape, NEW q \in Runs, CallMove(q)
    PROVE  CallEffect(q)
<1> USE DEF Shape, CallTypes
<1>0. /\ {"accepted", "unavailable", "abandoned"} \subseteq Refusal \cup Result
      /\ {"awaiting", "polling"} \subseteq CallPc
  BY DEF Refusal, CallPc
<1>1. CASE StartTask(q)
  <2>1. call[q].pc = "reserved" /\ Running(call[q].worker) /\ pc' = [pc EXCEPT ![q] = "created"]
    BY <1>1 DEF StartTask, CallAt
  <2>2. CASE call' = [call EXCEPT ![q].pc = "awaiting"]
    BY <1>0, <2>1, <2>2, StayEffect, ZenonT(60) DEF CallEffect
  <2>3. CASE Answer(q, "accepted")
    BY <1>0, <2>1, <2>3, AnswerEffect DEF CallEffect
  <2>4. QED
    BY <1>1, <2>2, <2>3 DEF StartTask
<1>2. CASE JoinRun(q)
  <2>1. call[q].pc = "replayed" /\ Running(call[q].worker) /\ pc' = pc
    BY <1>2 DEF JoinRun, CallAt, taskVars
  <2>2. ASSUME NEW at \in {"awaiting", "polling"}, call' = [call EXCEPT ![q].pc = at]
        PROVE  CallEffect(q)
    BY <1>0, <2>1, <2>2, StayEffect DEF CallEffect
  <2>3. CASE Answer(q, "accepted")
    BY <1>0, <2>1, <2>3, AnswerEffect DEF CallEffect
  <2>4. QED
    BY <1>2, <2>2, <2>3 DEF JoinRun
<1>3. CASE TaskAnswers(q)
  <2>1. /\ call[q].pc = "awaiting" /\ Running(call[q].worker) /\ pc' = pc
        /\ pc[call[q].target] = "done"
        /\ Answer(q, result[call[q].target])
    BY <1>3 DEF TaskAnswers, CallAt, taskVars
  <2>2. result[call[q].target] \in Result
    BY <2>1 DEF OwnTargets, TaskTypes
  <2>3. QED
    BY <2>1, <2>2, AnswerEffect DEF CallEffect
<1>4. CASE PollAnswers(q)
  <2>1. call[q].pc = "polling" /\ Running(call[q].worker) /\ pc' = pc
    BY <1>4 DEF PollAnswers, CallAt, taskVars
  <2>2. CASE Terminal(call[q].target) /\ Answer(q, status[call[q].target])
    <3>1. status[call[q].target] \in Refusal \cup Result
      BY <2>2 DEF Terminal, Result
    <3>2. QED
      BY <2>1, <2>2, <3>1, AnswerEffect DEF CallEffect
  <2>3. CASE Answer(q, "unavailable")
    BY <1>0, <2>1, <2>3, AnswerEffect DEF CallEffect
  <2>4. QED
    BY <1>4, <2>2, <2>3 DEF PollAnswers
<1>5. CASE AbandonCall(q)
  <2>1. /\ call[q].pc \notin {"idle", "answered"} /\ Running(call[q].worker)
        /\ pc' = pc /\ Answer(q, "abandoned")
    BY <1>5 DEF AbandonCall, taskVars
  <2>2. QED
    BY <1>0, <2>1, AnswerEffect DEF CallEffect
<1>6. QED
  BY <1>1, <1>2, <1>3, <1>4, <1>5, ReserveEffect DEF CallMove, CallStep

-----------------------------------------------------------------------------
(* What a task, a cancel request and a worker do to the volatile state. *)

\* A step of one task moves that task, and no other variable of the processes
\* but the gauge.
LEMMA TaskEffect ==
    ASSUME Shape, NEW r \in Runs, TaskStep(r)
    PROVE  /\ TaskTypes'
           /\ gauge' = gauge \/ gauge' = [gauge EXCEPT ![WorkerOf(r)] = IF @ = 0 THEN 0 ELSE @ - 1]
           /\ UNCHANGED <<mode, draining, lingering, call, cancel>>
           /\ pc[r] \notin {"none", "done"} /\ pc'[r] \notin {"none", "created"}
           /\ \A x \in Runs \ {r} : /\ pc'[x] = pc[x] /\ seen'[x] = seen[x]
                                    /\ emitted'[x] = emitted[x] /\ signal'[x] = signal[x]
                                    /\ result'[x] = result[x]
<1> USE DEF TaskTypes, Shape
<1>1. pc[r] # "none" /\ pc[r] # "done"
  BY TaskHasBegun
<1>2. ASSUME NEW at \in TaskPc \ {"none", "created"}, Keep(r, at)
      PROVE  /\ TaskTypes' /\ UNCHANGED <<gauge, mode, draining, lingering, call, cancel>>
             /\ pc'[r] \notin {"none", "created"}
             /\ \A x \in Runs \ {r} : /\ pc'[x] = pc[x] /\ seen'[x] = seen[x]
                                      /\ emitted'[x] = emitted[x] /\ signal'[x] = signal[x]
                                      /\ result'[x] = result[x]
  BY <1>2 DEF Keep, Goto, OnlyPc, workerVars, TaskPc
<1>3. TryBlock \cup Handler \subseteq TaskPc \ {"none", "created"}
  BY DEF TaskPc, TryBlock, Handler
<1>4. CASE Begin(r) \/ Mark(r) \/ RunTool(r) \/ PersistDelta(r) \/ ReceiveResponse(r)
             \/ Retry(r) \/ GiveUp(r) \/ EscapeTimeout(r) \/ Wake(r) \/ Commit(r) \/ Fail(r)
             \/ EnsureCancelled(r)
  <2>1. \E at \in TryBlock \cup Handler : Keep(r, at)
    BY <1>4 DEF Begin, Mark, RunTool, PersistDelta, ReceiveResponse, Retry, GiveUp,
       EscapeTimeout, Wake, Commit, Fail, EnsureCancelled, TryBlock, Handler
  <2>2. QED
    BY <1>1, <1>2, <1>3, <2>1
<1>5. CASE LoadHistory(r)
  <2>1. request[r].session \in Sessions
    BY <1>1 DEF OwnTargets, RunsHaveSessions
  <2>2. transcript[request[r].session] \in Seq(Message)
    BY <2>1 DEF StoreTypeOK
  <2>3. QED
    BY <1>1, <1>5, <2>2 DEF LoadHistory, Goto, workerVars, TaskPc, TryBlock
<1>6. CASE BeginAttempt(r) \/ ReceiveDelta(r)
  <2>1. ASSUME NEW b \in BOOLEAN, NEW at \in TryBlock,
               emitted' = [emitted EXCEPT ![r] = b], Goto(r, at),
               UNCHANGED <<workerVars, seen, signal, result, call, cancel>>
        PROVE  /\ TaskTypes' /\ UNCHANGED <<gauge, mode, draining, lingering, call, cancel>>
               /\ pc'[r] \notin {"none", "created"}
               /\ \A x \in Runs \ {r} : /\ pc'[x] = pc[x] /\ seen'[x] = seen[x]
                                        /\ emitted'[x] = emitted[x] /\ signal'[x] = signal[x]
                                        /\ result'[x] = result[x]
    BY <2>1, <1>3 DEF Goto, workerVars
  <2>2. CASE Keep(r, "failing")
    BY <1>1, <1>2, <1>3, <2>2 DEF Handler
  <2>3. QED
    BY <1>1, <1>6, <2>1, <2>2 DEF BeginAttempt, ReceiveDelta, TryBlock
<1>7. ASSUME NEW how \in Result, Escape(r, how), UNCHANGED <<seen, emitted>>,
             signal' = signal \/ signal' = [signal EXCEPT ![r] = FALSE]
      PROVE  /\ TaskTypes'
             /\ pc'[r] \notin {"none", "created"}
             /\ \A x \in Runs \ {r} : /\ pc'[x] = pc[x] /\ seen'[x] = seen[x]
                                      /\ emitted'[x] = emitted[x] /\ signal'[x] = signal[x]
                                      /\ result'[x] = result[x]
  BY <1>7 DEF Escape, Goto, TaskPc
<1>8. {COMPLETED, FAILED, CANCELLED} \subseteq Result
  BY DEF Result, TERMINAL_RUN_STATUSES
<1>9. CASE FinishTask(r)
  <2>1. PICK at \in {"committed", "failed", "cancelled"} :
           TaskAt(r, at) /\ result' = [result EXCEPT ![r] = Outcome(at)]
    BY <1>9 DEF FinishTask
  <2>2. Outcome(at) \in Result
    BY <1>8 DEF Outcome
  <2>3. Escape(r, Outcome(at))
    BY <1>9, <2>1 DEF FinishTask, Escape
  <2>4. QED
    BY <1>1, <1>7, <1>9, <2>2, <2>3 DEF FinishTask
<1>10. CASE DeliverCancel(r)
  <2>1. CASE Goto(r, "cancelling") /\ UNCHANGED result
    BY <1>1, <1>10, <2>1 DEF DeliverCancel, Goto, workerVars, TaskPc, Handler
  <2>2. CASE Escape(r, CANCELLED)
    BY <1>1, <1>7, <1>8, <1>10, <2>2 DEF DeliverCancel, workerVars
  <2>3. QED
    BY <1>10, <2>1, <2>2 DEF DeliverCancel
<1>11. CASE StoreFails(r)
  <2>1. CASE Keep(r, "failing")
    BY <1>1, <1>2, <1>3, <2>1 DEF Handler
  <2>2. CASE Escape(r, FAILED) /\ UNCHANGED <<workerVars, seen, emitted, signal, call, cancel>>
    BY <1>1, <1>7, <1>8, <2>2 DEF workerVars
  <2>3. QED
    BY <1>11, <2>1, <2>2 DEF StoreFails
<1>12. QED
  BY <1>4, <1>5, <1>6, <1>9, <1>10, <1>11 DEF TaskStep

\* A step of cancel() moves its own request and at most the signal of its run.
LEMMA CancelEffect ==
    ASSUME Shape, NEW c \in Cancels, CancelMove(c)
    PROVE  /\ UNCHANGED <<workerVars, pc, seen, emitted, result, call>>
           /\ \/ signal' = signal
              \/ \E b \in BOOLEAN : signal' = [signal EXCEPT ![cancel[c].run] = b]
           /\ cancel' \in [Cancels -> CancelType]
           /\ cancel[c].pc # "idle" /\ cancel'[c].pc # "idle"
           /\ cancel'[c].worker = cancel[c].worker /\ cancel'[c].run = cancel[c].run
           /\ \A d \in Cancels \ {c} : cancel'[d] = cancel[d]
<1>1. ASSUME NEW at \in CancelPc \ {"idle"}, cancel' = [cancel EXCEPT ![c].pc = at]
      PROVE  /\ cancel' \in [Cancels -> CancelType] /\ cancel'[c].pc = at
             /\ cancel'[c].worker = cancel[c].worker /\ cancel'[c].run = cancel[c].run
             /\ \A d \in Cancels \ {c} : cancel'[d] = cancel[d]
  BY <1>1 DEF Shape, CallTypes, CancelType
<1>2. {"signalling", "unsignalled", "gathering", "returned", "abandoned"}
         \subseteq CancelPc \ {"idle"}
  BY DEF CancelPc
<1>3. CASE CancelDurably(c)
  BY <1>1, <1>2, <1>3 DEF CancelDurably, CancelAt, taskVars
<1>4. CASE SignalTask(c)
  BY <1>1, <1>2, <1>4 DEF SignalTask, CancelAt, workerVars
<1>5. CASE GatherTask(c)
  BY <1>1, <1>2, <1>5 DEF GatherTask, CancelAt, taskVars
<1>6. CASE AbandonCancel(c)
  <2>1. Live(cancel[c].run) \in BOOLEAN
    BY DEF Live
  <2>2. \/ signal' = signal
        \/ \E b \in BOOLEAN : signal' = [signal EXCEPT ![cancel[c].run] = b]
    BY <1>6, <2>1 DEF AbandonCancel
  <2>3. cancel[c].pc # "idle" /\ cancel' = [cancel EXCEPT ![c].pc = "abandoned"]
    BY <1>6 DEF AbandonCancel, CancelAt
  <2>4. QED
    BY <1>1, <1>2, <1>6, <2>2, <2>3 DEF AbandonCancel
<1>7. QED
  BY <1>3, <1>4, <1>5, <1>6 DEF CancelMove, CancelStep

\* A worker's step moves its mode; a crash ends its tasks, a shutdown signals
\* them, and no other task is touched.
LEMMA WorkerEffect ==
    ASSUME Shape, NEW w \in Workers, WorkerStep(w)
    PROVE  /\ WorkerTypes' /\ TaskTypes'
           /\ UNCHANGED <<seen, emitted, call, cancel>>
           /\ \A v \in Workers \ {w} : mode'[v] = mode[v] /\ gauge'[v] = gauge[v]
           /\ \A r \in Runs :
                \/ pc'[r] = pc[r] /\ result'[r] = result[r]
                \/ /\ r \in LocalTasks(w) /\ pc'[r] = "done" /\ result'[r] = "lost"
                   /\ mode'[w] = "crashed"
<1> USE DEF Shape, WorkerTypes, TaskTypes
<1>1. ASSUME NEW from, NEW to \in Mode, Move(w, from, to)
      PROVE  mode' \in [Workers -> Mode] /\ \A v \in Workers \ {w} : mode'[v] = mode[v]
  BY <1>1 DEF Move
<1>2. Mode = {"off", "starting", "pruning", "serving", "closing", "interrupted", "draining",
              "stopped", "crashed"}
  BY DEF Mode
<1>3. CASE Start(w) \/ Reconcile(w) \/ Prune(w) \/ BeginShutdown(w) \/ InterruptOwned(w)
             \/ EndShutdown(w)
  <2>1. OnlyMode /\ \E from, to \in Mode : Move(w, from, to)
    BY <1>2, <1>3 DEF Start, Reconcile, Prune, BeginShutdown, InterruptOwned, EndShutdown
  <2>2. QED
    BY <1>1, <2>1 DEF OnlyMode, taskVars
<1>4. CASE CancelTasks(w)
  <2>1. LocalTasks(w) \subseteq Runs
    BY DEF LocalTasks
  <2>2. QED
    BY <1>1, <1>2, <1>4, <2>1 DEF CancelTasks
<1>5. CASE Crash(w)
  <2>1. mode' = [mode EXCEPT ![w] = "crashed"] /\ gauge' = [gauge EXCEPT ![w] = 0]
    BY <1>5 DEF Crash
  <2>2. lingering' \subseteq Runs
    BY <1>5 DEF Crash, LocalTasks
  <2>3. /\ pc' = [r \in Runs |-> IF r \in LocalTasks(w) THEN "done" ELSE pc[r]]
        /\ result' = [r \in Runs |-> IF r \in LocalTasks(w) THEN "lost" ELSE result[r]]
        /\ signal' = [r \in Runs |-> signal[r] /\ r \notin LocalTasks(w)]
        /\ UNCHANGED <<draining, seen, emitted, call, cancel>>
    BY <1>5 DEF Crash
  <2>4. WorkerTypes' /\ \A v \in Workers \ {w} : mode'[v] = mode[v] /\ gauge'[v] = gauge[v]
    BY <1>2, <2>1, <2>2, <2>3
  <2>5. TaskTypes'
    BY <2>3 DEF TaskPc, Result
  <2>6. QED
    BY <2>1, <2>3, <2>4, <2>5
<1>6. QED
  BY <1>3, <1>4, <1>5 DEF WorkerStep, ShutdownStep

-----------------------------------------------------------------------------
(* Who writes the row of a run. *)

\* No transaction but a reservation gives an identifier its row.
LEMMA OtherStepsMoveOn ==
    ASSUME StoreTypeOK, RunStep \/ MaintenanceStep \/ SessionStep \/ UNCHANGED storeVars
    PROVE  RowsMoveOn
<1>1. ASSUME UNCHANGED <<status, request>>
      PROVE  RowsMoveOn
  BY <1>1 DEF RowsMoveOn
<1>2. CASE SessionStep
  BY <1>1, <1>2 DEF SessionStep, CreateSession, AppendMessage, ClearSession, runVars
<1>3. ASSUME NEW r \in Runs, NEW w \in Workers, MarkRunRunning(r, w)
      PROVE  RowsMoveOn
  BY <1>3 DEF MarkRunRunning, RowsMoveOn, StoreTypeOK
<1>4. ASSUME NEW r \in Runs, NEW w,
             CancelRun(r, w) \/ CommitRunSuccess(r) \/ FailRun(r)
      PROVE  RowsMoveOn
  BY <1>4, FinishMovesOn DEF CancelRun, CommitRunSuccess, FailRun
<1>5. CASE RunStep
  BY <1>1, <1>3, <1>4, <1>5 DEF RunStep, IncrementRunAttempt, AppendStreamEvent, runVars
<1>6. CASE MaintenanceStep
  BY <1>1, <1>6, InterruptMovesOn
  DEF MaintenanceStep, InterruptWorkerRuns, ReconcileOrphanedRuns, PruneStreamEvents, Tick,
      runVars
<1>7. CASE UNCHANGED storeVars
  BY <1>1, <1>7 DEF storeVars, runVars
<1>8. QED
  BY <1>2, <1>5, <1>6, <1>7

\* So only a client call can.
LEMMA OnlyCallsReserve ==
    ASSUME Shape, [Next]_vars, ~ \E q \in Runs : CallMove(q)
    PROVE  RowsMoveOn
<1> USE DEF Shape
<1>1. CASE ClientStep \/ EditSession \/ (\E r \in Runs : Rollback(r)) \/ UNCHANGED vars
  BY <1>1, OtherStepsMoveOn
  DEF ClientStep, Submit, RequestCancel, EditSession, Rollback, vars
<1>2. ASSUME NEW r \in Runs, TaskStep(r)
      PROVE  RowsMoveOn
  BY <1>2, TaskHasBegun, TasksHaveWorkers, TaskStoreStep, OtherStepsMoveOn
<1>3. ASSUME NEW c \in Cancels, CancelMove(c)
      PROVE  RowsMoveOn
  BY <1>3, CancelStoreStep, OtherStepsMoveOn
<1>4. ASSUME NEW w \in Workers, WorkerStep(w)
      PROVE  RowsMoveOn
  BY <1>4, WorkerStoreStep, OtherStepsMoveOn
<1>5. QED
  BY <1>1, <1>2, <1>3, <1>4 DEF Next, AbandonStep, CallMove, CancelMove

\* And then only the row of its own name, with its own request.
LEMMA CallsReserveOwnRows ==
    ASSUME Shape, NEW q \in Runs, CallMove(q)
    PROVE  \/ UNCHANGED runVars
           \/ /\ status[q] = ABSENT
              /\ \A r \in Runs \ {q} : /\ status'[r] = status[r] /\ request'[r] = request[r]
                                       /\ owner'[r] = owner[r]
              /\ owner'[q] = call[q].worker
              /\ request'[q].key = call[q].key
              /\ request'[q].hash = RequestHash(call[q].payload, call[q].param)
              /\ call[q].pc = "reserving" /\ call'[q].pc \in {"reserved", "answered"}
              /\ UNCHANGED <<attempts, transcript, completedAt, events>>
<1> USE DEF Shape, CallTypes, StoreTypeOK
<1>1. ASSUME NEW s \in Sessions,
             ReserveRun(q, call[q].param, s, call[q].key,
                        RequestHash(call[q].payload, call[q].param), call[q].worker)
      PROVE  /\ status[q] = ABSENT
             /\ \A r \in Runs \ {q} : /\ status'[r] = status[r] /\ request'[r] = request[r]
                                      /\ owner'[r] = owner[r]
             /\ owner'[q] = call[q].worker
             /\ request'[q].key = call[q].key
             /\ request'[q].hash = RequestHash(call[q].payload, call[q].param)
             /\ UNCHANGED <<attempts, transcript, completedAt, events>>
  BY <1>1 DEF ReserveRun
<1>2. CASE Reserve(q)
  <2>1. CASE \E s \in Sessions :
                ReserveRun(q, call[q].param, s, call[q].key,
                           RequestHash(call[q].payload, call[q].param), call[q].worker)
             /\ call' = [call EXCEPT ![q].pc = "reserved", ![q].target = q]
    BY <1>1, <1>2, <2>1 DEF Reserve, CallAt, CallType
  <2>2. CASE UNCHANGED storeVars
    BY <2>2 DEF storeVars
  <2>3. ASSUME NEW s, NEW k, NEW h, ReplayLeavingSession(s, k, h)
        PROVE  UNCHANGED runVars
    BY <2>3 DEF ReplayLeavingSession, CreateSession
  <2>4. QED
    BY <1>2, <2>1, <2>2, <2>3 DEF Reserve
<1>3. CASE ReserveUnacknowledged(q)
  BY <1>1, <1>3 DEF ReserveUnacknowledged, CallAt, Answer, CallType
<1>4. QED
  BY <1>2, <1>3
  DEF CallMove, CallStep, AbandonCall, StartTask, JoinRun, TaskAnswers, PollAnswers, storeVars

\* A row keeps its existence, its request and its owner.
LEMMA RowsStay ==
    ASSUME Shape, [Next]_vars, NEW r \in Runs, status[r] # ABSENT
    PROVE  status'[r] # ABSENT /\ request'[r] = request[r] /\ owner'[r] = owner[r]
<1> USE DEF Shape
<1>1. owner[r] = WorkerOf(r)
  BY DEF OwnRows, WorkerOf
<1>2. CASE \E q \in Runs : CallMove(q)
  BY <1>2, CallsReserveOwnRows DEF runVars
<1>3. CASE ~ \E q \in Runs : CallMove(q)
  <2>1. status'[r] # ABSENT /\ request'[r] = request[r]
    BY <1>3, OnlyCallsReserve, TransitionsLeaveActive DEF RowsMoveOn
  <2>2. ASSUME NEW x \in Runs, MarkRunRunning(x, WorkerOf(x))
        PROVE  owner'[r] = owner[r]
    BY <1>1, <2>2 DEF MarkRunRunning, StoreTypeOK
  <2>3. ASSUME NEW x \in Runs, NEW w, CommitRunSuccess(x) \/ FailRun(x) \/ CancelRun(x, w)
                                      \/ IncrementRunAttempt(x)
                                      \/ AppendStreamEvent(x, RESPONSE_DELTA)
        PROVE  owner'[r] = owner[r]
    BY <2>3 DEF CommitRunSuccess, FailRun, CancelRun, IncrementRunAttempt, AppendStreamEvent,
       Finish, runVars
  <2>4. ASSUME UNCHANGED storeVars
        PROVE  owner'[r] = owner[r]
    BY <2>4 DEF storeVars, runVars
  <2>5. ASSUME NEW x \in Runs, TaskStep(x)
        PROVE  owner'[r] = owner[r]
    <3>1. CASE StoreFails(x)
      BY <2>2, <2>3, <2>4, <3>1 DEF StoreFails, Transaction
    <3>2. CASE Mark(x) \/ BeginAttempt(x) \/ PersistDelta(x) \/ EscapeTimeout(x) \/ Commit(x)
                 \/ Fail(x) \/ EnsureCancelled(x)
      BY <2>2, <2>3, <2>4, <3>2
      DEF Mark, BeginAttempt, PersistDelta, EscapeTimeout, Commit, Fail, EnsureCancelled
    <3>3. QED
      BY <2>4, <2>5, <3>1, <3>2
      DEF TaskStep, Begin, RunTool, LoadHistory, ReceiveDelta, ReceiveResponse, Retry, GiveUp,
          Wake, FinishTask, DeliverCancel
  <2>6. ASSUME NEW c \in Cancels, CancelMove(c)
        PROVE  owner'[r] = owner[r]
    <3>1. CASE CancelDurably(c)
      <4>1. cancel[c].run \in Runs
        BY <3>1 DEF CancelDurably, CancelAt, CallTypes
      <4>2. QED
        BY <2>3, <2>4, <3>1, <4>1 DEF CancelDurably
    <3>2. QED
      BY <2>4, <2>6, <3>1 DEF CancelMove, CancelStep, AbandonCancel, SignalTask, GatherTask
  <2>7. ASSUME MaintenanceStep \/ SessionStep
        PROVE  owner'[r] = owner[r]
    BY <2>7
    DEF MaintenanceStep, InterruptWorkerRuns, ReconcileOrphanedRuns, InterruptMatching,
        PruneStreamEvents, Tick, SessionStep, CreateSession, AppendMessage, ClearSession, runVars
  <2>8. ASSUME NEW w \in Workers, WorkerStep(w)
        PROVE  owner'[r] = owner[r]
    BY <2>4, <2>7, <2>8, WorkerStoreStep
  <2>9. CASE ClientStep \/ EditSession \/ (\E x \in Runs : Rollback(x)) \/ UNCHANGED vars
    BY <2>1, <2>4, <2>7, <2>9
    DEF ClientStep, Submit, RequestCancel, EditSession, Rollback, vars
  <2>10. QED
    BY <1>3, <2>1, <2>5, <2>6, <2>8, <2>9 DEF Next, AbandonStep, CallMove, CancelMove
<1>4. QED
  BY <1>2, <1>3

-----------------------------------------------------------------------------
(* The shape of the processes. *)

\* What every step does to one call: nothing, its first submission, or a branch
\* of CallEffect.
LEMMA CallMoves ==
    ASSUME Shape, [Next]_vars
    PROVE  /\ call' \in [Runs -> CallType]
           /\ \A q \in Runs :
                \/ call'[q] = call[q] /\ (pc[q] = "none" => pc'[q] = "none")
                \/ /\ call[q].pc = "idle" /\ call'[q].pc = "reserving"
                   /\ call'[q].worker \in Workers /\ call'[q].payload \in Payloads
                   /\ call'[q].target = NoRun /\ call'[q].answer = NoRun
                   /\ pc' = pc
                \/ CallMove(q) /\ CallEffect(q)
<1> DEFINE Moves(q) ==
       \/ call'[q] = call[q] /\ (pc[q] = "none" => pc'[q] = "none")
       \/ /\ call[q].pc = "idle" /\ call'[q].pc = "reserving"
          /\ call'[q].worker \in Workers /\ call'[q].payload \in Payloads
          /\ call'[q].target = NoRun /\ call'[q].answer = NoRun
          /\ pc' = pc
       \/ CallMove(q) /\ CallEffect(q)
<1> USE DEF Shape, CallTypes
<1>1. ASSUME call' = call, NEW q \in Runs, pc[q] = "none" => pc'[q] = "none"
      PROVE  Moves(q)
  BY <1>1
<1>2. ASSUME NEW q \in Runs, NEW w \in Workers, NEW param \in Sessions \cup {NoSession},
             NEW payload \in Payloads, NEW key \in Keys \cup {NoKey},
             Submit(q, w, param, payload, key)
      PROVE  call' \in [Runs -> CallType] /\ \A p \in Runs : Moves(p)
  <2> DEFINE new == [IdleCall EXCEPT !.pc = "reserving", !.worker = w, !.param = param,
                                     !.payload = payload, !.key = key]
  <2>1. new \in CallType
    BY DEF CallType, CallPc, IdleCall
  <2>2. /\ new.pc = "reserving" /\ new.worker = w /\ new.payload = payload
        /\ new.target = NoRun /\ new.answer = NoRun
    BY DEF IdleCall
  <2>3. call' = [call EXCEPT ![q] = new] /\ call[q].pc = "idle" /\ pc' = pc
    BY <1>2 DEF Submit, taskVars
  <2> HIDE DEF new
  <2>4. QED
    BY <2>1, <2>2, <2>3
<1>3. ASSUME NEW q \in Runs, CallMove(q)
      PROVE  call' \in [Runs -> CallType] /\ \A p \in Runs : Moves(p)
  <2>1. CallEffect(q)
    BY <1>3, CallsTakeEffect
  <2>2. \A p \in Runs \ {q} : pc'[p] = pc[p]
    BY <2>1 DEF CallEffect, TaskTypes
  <2>3. QED
    BY <1>3, <2>1, <2>2 DEF CallEffect
<1>4. ASSUME NEW r \in Runs, TaskStep(r)
      PROVE  call' \in [Runs -> CallType] /\ \A p \in Runs : Moves(p)
  BY <1>1, <1>4, TaskEffect
<1>5. ASSUME NEW c \in Cancels, CancelMove(c)
      PROVE  call' \in [Runs -> CallType] /\ \A p \in Runs : Moves(p)
  BY <1>1, <1>5, CancelEffect
<1>6. ASSUME NEW w \in Workers, WorkerStep(w)
      PROVE  call' \in [Runs -> CallType] /\ \A p \in Runs : Moves(p)
  <2>1. \A r \in LocalTasks(w) : pc[r] # "none"
    BY DEF LocalTasks, Live, TryBlock, Handler
  <2>2. QED
    BY <1>1, <1>6, <2>1, WorkerEffect
<1>7. CASE EditSession \/ (\E r \in Runs : Rollback(r)) \/ UNCHANGED vars
           \/ (\E c \in Cancels, w \in Workers, r \in Runs : RequestCancel(c, w, r))
  BY <1>1, <1>7 DEF EditSession, Rollback, RequestCancel, vars, taskVars
<1>8. QED
  BY <1>2, <1>3, <1>4, <1>5, <1>6, <1>7 DEF Next, AbandonStep, CallMove, CancelMove, ClientStep

\* A call that has begun keeps its request and never becomes idle again.
LEMMA CallsKeepRequests ==
    ASSUME Shape, [Next]_vars, NEW q \in Runs, call[q].pc # "idle"
    PROVE  /\ SameRequest(q) /\ call'[q].pc # "idle"
           /\ call[q].pc # "reserving" => call'[q].pc # "reserving"
BY CallMoves DEF CallEffect, SameRequest

\* Cancel requests keep their type.
LEMMA CancelMoves ==
    ASSUME Shape, [Next]_vars
    PROVE  /\ cancel' \in [Cancels -> CancelType]
           /\ \A c \in Cancels :
                \/ cancel'[c] = cancel[c]
                \/ /\ cancel[c].pc = "idle" /\ cancel'[c].pc = "cancelling"
                   /\ cancel'[c].worker \in Workers /\ cancel'[c].run \in Runs
                   /\ UNCHANGED <<storeVars, workerVars, taskVars, call>>
                   /\ status[cancel'[c].run] # ABSENT
                \/ /\ CancelMove(c) /\ cancel[c].pc # "idle" /\ cancel'[c].pc # "idle"
                   /\ cancel'[c].worker = cancel[c].worker /\ cancel'[c].run = cancel[c].run
<1> USE DEF Shape, CallTypes
<1>1. ASSUME cancel' = cancel
      PROVE  cancel' \in [Cancels -> CancelType] /\ \A c \in Cancels : cancel'[c] = cancel[c]
  BY <1>1
<1>2. ASSUME NEW c \in Cancels, NEW w \in Workers, NEW r \in Runs, RequestCancel(c, w, r)
      PROVE  /\ cancel' \in [Cancels -> CancelType]
             /\ cancel[c].pc = "idle" /\ cancel'[c].pc = "cancelling"
             /\ cancel'[c].worker = w /\ cancel'[c].run = r
             /\ UNCHANGED <<storeVars, workerVars, taskVars, call>>
             /\ status[r] # ABSENT
             /\ \A d \in Cancels \ {c} : cancel'[d] = cancel[d]
  BY <1>2 DEF RequestCancel, CancelType, CancelPc
<1>3. CASE \E c \in Cancels, w \in Workers, r \in Runs : RequestCancel(c, w, r)
  BY <1>2, <1>3
<1>4. CASE \E c \in Cancels : CancelMove(c)
  BY <1>4, CancelEffect
<1>5. CASE \E r \in Runs : TaskStep(r) \/ CallMove(r) \/ Rollback(r)
  <2>1. cancel' = cancel
    BY <1>5, TaskEffect
    DEF CallMove, CallStep, AbandonCall, Reserve, ReserveUnacknowledged, StartTask, JoinRun,
        TaskAnswers, PollAnswers,
        Rollback
  <2>2. QED
    BY <1>1, <2>1
<1>6. CASE \E w \in Workers : WorkerStep(w)
  BY <1>1, <1>6, WorkerEffect
<1>7. CASE EditSession \/ UNCHANGED vars
           \/ (\E w \in Workers, q \in Runs : \E param, payload, key : Submit(q, w, param, payload, key))
  BY <1>1, <1>7 DEF EditSession, vars, Submit
<1>8. QED
  BY <1>3, <1>4, <1>5, <1>6, <1>7 DEF Next, AbandonStep, CallMove, CancelMove, ClientStep

\* The processes' variables stay well typed.
LEMMA ProcessTypes ==
    ASSUME Shape, [Next]_vars
    PROVE  WorkerTypes' /\ TaskTypes'
<1> USE DEF Shape
<1>1. ASSUME UNCHANGED <<workerVars, taskVars>>
      PROVE  WorkerTypes' /\ TaskTypes'
  BY <1>1 DEF WorkerTypes, TaskTypes, workerVars, taskVars
<1>2. ASSUME NEW r \in Runs, TaskStep(r)
      PROVE  WorkerTypes' /\ TaskTypes'
  BY <1>2, TaskEffect DEF WorkerTypes
<1>3. ASSUME NEW q \in Runs, CallMove(q)
      PROVE  WorkerTypes' /\ TaskTypes'
  <2>1. CASE StartTask(q)
    <3>1. call[q].worker \in Workers
      BY <2>1 DEF StartTask, CallAt, CallTypes
    <3>2. WorkerTypes'
      BY <2>1, <3>1 DEF StartTask, WorkerTypes
    <3>3. TaskTypes'
      BY <2>1 DEF StartTask, TaskTypes, TaskPc
    <3>4. QED
      BY <3>2, <3>3
  <2>2. QED
    BY <1>1, <1>3, <2>1
    DEF CallMove, CallStep, AbandonCall, Reserve, ReserveUnacknowledged, JoinRun, TaskAnswers,
        PollAnswers
<1>4. ASSUME NEW r \in Runs, Rollback(r)
      PROVE  WorkerTypes' /\ TaskTypes'
  BY <1>4 DEF Rollback, WorkerTypes, TaskTypes, taskVars
<1>5. ASSUME NEW c \in Cancels, CancelMove(c)
      PROVE  WorkerTypes' /\ TaskTypes'
  BY <1>5, CancelEffect DEF WorkerTypes, TaskTypes, workerVars
<1>6. ASSUME NEW w \in Workers, WorkerStep(w)
      PROVE  WorkerTypes' /\ TaskTypes'
  BY <1>6, WorkerEffect
<1>7. CASE ClientStep \/ EditSession \/ UNCHANGED vars
  BY <1>1, <1>7 DEF ClientStep, Submit, RequestCancel, EditSession, vars
<1>8. QED
  BY <1>2, <1>3, <1>4, <1>5, <1>6, <1>7 DEF Next, AbandonStep, CallMove, CancelMove

\* Tasks belong to the calls that reserved their runs.
LEMMA OwnTargetsStep ==
    ASSUME Shape, [Next]_vars
    PROVE  OwnTargets'
<1> USE DEF Shape
<1> SUFFICES ASSUME NEW q \in Runs
             PROVE  /\ call'[q].pc \in {"reserved", "replayed", "awaiting", "polling"} =>
                         call'[q].target \in Runs
                    /\ call'[q].pc = "reserved" =>
                         call'[q].target = q /\ pc'[q] = "none" /\ status'[q] # ABSENT
                    /\ pc'[q] # "none" =>
                         /\ call'[q].pc \in {"awaiting", "answered"}
                         /\ call'[q].target = q
                         /\ status'[q] # ABSENT
  BY DEF OwnTargets
<1>1. status[q] # ABSENT => status'[q] # ABSENT
  BY RowsStay
<1>2. CASE call'[q] = call[q] /\ (pc[q] = "none" => pc'[q] = "none")
  BY <1>1, <1>2 DEF OwnTargets
<1>3. CASE call[q].pc = "idle" /\ call'[q].pc = "reserving" /\ pc' = pc
  BY <1>3 DEF OwnTargets
<1>4. CASE CallEffect(q)
  BY <1>1, <1>4 DEF CallEffect, OwnTargets, TaskTypes
<1>5. QED
  BY <1>2, <1>3, <1>4, CallMoves

\* Rows belong to the calls that reserved them.
LEMMA OwnRowsStep ==
    ASSUME Shape, [Next]_vars
    PROVE  OwnRows'
<1> USE DEF Shape
<1> SUFFICES ASSUME NEW q \in Runs, status'[q] # ABSENT
             PROVE  /\ call'[q].pc \notin {"idle", "reserving"}
                    /\ owner'[q] = call'[q].worker
                    /\ request'[q].key = call'[q].key
                    /\ request'[q].hash = RequestHash(call'[q].payload, call'[q].param)
  BY DEF OwnRows
<1>1. CASE status[q] # ABSENT
  BY <1>1, RowsStay, CallsKeepRequests DEF OwnRows, SameRequest
<1>2. CASE status[q] = ABSENT
  <2>1. ASSUME RowsMoveOn
        PROVE  FALSE
    BY <1>2, <2>1, TransitionsLeaveActive DEF RowsMoveOn
  <2>2. PICK p \in Runs : CallMove(p)
    BY <2>1, OnlyCallsReserve
  <2>3. p = q /\ call[q].pc = "reserving" /\ call'[q].pc \in {"reserved", "answered"}
    BY <1>2, <2>2, CallsReserveOwnRows DEF runVars
  <2>4. /\ owner'[q] = call[q].worker
        /\ request'[q].key = call[q].key
        /\ request'[q].hash = RequestHash(call[q].payload, call[q].param)
    BY <1>2, <2>2, <2>3, CallsReserveOwnRows DEF runVars
  <2>5. QED
    BY <2>3, <2>4, CallsKeepRequests DEF SameRequest
<1>3. QED
  BY <1>1, <1>2

\* Calls and cancel requests stay well typed.
LEMMA CallTypesStep ==
    ASSUME Shape, [Next]_vars
    PROVE  CallTypes'
<1> USE DEF Shape, CallTypes
<1>1. ASSUME NEW q \in Runs, call'[q].pc # "idle"
      PROVE  call'[q].worker \in Workers /\ call'[q].payload \in Payloads
  BY <1>1, CallMoves DEF CallEffect, SameRequest
<1>2. ASSUME NEW c \in Cancels, cancel'[c].pc # "idle"
      PROVE  cancel'[c].worker \in Workers /\ cancel'[c].run \in Runs
  BY <1>2, CancelMoves
<1>3. QED
  BY <1>1, <1>2, CallMoves, CancelMoves

\* The shape is inductive.
LEMMA ShapeStep == Shape /\ [Next]_vars => Shape'
<1> SUFFICES ASSUME Shape, [Next]_vars
             PROVE  Shape'
  OBVIOUS
<1>1. [StoreNext]_storeVars
  BY StoreSteps
<1>2. StoreTypeOK' /\ RunsHaveSessions'
  BY <1>1, TypeStep, RunsHaveSessionsStep DEF Shape
<1>3. QED
  BY <1>2, ProcessTypes, OwnTargetsStep, OwnRowsStep, CallTypesStep DEF Shape

\* It holds of the empty tables and idle processes.
LEMMA InitShape == Init => Shape
<1> SUFFICES ASSUME Init
             PROVE  Shape
  OBVIOUS
<1>1. StoreTypeOK /\ RunsHaveSessions /\ \A r \in Runs : status[r] = ABSENT
  BY InitType DEF Init, StoreInit, RunsHaveSessions
<1>2. WorkerTypes /\ TaskTypes
  BY DEF Init, WorkerTypes, TaskTypes, Mode, TaskPc, Result
<1>3. CallTypes
  BY DEF Init, CallTypes, CallType, CancelType, CallPc, CancelPc, IdleCall, IdleCancel
<1>4. OwnTargets /\ OwnRows
  BY <1>1 DEF Init, OwnTargets, OwnRows, IdleCall
<1>5. QED
  BY <1>1, <1>2, <1>3, <1>4 DEF Shape

\* In every reachable state tasks and rows belong to the calls that made them,
\* whichever processes run, crash or shut down.
THEOREM ProcessesAreWellFormed == Spec => []Shape
<1>1. QED
  BY InitShape, ShapeStep, PTL DEF Spec

\* The supervisor runs the store as database/store.py specifies it, so every
\* theorem about the store holds of the processes too.
THEOREM SupervisorUsesStore == Spec => StoreSpec
<1>1. Init => StoreInit
  BY DEF Init
<1>2. QED
  BY <1>1, StoreSteps, ProcessesAreWellFormed, PTL DEF Spec, StoreSpec

-----------------------------------------------------------------------------
(* One execution per idempotency key. *)

\* Two tasks of one key would be two rows of one key: at most one call with a
\* key ever creates a task, on whichever workers the calls arrive.
THEOREM KeyExecutesOnce == Spec => []OneExecutionPerKey
<1>1. Shape /\ KeyNamesOneRun => OneExecutionPerKey
  <2> SUFFICES ASSUME Shape, KeyNamesOneRun, NEW p \in Runs, NEW q \in Runs,
                      call[p].key = call[q].key, call[p].key # NoKey,
                      pc[p] # "none", pc[q] # "none"
               PROVE  p = q
    BY DEF OneExecutionPerKey
  <2>1. /\ status[p] # ABSENT /\ request[p].key = call[p].key
        /\ status[q] # ABSENT /\ request[q].key = call[q].key
    BY DEF Shape, OwnTargets, OwnRows
  <2>2. QED
    BY <2>1 DEF KeyNamesOneRun
<1>2. QED
  BY <1>1, ProcessesAreWellFormed, SupervisorUsesStore, KeyUniqueness, PTL

-----------------------------------------------------------------------------
(* What a caller is told. *)

\* A task says "committed" and a result says "completed" only of a row that does.
TasksTellTheTruth ==
    \A r \in Runs : pc[r] = "committed" \/ result[r] = COMPLETED => status[r] = COMPLETED

\* The run a call points to has a row with the request hash of that call.
TargetsMatch ==
    \A q \in Runs :
        /\ call[q].pc \in {"idle", "reserving"} => call[q].target = NoRun /\ call[q].answer = NoRun
        /\ call[q].target # NoRun =>
              /\ call[q].target \in Runs
              /\ status[call[q].target] # ABSENT
              /\ request[call[q].target].hash = RequestHash(call[q].payload, call[q].param)
        /\ call[q].answer = COMPLETED =>
              call[q].target \in Runs /\ status[call[q].target] = COMPLETED

\* A completed row stays completed.
LEMMA CompletedStays ==
    ASSUME Shape, [Next]_vars, NEW r \in Runs, status[r] = COMPLETED
    PROVE  status'[r] = COMPLETED
<1>1. Terminal(r) /\ StoreTypeOK
  BY DEF Terminal, TERMINAL_RUN_STATUSES, Shape
<1>2. QED
  BY <1>1, StoreSteps, FrozenStep

\* Only the commit takes a task to "committed", only from there is its result
\* "completed".
LEMMA TaskTruth ==
    ASSUME Shape, NEW r \in Runs, TaskStep(r)
    PROVE  /\ pc'[r] = "committed" => pc[r] = "committed" \/ status'[r] = COMPLETED
           /\ result'[r] = COMPLETED => pc[r] = "committed" \/ result[r] = COMPLETED
<1> USE DEF Shape, TaskTypes
<1>1. ASSUME NEW at, Keep(r, at), at # "committed"
      PROVE  pc'[r] = at /\ result' = result
  BY <1>1 DEF Keep, Goto, OnlyPc
<1>2. CASE Begin(r) \/ Mark(r) \/ RunTool(r) \/ PersistDelta(r) \/ ReceiveResponse(r)
             \/ Retry(r) \/ GiveUp(r) \/ EscapeTimeout(r) \/ Wake(r) \/ Fail(r)
             \/ EnsureCancelled(r)
  <2>1. \E at \in (TryBlock \cup Handler) \ {"committed"} : Keep(r, at)
    BY <1>2 DEF Begin, Mark, RunTool, PersistDelta, ReceiveResponse, Retry, GiveUp,
       EscapeTimeout, Wake, Fail, EnsureCancelled, TryBlock, Handler
  <2>2. QED
    BY <1>1, <2>1
<1>3. CASE Commit(r)
  <2>1. CASE CommitRunSuccess(r) /\ Keep(r, "committed")
    BY <2>1 DEF CommitRunSuccess, Finish, StoreTypeOK, Keep, OnlyPc
  <2>2. QED
    BY <1>1, <1>3, <2>1 DEF Commit
<1>4. CASE LoadHistory(r) \/ BeginAttempt(r) \/ ReceiveDelta(r)
  BY <1>4 DEF LoadHistory, BeginAttempt, ReceiveDelta, Keep, OnlyPc, Goto
<1>5. CASE FinishTask(r)
  <2>1. PICK at \in {"committed", "failed", "cancelled"} :
           TaskAt(r, at) /\ result' = [result EXCEPT ![r] = Outcome(at)]
    BY <1>5 DEF FinishTask
  <2>2. Outcome(at) = COMPLETED => at = "committed"
    BY DEF Outcome, COMPLETED, FAILED, CANCELLED
  <2>3. QED
    BY <1>5, <2>1, <2>2 DEF FinishTask, Goto, TaskAt
<1>6. ASSUME Escape(r, FAILED) \/ Escape(r, CANCELLED)
      PROVE  pc'[r] = "done" /\ result'[r] # COMPLETED
  BY <1>6 DEF Escape, Goto, COMPLETED, FAILED, CANCELLED
<1>7. CASE DeliverCancel(r)
  BY <1>6, <1>7 DEF DeliverCancel, Goto
<1>8. CASE StoreFails(r)
  BY <1>1, <1>6, <1>8 DEF StoreFails
<1>9. QED
  BY <1>2, <1>3, <1>4, <1>5, <1>7, <1>8 DEF TaskStep

\* What tasks and results say stays true of the rows.
LEMMA TruthStep ==
    ASSUME Shape, [Next]_vars, TasksTellTheTruth
    PROVE  TasksTellTheTruth'
<1> USE DEF Shape
<1> SUFFICES ASSUME NEW r \in Runs, pc'[r] = "committed" \/ result'[r] = COMPLETED
             PROVE  status'[r] = COMPLETED
  BY DEF TasksTellTheTruth
<1>1. CASE pc[r] = "committed" \/ result[r] = COMPLETED
  BY <1>1, CompletedStays DEF TasksTellTheTruth
<1>2. CASE pc'[r] = pc[r] /\ result'[r] = result[r]
  BY <1>1, <1>2
<1>3. ASSUME NEW x \in Runs, TaskStep(x)
      PROVE  status'[r] = COMPLETED
  BY <1>1, <1>2, <1>3, TaskTruth, TaskEffect
<1>4. ASSUME NEW q \in Runs, CallMove(q)
      PROVE  status'[r] = COMPLETED
  <2>1. CallEffect(q) /\ result' = result
    BY <1>4, CallsTakeEffect
    DEF CallMove, CallStep, AbandonCall, Reserve, ReserveUnacknowledged, StartTask, JoinRun,
        TaskAnswers, PollAnswers,
        taskVars
  <2>2. pc'[r] \in {pc[r], "created"}
    BY <2>1 DEF CallEffect, TaskTypes
  <2>3. QED
    BY <1>1, <2>1, <2>2
<1>5. ASSUME NEW c \in Cancels, CancelMove(c)
      PROVE  status'[r] = COMPLETED
  BY <1>2, <1>5, CancelEffect
<1>6. ASSUME NEW w \in Workers, WorkerStep(w)
      PROVE  status'[r] = COMPLETED
  <2>1. "lost" # COMPLETED
    BY DEF COMPLETED
  <2>2. QED
    BY <1>1, <1>2, <1>6, <2>1, WorkerEffect
<1>7. CASE ClientStep \/ EditSession \/ (\E x \in Runs : Rollback(x)) \/ UNCHANGED vars
  BY <1>2, <1>7 DEF ClientStep, Submit, RequestCancel, EditSession, Rollback, vars, taskVars
<1>8. QED
  BY <1>3, <1>4, <1>5, <1>6, <1>7 DEF Next, AbandonStep, CallMove, CancelMove

\* A call is answered "completed" out of a result or a row that says so, and
\* points only to its own run or to one whose hash the reservation compared.
LEMMA TargetsStep ==
    ASSUME Shape, [Next]_vars, TasksTellTheTruth, TargetsMatch
    PROVE  TargetsMatch'
<1> USE DEF Shape
<1> SUFFICES ASSUME NEW q \in Runs
             PROVE  /\ call'[q].pc \in {"idle", "reserving"} =>
                          call'[q].target = NoRun /\ call'[q].answer = NoRun
                    /\ call'[q].target # NoRun =>
                          /\ call'[q].target \in Runs
                          /\ status'[call'[q].target] # ABSENT
                          /\ request'[call'[q].target].hash =
                                 RequestHash(call'[q].payload, call'[q].param)
                    /\ call'[q].answer = COMPLETED =>
                          call'[q].target \in Runs /\ status'[call'[q].target] = COMPLETED
  BY DEF TargetsMatch
<1>0. COMPLETED \notin {"conflict", "not_found", "busy", "unavailable", "accepted", "abandoned",
                        NoRun}
  BY NoRunIsNoStatus DEF RunStatus, TERMINAL_RUN_STATUSES, COMPLETED
<1>1. \A r \in Runs : /\ status[r] # ABSENT => status'[r] # ABSENT /\ request'[r] = request[r]
                      /\ status[r] = COMPLETED => status'[r] = COMPLETED
  BY RowsStay, CompletedStays
<1>2. CASE call'[q] = call[q]
  BY <1>1, <1>2 DEF TargetsMatch
<1>3. CASE /\ call[q].pc = "idle" /\ call'[q].pc = "reserving"
           /\ call'[q].target = NoRun /\ call'[q].answer = NoRun
  BY <1>0, <1>3 DEF TargetsMatch
<1>4. CASE CallMove(q) /\ CallEffect(q)
  <2>1. SameRequest(q)
    BY <1>4 DEF CallEffect
  <2>2. \A r \in Runs : r # NoRun
    BY NullsAreNotValues
  <2>3. CASE /\ call'[q].target = call[q].target /\ call'[q].pc \notin {"idle", "reserving"}
             /\ call'[q].answer = COMPLETED =>
                   call[q].target \in Runs /\ status'[call[q].target] = COMPLETED
    BY <1>1, <2>1, <2>3 DEF TargetsMatch, SameRequest
  <2>4. ASSUME call[q].target \in Runs,
               \/ pc[call[q].target] = "done" /\ call'[q].answer = result[call[q].target]
               \/ call'[q].answer = status[call[q].target],
               call'[q].answer = COMPLETED
        PROVE  status'[call[q].target] = COMPLETED
    BY <1>1, <2>4 DEF TasksTellTheTruth
  <2>5. CASE /\ call[q].pc = "reserving" /\ call'[q].pc = "reserved"
             /\ call'[q].target = q /\ call'[q].answer = call[q].answer
             /\ status'[q] # ABSENT
    BY <1>0, <2>5, OwnRowsStep DEF TargetsMatch, OwnRows
  <2>6. ASSUME NEW r \in Runs,
               call[q].pc = "reserving", call'[q].pc = "replayed",
               call'[q].target = r, call'[q].answer = call[q].answer,
               Replays(call[q].key, RequestHash(call[q].payload, call[q].param), r)
        PROVE  /\ call'[q].pc \notin {"idle", "reserving"}
               /\ status'[r] # ABSENT
               /\ request'[r].hash = RequestHash(call'[q].payload, call'[q].param)
               /\ call'[q].answer # COMPLETED
    <3>1. status[r] # ABSENT /\ request[r].hash = RequestHash(call[q].payload, call[q].param)
      BY <2>6 DEF Replays, KeyHolders
    <3>2. QED
      BY <1>0, <1>1, <2>1, <2>6, <3>1 DEF TargetsMatch, SameRequest
  <2>7. CASE /\ call[q].pc = "reserving" /\ call'[q].pc = "answered"
             /\ call'[q].target = call[q].target
             /\ call'[q].answer \in {"conflict", "not_found", "busy", "unavailable"}
    BY <1>0, <2>3, <2>7
  <2>8. CASE /\ call[q].pc \in {"reserved", "replayed"}
             /\ call'[q].pc \in {"awaiting", "polling", "answered"}
             /\ call'[q].target = call[q].target
             /\ call'[q].answer \in {call[q].answer, "accepted"}
    BY <1>0, <1>1, <2>3, <2>8 DEF TargetsMatch
  <2>9. CASE /\ call[q].pc \in {"awaiting", "polling"} /\ call'[q].pc = "answered"
             /\ call'[q].target = call[q].target
             /\ \/ pc[call[q].target] = "done" /\ call'[q].answer = result[call[q].target]
                \/ call'[q].answer = status[call[q].target]
                \/ call'[q].answer = "unavailable"
    <3>1. call[q].target \in Runs
      BY <2>9 DEF OwnTargets
    <3>2. QED
      BY <1>0, <2>3, <2>4, <2>9, <3>1
  <2>10. CASE /\ call'[q].pc = "answered" /\ call'[q].answer = "abandoned"
              /\ call'[q].target = call[q].target
    BY <1>0, <2>3, <2>10
  <2>11. QED
    BY <1>4, <2>5, <2>6, <2>7, <2>8, <2>9, <2>10 DEF CallEffect
<1>5. QED
  BY <1>2, <1>3, <1>4, CallMoves

\* "completed" is never said of a run that another process interrupted, whose
\* commit was refused or rolled back, or that answers another request.
THEOREM SuccessIsTrue == Spec => []SuccessIsDurable
<1>1. Init => TasksTellTheTruth /\ TargetsMatch
  BY NoRunIsNoStatus
  DEF Init, TasksTellTheTruth, TargetsMatch, IdleCall, COMPLETED, RunStatus,
      TERMINAL_RUN_STATUSES
<1>2. Shape /\ TasksTellTheTruth /\ TargetsMatch /\ [Next]_vars
        => TasksTellTheTruth' /\ TargetsMatch'
  BY TruthStep, TargetsStep
<1>3. TargetsMatch => SuccessIsDurable
  BY NullsAreNotValues DEF TargetsMatch, SuccessIsDurable
<1>4. QED
  BY <1>1, <1>2, <1>3, ProcessesAreWellFormed, PTL DEF Spec

-----------------------------------------------------------------------------
(* A cancelled run and its provider. *)

\* Where the task of a terminal run may be without ever calling the provider.
Spared == {"none", "created", "marking", "failing", "failed", "cancelling", "cancelled",
           "done"}

\* What cancel() knows: the run is durably cancelled once it was told so, and
\* when it returns on the owner, the run's task cannot reach the provider.
CancelHolds ==
    \A c \in Cancels :
        /\ cancel[c].pc \in {"signalling", "gathering", "returned"} =>
              status[cancel[c].run] = CANCELLED
        /\ cancel[c].pc = "returned" /\ cancel[c].worker = owner[cancel[c].run] =>
              pc[cancel[c].run] \in Spared

\* A task of a terminal run that has not begun an attempt will not begin one:
\* mark_run_running refuses, and every other way on leads to a handler.
LEMMA SparedStays ==
    ASSUME Shape, [Next]_vars, NEW r \in Runs, Terminal(r), pc[r] \in Spared
    PROVE  pc'[r] \in Spared
<1> USE DEF Shape
<1>1. \A to : ~ ValidRunTransition(status[r], to)
  BY TransitionsLeaveActive
  DEF Terminal, TERMINAL_RUN_STATUSES, ACTIVE_RUN_STATUSES, PENDING, RUNNING, COMPLETED,
      FAILED, CANCELLED, INTERRUPTED
<1>2. CASE pc'[r] = pc[r] \/ pc'[r] \in {"created", "done"}
  BY <1>2 DEF Spared
<1>3. ASSUME NEW at \in {"marking", "failing", "failed", "cancelled", "cancelling", "done"},
             pc' = [pc EXCEPT ![r] = at]
      PROVE  pc'[r] \in Spared
  BY <1>3 DEF Spared, TaskTypes
<1>4. CASE TaskStep(r)
  <2>1. ~ MarkRunRunning(r, WorkerOf(r))
    BY <1>1 DEF MarkRunRunning
  <2>2. CASE Begin(r) \/ Mark(r) \/ Fail(r) \/ EnsureCancelled(r) \/ FinishTask(r)
    BY <1>3, <2>1, <2>2 DEF Begin, Mark, Fail, EnsureCancelled, FinishTask, Keep, Goto
  <2>3. CASE DeliverCancel(r) \/ StoreFails(r)
    BY <1>3, <2>3 DEF DeliverCancel, StoreFails, Keep, Goto, Escape
  <2>4. CASE RunTool(r) \/ LoadHistory(r) \/ BeginAttempt(r) \/ ReceiveDelta(r)
               \/ PersistDelta(r) \/ ReceiveResponse(r) \/ Retry(r) \/ GiveUp(r)
               \/ EscapeTimeout(r) \/ Wake(r) \/ Commit(r)
    BY <2>4
    DEF RunTool, LoadHistory, BeginAttempt, ReceiveDelta, PersistDelta, ReceiveResponse, Retry,
        GiveUp, EscapeTimeout, Wake, Commit, TaskAt, Spared
  <2>5. QED
    BY <1>4, <2>2, <2>3, <2>4 DEF TaskStep
<1>5. ASSUME NEW x \in Runs \ {r}, TaskStep(x)
      PROVE  pc'[r] \in Spared
  BY <1>2, <1>5, TaskEffect
<1>6. ASSUME NEW q \in Runs, CallMove(q)
      PROVE  pc'[r] \in Spared
  BY <1>2, <1>6, CallsTakeEffect DEF CallEffect, TaskTypes
<1>7. ASSUME NEW c \in Cancels, CancelMove(c)
      PROVE  pc'[r] \in Spared
  BY <1>2, <1>7, CancelEffect
<1>8. ASSUME NEW w \in Workers, WorkerStep(w)
      PROVE  pc'[r] \in Spared
  BY <1>2, <1>8, WorkerEffect
<1>9. CASE ClientStep \/ EditSession \/ (\E x \in Runs : Rollback(x)) \/ UNCHANGED vars
  BY <1>2, <1>9 DEF ClientStep, Submit, RequestCancel, EditSession, Rollback, vars, taskVars
<1>10. QED
  BY <1>4, <1>5, <1>6, <1>7, <1>8, <1>9 DEF Next, AbandonStep, CallMove, CancelMove

\* What one step of cancel() establishes.
LEMMA CancelEstablishes ==
    ASSUME Shape, CancelHolds, NEW c \in Cancels, CancelMove(c)
    PROVE  /\ cancel'[c].pc \in {"signalling", "gathering", "returned"} =>
                 status'[cancel[c].run] = CANCELLED
           /\ cancel'[c].pc = "returned" /\ cancel[c].worker = owner[cancel[c].run] =>
                 pc[cancel[c].run] \in Spared
<1> USE DEF Shape
<1>1. PICK r \in Runs : r = cancel[c].run
  BY CancelEffect DEF CallTypes
<1>2. CASE CancelDurably(c)
  <2>1. CASE cancel' = [cancel EXCEPT ![c].pc = "signalling"]
             /\ (CancelRun(r, cancel[c].worker) \/ (status[r] = CANCELLED /\ UNCHANGED storeVars))
    <3>1. status'[r] = CANCELLED
      BY <2>1 DEF CancelRun, Finish, StoreTypeOK, storeVars, runVars
    <3>2. cancel'[c].pc = "signalling"
      BY <2>1 DEF CallTypes, CancelType
    <3>3. QED
      BY <1>1, <3>1, <3>2
  <2>2. CASE cancel' = [cancel EXCEPT ![c].pc = "unsignalled"]
    BY <2>2 DEF CallTypes, CancelType
  <2>3. QED
    BY <1>1, <1>2, <2>1, <2>2 DEF CancelDurably
<1>3. CASE SignalTask(c)
  <2>1. cancel[c].pc = "signalling" /\ status' = status
    BY <1>3 DEF SignalTask, CancelAt, storeVars, runVars
  <2>2. status[r] = CANCELLED
    BY <1>1, <2>1 DEF CancelHolds
  <2>3. CASE r \in LocalTasks(cancel[c].worker)
    BY <1>1, <1>3, <2>1, <2>2, <2>3 DEF SignalTask, CallTypes, CancelType
  <2>4. CASE r \notin LocalTasks(cancel[c].worker)
    <3>1. owner[r] = WorkerOf(r)
      BY <2>2 DEF OwnRows, WorkerOf, CANCELLED, ABSENT
    <3>2. cancel[c].worker = owner[r] => ~ Live(r)
      BY <2>4, <3>1 DEF LocalTasks
    <3>3. ~ Live(r) => pc[r] \in {"none", "done"}
      BY DEF Live, TaskTypes, TaskPc
    <3>4. QED
      BY <1>1, <2>1, <2>2, <3>2, <3>3 DEF Spared
  <2>5. QED
    BY <2>3, <2>4
<1>4. CASE GatherTask(c)
  <2>1. cancel[c].pc = "gathering" /\ status' = status /\ pc[r] = "done"
    BY <1>1, <1>4 DEF GatherTask, CancelAt, storeVars, runVars
  <2>2. QED
    BY <1>1, <2>1 DEF CancelHolds, Spared
<1>5. CASE AbandonCancel(c)
  BY <1>5 DEF AbandonCancel, CallTypes, CancelType
<1>6. QED
  BY <1>2, <1>3, <1>4, <1>5 DEF CancelMove, CancelStep

\* What cancel() established lasts: a cancelled row is frozen, and a spared task
\* stays spared.
LEMMA CancelHoldsStep ==
    ASSUME Shape, [Next]_vars, CancelHolds
    PROVE  CancelHolds'
<1> USE DEF Shape
<1>1. ASSUME NEW r \in Runs, status[r] = CANCELLED
      PROVE  Terminal(r) /\ status'[r] = CANCELLED /\ owner'[r] = owner[r]
  <2>1. Terminal(r)
    BY <1>1 DEF Terminal, TERMINAL_RUN_STATUSES
  <2>2. QED
    BY <1>1, <2>1, StoreSteps, FrozenStep
<1> SUFFICES ASSUME NEW c \in Cancels
             PROVE  /\ cancel'[c].pc \in {"signalling", "gathering", "returned"} =>
                          status'[cancel'[c].run] = CANCELLED
                    /\ cancel'[c].pc = "returned"
                         /\ cancel'[c].worker = owner'[cancel'[c].run] =>
                          pc'[cancel'[c].run] \in Spared
  BY DEF CancelHolds
<1>2. CASE cancel'[c] = cancel[c]
  <2>1. cancel[c].pc \in {"signalling", "gathering", "returned"} => cancel[c].run \in Runs
    BY DEF CallTypes
  <2>2. QED
    BY <1>1, <1>2, <2>1, SparedStays DEF CancelHolds
<1>3. CASE cancel'[c].pc = "cancelling"
  BY <1>3
<1>4. CASE CancelMove(c) /\ cancel'[c].worker = cancel[c].worker /\ cancel'[c].run = cancel[c].run
  <2>1. cancel[c].run \in Runs
    BY <1>4, CancelEffect DEF CallTypes
  <2>2. pc' = pc
    BY <1>4, CancelEffect
  <2>3. cancel'[c].pc = "returned" => status[cancel[c].run] # ABSENT
    BY <1>4, CancelEstablishes, TransitionsLeaveActive
    DEF CancelMove, CancelStep, AbandonCancel, CancelDurably, SignalTask, GatherTask, CancelAt,
        CallTypes, CancelType,
        CancelHolds, CANCELLED, ABSENT
  <2>4. cancel'[c].pc = "returned" => owner'[cancel[c].run] = owner[cancel[c].run]
    BY <2>1, <2>3, RowsStay
  <2>5. QED
    BY <1>4, <2>2, <2>4, CancelEstablishes
<1>5. QED
  BY <1>2, <1>3, <1>4, CancelMoves

\* When cancel() has returned a cancelled run on its owning worker, the provider
\* is not called for it any more, even if the cancellation overtook the
\* creation of the task or arrived while a handler ran.
THEOREM CancelIsEffective == Spec => []CancelStopsProvider
<1>1. Init => CancelHolds
  BY DEF Init, CancelHolds, IdleCancel
<1>2. CancelHolds => CancelStopsProvider
  BY DEF CancelHolds, CancelStopsProvider, Spared
<1>3. QED
  BY <1>1, <1>2, CancelHoldsStep, ProcessesAreWellFormed, PTL DEF Spec
=============================================================================
