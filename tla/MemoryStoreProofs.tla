------------------------- MODULE MemoryStoreProofs ---------------------------
(***************************************************************************)
(* The in-memory store, for every number of runs, sessions, keys and       *)
(* workers and every bound: its five dictionaries agree although nothing   *)
(* rolls back, the log of an active run is numbered without a gap, and the *)
(* store implements the client contract.                                   *)
(***************************************************************************)
EXTENDS MemoryStoreRefinement, TLAPS

-----------------------------------------------------------------------------
(* Dictionaries and rows. *)

Message  == [role : {"user", "assistant"}, run : Runs \cup {NoRun}]
LogEvent == [sequence : Nat, type : StreamEventType, createdAt : Nat]
AgentRun == [status : RunStatus, session : Sessions, key : Keys \cup {NoKey},
             hash : Hashes, owner : Workers, attempts : Nat, completedAt : Nat]

\* What the dictionaries hold.  Of a log only the events of an active run
\* matter: a pruned one is never numbered from again for a running stream.
Contents ==
    /\ DOMAIN sessions \subseteq Sessions
    /\ \A s \in DOMAIN messages : messages[s] \in Seq(Message)
    /\ DOMAIN runs \subseteq Runs
    /\ \A r \in DOMAIN runs : runs[r] \in AgentRun
    /\ DOMAIN idempotency \subseteq Keys
    /\ now \in Nat

\* An ended run stays so; its session and its key were decided when it began.
RowMoves(r) ==
    /\ runs'[r] \in AgentRun
    /\ runs'[r].session = runs[r].session /\ runs'[r].key = runs[r].key
    /\ Terminal(r) => runs'[r].status = runs[r].status

RowsMove ==
    /\ DOMAIN runs' = DOMAIN runs
    /\ \A r \in DOMAIN runs : RowMoves(r)
    /\ UNCHANGED idempotency

Reservation ==
    \E r \in Runs, s \in Sessions, k \in Keys \cup {NoKey}, h \in Hashes, w \in Workers :
        \E param \in {NoSession, s} : ReserveRun(r, param, s, k, h, w)

\* A run moves to a status only out of an active one.
LEMMA TransitionsLeaveActive ==
    ASSUME NEW current, NEW target, ValidRunTransition(current, target)
    PROVE  current \in ACTIVE_RUN_STATUSES /\ target \in RunStatus
BY DEF ValidRunTransition, ALLOWED_RUN_TRANSITIONS, ACTIVE_RUN_STATUSES, RunStatus,
       TERMINAL_RUN_STATUSES

\* No status is both active and terminal.
LEMMA ActiveIsNotTerminal ==
    ASSUME NEW r, Active(r)
    PROVE  ~ Terminal(r)
BY DEF Active, Terminal, ACTIVE_RUN_STATUSES, TERMINAL_RUN_STATUSES, PENDING, RUNNING,
       COMPLETED, FAILED, CANCELLED, INTERRUPTED

\* One row is put in place of the row of an active run.
LEMMA PutMoves ==
    ASSUME Contents, NEW r \in DOMAIN runs, ~ Terminal(r), NEW row \in AgentRun,
           row.session = runs[r].session, row.key = runs[r].key,
           runs' = Put(runs, r, row), idempotency' = idempotency
    PROVE  RowsMove
<1>1. /\ DOMAIN runs' = DOMAIN runs /\ runs'[r] = row
      /\ \A x \in DOMAIN runs \ {r} : runs'[x] = runs[x]
  BY DEF Put
<1>2. ASSUME NEW x \in DOMAIN runs
      PROVE  RowMoves(x)
  <2>1. CASE x = r
    BY <1>1, <2>1 DEF RowMoves
  <2>2. CASE x # r
    BY <1>1, <2>2 DEF RowMoves, Contents
  <2>3. QED
    BY <2>1, <2>2
<1>3. QED
  BY <1>1, <1>2 DEF RowsMove

\* The row of a run that ends.
LEMMA EndedRow ==
    ASSUME Contents, NEW r \in DOMAIN runs, NEW target \in RunStatus
    PROVE  /\ Ended(r, target) \in AgentRun
           /\ Ended(r, target).status = target
           /\ Ended(r, target).session = runs[r].session
           /\ Ended(r, target).key = runs[r].key
BY DEF Contents, Ended, AgentRun

\* Whatever ends a run moves its row.
LEMMA FinishMoves ==
    ASSUME Contents, NEW r \in DOMAIN runs, NEW target, Finish(r, target)
    PROVE  /\ RowsMove /\ Active(r) /\ target \in RunStatus
           /\ runs'[r].status = target
           /\ \A x \in DOMAIN runs \ {r} : runs'[x] = runs[x]
<1>1. Active(r) /\ target \in RunStatus
  BY TransitionsLeaveActive DEF Finish, Active
<1>2. ~ Terminal(r)
  BY <1>1, ActiveIsNotTerminal
<1>3. RowsMove
  BY <1>1, <1>2, EndedRow, PutMoves DEF Finish
<1>4. runs'[r] = Ended(r, target) /\ \A x \in DOMAIN runs \ {r} : runs'[x] = runs[x]
  BY DEF Finish, Put
<1>5. QED
  BY <1>1, <1>3, <1>4, EndedRow

\* Every step reserves a run or moves the rows it finds.
LEMMA RowStep ==
    ASSUME Contents, [Next]_vars
    PROVE  Reservation \/ RowsMove
<1>1. ASSUME UNCHANGED <<runs, idempotency>>
      PROVE  RowsMove
  BY <1>1 DEF RowsMove, RowMoves, Contents
<1>2. CASE SessionStep
  BY <1>1, <1>2 DEF SessionStep, CreateSession, AppendMessage, ClearSession, Rewrite
<1>3. CASE ReservationStep
  BY <1>3 DEF ReservationStep, Reservation
<1>4. ASSUME NEW r \in DOMAIN runs, NEW w \in Workers, MarkRunRunning(r, w)
      PROVE  RowsMove
  <2>1. PICK row : row = [runs[r] EXCEPT !.status = RUNNING, !.owner = w]
    OBVIOUS
  <2>2. row \in AgentRun /\ row.session = runs[r].session /\ row.key = runs[r].key
    BY <2>1 DEF Contents, AgentRun, RunStatus, ACTIVE_RUN_STATUSES
  <2>3. ~ Terminal(r)
    BY <1>4, TransitionsLeaveActive, ActiveIsNotTerminal DEF MarkRunRunning, Active
  <2>4. QED
    BY <1>4, <2>1, <2>2, <2>3, PutMoves DEF MarkRunRunning
<1>5. ASSUME NEW r \in DOMAIN runs, IncrementRunAttempt(r)
      PROVE  RowsMove
  <2>1. PICK row : row = [runs[r] EXCEPT !.attempts = @ + 1]
    OBVIOUS
  <2>2. row \in AgentRun /\ row.session = runs[r].session /\ row.key = runs[r].key
    BY <2>1 DEF Contents, AgentRun
  <2>3. Active(r)
    BY <1>5, TransitionsLeaveActive DEF IncrementRunAttempt, Active, ACTIVE_RUN_STATUSES
  <2>4. QED
    BY <1>5, <2>1, <2>2, <2>3, PutMoves, ActiveIsNotTerminal DEF IncrementRunAttempt
<1>6. ASSUME NEW r \in DOMAIN runs, NEW target, Finish(r, target)
      PROVE  RowsMove
  BY <1>6, FinishMoves
<1>7. CASE RunStep
  BY <1>1, <1>4, <1>5, <1>6, <1>7
  DEF RunStep, CancelRun, AppendStreamEvent, CommitRunSuccess, FailRun
<1>8. ASSUME NEW w \in Workers, NEW sameWorker, Interrupt(w, sameWorker)
      PROVE  RowsMove
  <2>1. INTERRUPTED \in RunStatus
    BY DEF RunStatus, TERMINAL_RUN_STATUSES
  <2>2. DOMAIN runs' = DOMAIN runs /\ idempotency' = idempotency
    BY <1>8 DEF Interrupt
  <2>3. ASSUME NEW r \in DOMAIN runs
        PROVE  RowMoves(r)
    <3>1. runs'[r] = runs[r] \/ (Active(r) /\ runs'[r] = Ended(r, INTERRUPTED))
      BY <1>8 DEF Interrupt
    <3>2. CASE runs'[r] = runs[r]
      BY <3>2 DEF RowMoves, Contents
    <3>3. CASE Active(r) /\ runs'[r] = Ended(r, INTERRUPTED)
      BY <2>1, <3>3, EndedRow, ActiveIsNotTerminal DEF RowMoves
    <3>4. QED
      BY <3>1, <3>2, <3>3
  <2>4. QED
    BY <2>2, <2>3 DEF RowsMove
<1>9. CASE MaintenanceStep
  BY <1>1, <1>8, <1>9 DEF MaintenanceStep, InterruptWorkerRuns, ReconcileOrphanedRuns,
     PruneStreamEvents, SetReady, Tick
<1>10. CASE UNCHANGED vars
  BY <1>1, <1>10 DEF vars
<1>11. QED
  BY <1>2, <1>3, <1>7, <1>9, <1>10 DEF Next

-----------------------------------------------------------------------------
(* The dictionaries agree. *)

\* The message lists of the sessions there are, and of no others.
Lists == /\ DOMAIN sessions \subseteq Sessions
         /\ DOMAIN messages = DOMAIN sessions
         /\ \A s \in DOMAIN messages : messages[s] \in Seq(Message)

\* A session gets its version and its list together, and keeps both.
LEMMA ListsGrow ==
    ASSUME Contents, DictionariesAgree, [Next]_vars
    PROVE  Lists' /\ DOMAIN sessions \subseteq DOMAIN sessions'
<1> DEFINE Goal == Lists' /\ DOMAIN sessions \subseteq DOMAIN sessions'
<1> SUFFICES Goal
  OBVIOUS
<1>1. Lists
  BY DEF Lists, Contents, DictionariesAgree
<1>2. ASSUME UNCHANGED <<sessions, messages>>
      PROVE  Goal
  BY <1>1, <1>2 DEF Lists
<1>3. ASSUME NEW s \in Sessions, NEW n, NEW history \in Seq(Message),
             sessions' = Put(sessions, s, n), messages' = Put(messages, s, history)
      PROVE  Goal
  BY <1>1, <1>3 DEF Lists, Put
<1> HIDE DEF Goal
<1>4. <<>> \in Seq(Message)
  OBVIOUS
<1>5. ASSUME NEW s \in Sessions, NEW role \in {"user", "assistant"}, AppendMessage(s, role)
      PROVE  Goal
  <2>1. messages[s] \in Seq(Message)
    BY <1>5 DEF AppendMessage, Contents
  <2>2. [role |-> role, run |-> NoRun] \in Message
    BY DEF Message
  <2>3. Append(messages[s], [role |-> role, run |-> NoRun]) \in Seq(Message)
    BY <2>1, <2>2
  <2>4. QED
    BY <1>3, <1>5, <2>3 DEF AppendMessage, Rewrite
<1>6. CASE SessionStep
  BY <1>3, <1>4, <1>5, <1>6 DEF SessionStep, CreateSession, ClearSession, Rewrite
<1>7. CASE ReservationStep
  BY <1>2, <1>3, <1>4, <1>7, ZenonT(60) DEF ReservationStep, ReserveRun
<1>8. ASSUME NEW r \in DOMAIN runs, CommitRunSuccess(r)
      PROVE  Goal
  <2>1. PICK turn : turn = <<[role |-> "user", run |-> r], [role |-> "assistant", run |-> r]>>
    OBVIOUS
  <2>2. turn \in Seq(Message)
    BY <2>1 DEF Message, Contents
  <2>3. runs[r].session \in DOMAIN messages /\ runs[r].session \in Sessions
    BY DEF DictionariesAgree, Contents
  <2>4. messages[runs[r].session] \o turn \in Seq(Message)
    BY <2>2, <2>3 DEF Contents
  <2>5. QED
    BY <1>3, <1>8, <2>1, <2>3, <2>4 DEF CommitRunSuccess
<1>9. CASE RunStep
  BY <1>2, <1>8, <1>9
  DEF RunStep, MarkRunRunning, CancelRun, IncrementRunAttempt, AppendStreamEvent, FailRun
<1>10. CASE MaintenanceStep
  BY <1>2, <1>10 DEF MaintenanceStep, InterruptWorkerRuns, ReconcileOrphanedRuns, Interrupt,
     PruneStreamEvents, SetReady, Tick
<1>11. CASE UNCHANGED vars
  BY <1>2, <1>11 DEF vars
<1>12. QED
  BY <1>6, <1>7, <1>9, <1>10, <1>11 DEF Next

\* A log belongs to a run from its reservation.
LEMMA LogsGrow ==
    ASSUME Contents, DictionariesAgree, [Next]_vars
    PROVE  DOMAIN log' = DOMAIN runs'
<1>1. DOMAIN log = DOMAIN runs
  BY DEF DictionariesAgree
<1>2. ASSUME NEW r \in DOMAIN runs, NEW type, Publish(r, type)
      PROVE  DOMAIN log' = DOMAIN runs
  BY <1>1, <1>2 DEF Publish, Put
<1>3. ASSUME NEW r \in DOMAIN runs, NEW row, runs' = Put(runs, r, row)
      PROVE  DOMAIN runs' = DOMAIN runs
  BY <1>3 DEF Put
<1>4. CASE SessionStep
  BY <1>1, <1>4 DEF SessionStep, CreateSession, AppendMessage, ClearSession, Rewrite
<1>5. CASE ReservationStep
  BY <1>1, <1>5 DEF ReservationStep, ReserveRun, Put
<1>6. CASE RunStep
  BY <1>1, <1>2, <1>3, <1>6 DEF RunStep, MarkRunRunning, CancelRun, IncrementRunAttempt,
     AppendStreamEvent, CommitRunSuccess, FailRun, Finish
<1>7. CASE MaintenanceStep
  BY <1>1, <1>7 DEF MaintenanceStep, InterruptWorkerRuns, ReconcileOrphanedRuns, Interrupt,
     PruneStreamEvents, SetReady, Tick
<1>8. CASE UNCHANGED vars
  BY <1>1, <1>8 DEF vars
<1>9. QED
  BY <1>4, <1>5, <1>6, <1>7, <1>8 DEF Next

\* The clock of the model.
LEMMA ClockStep ==
    ASSUME Contents, [Next]_vars
    PROVE  now' \in Nat
<1>1. now \in Nat
  BY DEF Contents
<1>2. CASE SessionStep
  BY <1>1, <1>2 DEF SessionStep, CreateSession, AppendMessage, ClearSession, Rewrite
<1>3. CASE ReservationStep
  BY <1>1, <1>3 DEF ReservationStep, ReserveRun
<1>4. CASE RunStep
  BY <1>1, <1>4 DEF RunStep, MarkRunRunning, CancelRun, IncrementRunAttempt,
     AppendStreamEvent, CommitRunSuccess, FailRun, Finish
<1>5. CASE MaintenanceStep
  BY <1>1, <1>5 DEF MaintenanceStep, InterruptWorkerRuns, ReconcileOrphanedRuns, Interrupt,
     PruneStreamEvents, SetReady, Tick
<1>6. CASE UNCHANGED vars
  BY <1>1, <1>6 DEF vars
<1>7. QED
  BY <1>2, <1>3, <1>4, <1>5, <1>6 DEF Next

\* A run's row and its key are recorded together, and the key is read first.
LEMMA KeysStep ==
    ASSUME Contents, DictionariesAgree, Reservation \/ RowsMove
    PROVE  /\ DOMAIN runs' \subseteq Runs
           /\ \A r \in DOMAIN runs' : runs'[r] \in AgentRun
           /\ DOMAIN idempotency' \subseteq Keys
           /\ \A r \in DOMAIN runs' : runs'[r].key # NoKey =>
                 /\ runs'[r].key \in DOMAIN idempotency'
                 /\ idempotency'[runs'[r].key] = r
           /\ \A k \in DOMAIN idempotency' :
                 /\ idempotency'[k] \in DOMAIN runs'
                 /\ runs'[idempotency'[k]].key = k
<1>1. CASE RowsMove
  BY <1>1 DEF RowsMove, RowMoves, Contents, DictionariesAgree
<1>2. CASE Reservation
  <2>1. PICK r \in Runs, s \in Sessions, k \in Keys \cup {NoKey}, h \in Hashes, w \in Workers,
             param \in Sessions \cup {NoSession} : ReserveRun(r, param, s, k, h, w)
    BY <1>2 DEF Reservation
  <2>2. PICK row : row = NewRun(s, k, h, w)
    OBVIOUS
  <2>3. row \in AgentRun /\ row.key = k
    BY <2>2 DEF NewRun, AgentRun, RunStatus, ACTIVE_RUN_STATUSES
  <2>4. /\ r \notin DOMAIN runs
        /\ DOMAIN runs' = DOMAIN runs \cup {r} /\ runs'[r] = row
        /\ \A x \in DOMAIN runs : runs'[x] = runs[x]
    BY <2>1, <2>2 DEF ReserveRun, Put
  <2>5. CASE k = NoKey
    <3>1. idempotency' = idempotency
      BY <2>1, <2>5 DEF ReserveRun
    <3>2. QED
      BY <2>3, <2>4, <2>5, <3>1 DEF Contents, DictionariesAgree
  <2>6. CASE k # NoKey
    <3>1. /\ k \notin DOMAIN idempotency
          /\ DOMAIN idempotency' = DOMAIN idempotency \cup {k} /\ idempotency'[k] = r
          /\ \A x \in DOMAIN idempotency : idempotency'[x] = idempotency[x]
      BY <2>1, <2>6 DEF ReserveRun, Put
    <3>2. QED
      BY <2>3, <2>4, <2>6, <3>1 DEF Contents, DictionariesAgree
  <2>7. QED
    BY <2>5, <2>6
<1>3. QED
  BY <1>1, <1>2

\* A run's session is there when the run is reserved.
LEMMA SessionsStep ==
    ASSUME Contents, DictionariesAgree, [Next]_vars
    PROVE  \A r \in DOMAIN runs' : runs'[r].session \in DOMAIN sessions'
<1>1. CASE RowsMove
  BY <1>1, ListsGrow DEF RowsMove, RowMoves, DictionariesAgree
<1>2. CASE Reservation
  <2>1. PICK r \in Runs, s \in Sessions, k \in Keys \cup {NoKey}, h \in Hashes, w \in Workers,
             param \in Sessions \cup {NoSession} : ReserveRun(r, param, s, k, h, w)
    BY <1>2 DEF Reservation
  <2>2. runs'[r].session = s /\ DOMAIN runs' = DOMAIN runs \cup {r}
        /\ \A x \in DOMAIN runs : runs'[x] = runs[x]
    BY <2>1 DEF ReserveRun, Put, NewRun
  <2>3. s \in DOMAIN sessions'
    BY <2>1 DEF ReserveRun, Put
  <2>4. QED
    BY <2>2, <2>3, ListsGrow DEF DictionariesAgree
<1>3. QED
  BY <1>1, <1>2, RowStep

\* Contents and agreement are inductive together.
LEMMA AgreementStep ==
    Contents /\ DictionariesAgree /\ [Next]_vars => Contents' /\ DictionariesAgree'
<1> SUFFICES ASSUME Contents, DictionariesAgree, [Next]_vars
             PROVE  Contents' /\ DictionariesAgree'
  OBVIOUS
<1>1. Contents'
  BY RowStep, KeysStep, ListsGrow, ClockStep DEF Contents, Lists
<1>2. DictionariesAgree'
  BY RowStep, KeysStep, ListsGrow, LogsGrow, SessionsStep DEF DictionariesAgree, Lists
<1>3. QED
  BY <1>1, <1>2

\* At the start the dictionaries are empty.
LEMMA InitAgrees == Init => Contents /\ DictionariesAgree
BY DEF Init, Contents, DictionariesAgree

\* The rows of the dictionaries stay well typed.
LEMMA ContentsHold == Spec => [](Contents /\ DictionariesAgree)
BY AgreementStep, InitAgrees, PTL DEF Spec

\* The five dictionaries agree although the store has no rollback: every
\* operation decides before its first assignment.
THEOREM DictionariesAlwaysAgree == Spec => []DictionariesAgree
BY ContentsHold, PTL

-----------------------------------------------------------------------------
(* Numbering by length. *)

\* The log of a run that is still active is whole: it lost no event, so its
\* length is the number of its newest one.
ActiveLogsAreWhole ==
    \A r \in DOMAIN runs : Active(r) =>
        log[r] \in Seq(LogEvent) /\ \A i \in DOMAIN log[r] : log[r][i].sequence = i

\* A run that is active after a step was active before it, if it was known.
LEMMA ActiveBefore ==
    ASSUME Contents, RowsMove, NEW r \in DOMAIN runs, Active(r)'
    PROVE  Active(r)
<1>1. runs[r].status \in RunStatus
  BY DEF Contents, AgentRun
<1>2. ~ Terminal(r)
  <2>1. ASSUME Terminal(r)
        PROVE  FALSE
    <3>1. runs'[r].status = runs[r].status
      BY <2>1 DEF RowsMove, RowMoves
    <3>2. Active(r)
      BY <3>1 DEF Active
    <3>3. QED
      BY <2>1, <3>2, ActiveIsNotTerminal
  <2>2. QED
    BY <2>1
<1>3. QED
  BY <1>1, <1>2 DEF Active, Terminal, RunStatus

\* A step leaves the log of a run that stays active alone or appends to it.
LEMMA ActiveLogGrows ==
    ASSUME Contents, DictionariesAgree, [Next]_vars, RowsMove,
           NEW r \in DOMAIN runs, Active(r)'
    PROVE  \/ log'[r] = log[r]
           \/ \E type \in StreamEventType : log'[r] = Append(log[r], NewEvent(r, type))
<1> DEFINE Goal == \/ log'[r] = log[r]
                   \/ \E type \in StreamEventType : log'[r] = Append(log[r], NewEvent(r, type))
<1> SUFFICES Goal
  OBVIOUS
<1>1. Active(r) /\ r \in DOMAIN log
  BY ActiveBefore DEF DictionariesAgree
<1>2. ASSUME UNCHANGED log
      PROVE  Goal
  BY <1>2
<1>3. ASSUME NEW x \in DOMAIN runs, NEW type, Publish(x, type), x # r
      PROVE  Goal
  BY <1>1, <1>3 DEF Publish, Put
<1>4. ASSUME NEW type \in StreamEventType, Publish(r, type)
      PROVE  Goal
  BY <1>4 DEF Publish, Put
<1> HIDE DEF Goal
<1>5. CASE SessionStep
  BY <1>2, <1>5 DEF SessionStep, CreateSession, AppendMessage, ClearSession, Rewrite
<1>6. CASE ReservationStep
  <2>1. PICK x \in Runs, s \in Sessions, k \in Keys \cup {NoKey}, h \in Hashes, w \in Workers,
             param \in Sessions \cup {NoSession} : ReserveRun(x, param, s, k, h, w)
    BY <1>6 DEF ReservationStep
  <2>2. x \notin DOMAIN runs /\ runs' = Put(runs, x, NewRun(s, k, h, w))
    BY <2>1 DEF ReserveRun
  <2>3. x \in DOMAIN runs'
    BY <2>2 DEF Put
  <2>4. QED
    BY <2>2, <2>3 DEF RowsMove
<1>7. ASSUME NEW x \in DOMAIN runs, NEW target \in {COMPLETED, FAILED, CANCELLED}, Finish(x, target)
      PROVE  Goal
  <2>1. runs'[x].status = target
    BY <1>7, FinishMoves
  <2>2. x # r
    BY <1>7, <2>1 DEF Active, ACTIVE_RUN_STATUSES, PENDING, RUNNING, COMPLETED, FAILED, CANCELLED
  <2>3. QED
    BY <1>3, <1>7, <2>2 DEF Finish
<1>8. ASSUME NEW x \in DOMAIN runs, NEW type \in StreamEventType, Publish(x, type)
      PROVE  Goal
  BY <1>3, <1>4, <1>8
<1>9. CASE RunStep
  <2>1. RUN_STARTED \in StreamEventType /\ RESPONSE_DELTA \in StreamEventType
    BY DEF StreamEventType
  <2>2. QED
    BY <1>2, <1>7, <1>8, <1>9, <2>1
    DEF RunStep, MarkRunRunning, CancelRun, IncrementRunAttempt, AppendStreamEvent,
        CommitRunSuccess, FailRun
<1>10. ASSUME NEW w \in Workers, NEW sameWorker, Interrupt(w, sameWorker)
       PROVE  Goal
  <2>1. CASE runs'[r] = Ended(r, INTERRUPTED)
    <3>1. INTERRUPTED \in RunStatus
      BY DEF RunStatus, TERMINAL_RUN_STATUSES
    <3>2. runs'[r].status = INTERRUPTED
      BY <2>1, <3>1, EndedRow
    <3>3. QED
      BY <3>2 DEF Active, ACTIVE_RUN_STATUSES, PENDING, RUNNING, INTERRUPTED
  <2>2. CASE runs'[r] # Ended(r, INTERRUPTED)
    BY <1>1, <1>10, <2>2 DEF Interrupt, Goal
  <2>3. QED
    BY <2>1, <2>2
<1>11. ASSUME PruneStreamEvents
       PROVE  Goal
  BY <1>1, <1>11, ActiveIsNotTerminal DEF PruneStreamEvents, Goal
<1>12. CASE MaintenanceStep
  BY <1>2, <1>10, <1>11, <1>12
  DEF MaintenanceStep, InterruptWorkerRuns, ReconcileOrphanedRuns, SetReady, Tick
<1>13. CASE UNCHANGED vars
  BY <1>2, <1>13 DEF vars
<1>14. QED
  BY <1>5, <1>6, <1>9, <1>12, <1>13 DEF Next

\* Appending an event numbered past the length keeps a log numbered.
LEMMA AppendIsNumbered ==
    ASSUME NEW list \in Seq(LogEvent), \A i \in DOMAIN list : list[i].sequence = i,
           NEW e \in LogEvent, e.sequence = Len(list) + 1
    PROVE  /\ Append(list, e) \in Seq(LogEvent)
           /\ \A i \in DOMAIN Append(list, e) : Append(list, e)[i].sequence = i
OBVIOUS

\* Active logs stay whole: only the logs of ended runs are pruned, and no run
\* comes back to life.
LEMMA ActiveLogsStep ==
    Contents /\ DictionariesAgree /\ ActiveLogsAreWhole /\ [Next]_vars => ActiveLogsAreWhole'
<1> SUFFICES ASSUME Contents, DictionariesAgree, ActiveLogsAreWhole, [Next]_vars,
                    NEW r \in DOMAIN runs', Active(r)'
             PROVE  /\ log'[r] \in Seq(LogEvent)
                    /\ \A i \in DOMAIN log'[r] : log'[r][i].sequence = i
  BY DEF ActiveLogsAreWhole
<1>1. CASE RowsMove
  <2>1. r \in DOMAIN runs /\ Active(r)
    BY <1>1, ActiveBefore DEF RowsMove
  <2>2. log[r] \in Seq(LogEvent) /\ \A i \in DOMAIN log[r] : log[r][i].sequence = i
    BY <2>1 DEF ActiveLogsAreWhole
  <2>3. ASSUME NEW type \in StreamEventType
        PROVE  NewEvent(r, type) \in LogEvent /\ NewEvent(r, type).sequence = Len(log[r]) + 1
    BY <2>2 DEF NewEvent, LogEvent, Contents
  <2>4. QED
    BY <1>1, <2>1, <2>2, <2>3, ActiveLogGrows, AppendIsNumbered
<1>2. CASE Reservation
  <2>1. PICK x \in Runs, s \in Sessions, k \in Keys \cup {NoKey}, h \in Hashes, w \in Workers,
             param \in Sessions \cup {NoSession} : ReserveRun(x, param, s, k, h, w)
    BY <1>2 DEF Reservation
  <2>2. CASE r = x
    <3>1. log'[r] = <<>>
      BY <2>1, <2>2 DEF ReserveRun, Put
    <3>2. QED
      BY <3>1
  <2>3. CASE r # x
    <3>1. r \in DOMAIN runs /\ runs'[r] = runs[r] /\ log'[r] = log[r]
      BY <2>1, <2>3 DEF ReserveRun, Put, DictionariesAgree
    <3>2. QED
      BY <3>1 DEF Active, ActiveLogsAreWhole
  <2>4. QED
    BY <2>2, <2>3
<1>3. QED
  BY <1>1, <1>2, RowStep

\* Numbering by the length of the list never repeats or skips a number while
\* somebody may be reading a run that is going on.
THEOREM ActiveLogsAreNumbered == Spec => []ActiveLogIsNumbered
<1>1. Init => ActiveLogsAreWhole
  BY DEF Init, ActiveLogsAreWhole
<1>2. ActiveLogsAreWhole => ActiveLogIsNumbered
  BY DEF ActiveLogsAreWhole, ActiveLogIsNumbered
<1>3. QED
  BY <1>1, <1>2, ActiveLogsStep, ContentsHold, PTL DEF Spec

-----------------------------------------------------------------------------
(* Every operation is a step of the contract. *)

\* What the contract sees of a run, of a key and of a list of messages.
Phase(r)  == IF Known(r) THEN PhaseOf(r) ELSE ABSENT
On(r)     == IF Known(r) THEN runs[r].session ELSE NoSession
Bound(k)  == IF k \in DOMAIN idempotency THEN {idempotency[k]} ELSE {}
RunsIn(t) == {t[i].run : i \in DOMAIN t}

SamePhases == \A r \in Runs : Phase(r)' = Phase(r)
SameOn     == \A r \in Runs : On(r)' = On(r)
SameKeys   == \A k \in Keys : Bound(k)' = Bound(k)
SameTurns  == \A s \in Sessions : TurnsOf(s)' = TurnsOf(s)

\* The contract and the store share the vocabulary of the run lifecycle.
LEMMA SameVocabulary ==
    /\ Contract!ABSENT = ABSENT
    /\ Contract!COMPLETED = COMPLETED
    /\ Contract!TERMINAL_RUN_STATUSES = TERMINAL_RUN_STATUSES
BY DEF Contract!ABSENT, Contract!COMPLETED, Contract!TERMINAL_RUN_STATUSES, Contract!FAILED,
       Contract!CANCELLED, Contract!INTERRUPTED, ABSENT, TERMINAL_RUN_STATUSES, COMPLETED,
       FAILED, CANCELLED, INTERRUPTED

\* A step that keeps all four is a stuttering step of the contract.
LEMMA ContractStutters ==
    ASSUME SamePhases, SameOn, SameKeys, SameTurns
    PROVE  UNCHANGED Contract!contractVars
BY DEF SamePhases, SameOn, SameKeys, SameTurns, Contract!contractVars, Phase, On, Bound, Column

\* The phase is "active" exactly while the run is.
LEMMA PhaseIsActive ==
    ASSUME Contents, NEW r \in Runs
    PROVE  Phase(r) = "active" <=> Known(r) /\ Active(r)
<1>1. CASE Known(r)
  <2>1. runs[r].status \in RunStatus
    BY <1>1 DEF Contents, AgentRun, Known
  <2>2. QED
    BY <1>1, <2>1 DEF Phase, PhaseOf, Active, RunStatus, ACTIVE_RUN_STATUSES,
       TERMINAL_RUN_STATUSES, PENDING, RUNNING, COMPLETED, FAILED, CANCELLED, INTERRUPTED
<1>2. CASE ~ Known(r)
  BY <1>2 DEF Phase, ABSENT
<1>3. QED
  BY <1>1, <1>2

\* Rows that only move keep their sessions and their keys.
LEMMA MovesKeepSessions ==
    ASSUME RowsMove
    PROVE  SameOn /\ SameKeys
BY DEF RowsMove, RowMoves, SameOn, SameKeys, On, Bound, Known

\* Where no list of messages changes no turn does.
LEMMA ListsKeepTurns ==
    ASSUME messages' = messages
    PROVE  SameTurns
BY DEF SameTurns, TurnsOf, TranscriptOf

\* A list of messages that was put in place of another.
LEMMA PutTurns ==
    ASSUME NEW s \in Sessions, NEW history, messages' = Put(messages, s, history)
    PROVE  /\ TurnsOf(s)' = RunsIn(history) \ {NoRun}
           /\ \A x \in Sessions \ {s} : TurnsOf(x)' = TurnsOf(x)
<1>1. s \in DOMAIN messages' /\ messages'[s] = history
  BY DEF Put
<1>2. \A x \in Sessions \ {s} :
          /\ x \in DOMAIN messages' <=> x \in DOMAIN messages
          /\ x \in DOMAIN messages => messages'[x] = messages[x]
  BY DEF Put
<1>3. QED
  BY <1>1, <1>2 DEF TurnsOf, TranscriptOf, RunsIn

\* The runs of a list with one more message.
LEMMA RunsInAppend ==
    ASSUME NEW t \in Seq(Message), NEW m \in Message
    PROVE  RunsIn(Append(t, m)) = RunsIn(t) \cup {m.run}
<1>1. /\ Len(t) \in Nat /\ DOMAIN t = 1 .. Len(t) /\ DOMAIN Append(t, m) = 1 .. (Len(t) + 1)
      /\ \A i \in 1 .. Len(t) : Append(t, m)[i] = t[i]
      /\ Append(t, m)[Len(t) + 1] = m
  OBVIOUS
<1>2. QED
  BY <1>1 DEF RunsIn

\* The runs of a list with one more turn.
LEMMA RunsInCommit ==
    ASSUME NEW t \in Seq(Message), NEW r \in Runs
    PROVE  RunsIn(t \o <<[role |-> "user", run |-> r], [role |-> "assistant", run |-> r]>>)
             = RunsIn(t) \cup {r}
<1> DEFINE u == [role |-> "user", run |-> r]
           a == [role |-> "assistant", run |-> r]
           n == t \o <<u, a>>
<1>1. /\ Len(t) \in Nat /\ DOMAIN t = 1 .. Len(t) /\ DOMAIN n = 1 .. (Len(t) + 2)
      /\ \A i \in 1 .. Len(t) : n[i] = t[i]
      /\ n[Len(t) + 1] = u /\ n[Len(t) + 2] = a
  <2>1. <<u, a>> \in Seq(Message) /\ Len(<<u, a>>) = 2
    BY DEF Message
  <2>2. QED
    BY <2>1
<1>2. u.run = r /\ a.run = r
  OBVIOUS
<1> HIDE DEF u, a, n
<1>3. \A i \in DOMAIN n : i \in 1 .. Len(t) \/ i = Len(t) + 1 \/ i = Len(t) + 2
  BY <1>1
<1>4. DOMAIN t \subseteq DOMAIN n /\ Len(t) + 1 \in DOMAIN n
  BY <1>1
<1>5. RunsIn(n) = RunsIn(t) \cup {r}
  BY <1>1, <1>2, <1>3, <1>4 DEF RunsIn
<1>6. QED
  BY <1>5 DEF n, u, a

\* A reservation begins a run on an idle session and under an unused key.
LEMMA ReserveBegins ==
    ASSUME Contents, DictionariesAgree, NEW r \in Runs, NEW s \in Sessions,
           NEW k \in Keys \cup {NoKey}, NEW h \in Hashes, NEW w \in Workers,
           NEW param \in {NoSession, s}, ReserveRun(r, param, s, k, h, w)
    PROVE  Contract!Begin(r, s)
<1>1. /\ r \notin DOMAIN runs /\ k \notin DOMAIN idempotency
      /\ DOMAIN runs' = DOMAIN runs \cup {r} /\ runs'[r] = NewRun(s, k, h, w)
      /\ \A x \in DOMAIN runs : runs'[x] = runs[x]
  BY DEF ReserveRun, Put
<1>2. Phase(r) = ABSENT
  BY <1>1 DEF Phase, Known
<1>3. \A x \in Runs : On(x) = s => Phase(x) # "active"
  <2>1. s \in DOMAIN sessions => ~ Busy(s)
    BY NullsAreOutside DEF ReserveRun
  <2>2. QED
    BY <2>1, PhaseIsActive, NullsAreOutside DEF DictionariesAgree, Busy, On, Known
<1>4. \A x \in Runs : Phase(x)' = IF x = r THEN "active" ELSE Phase(x)
  <2>1. Active(r)'
    BY <1>1 DEF Active, NewRun, ACTIVE_RUN_STATUSES
  <2>2. QED
    BY <1>1, <2>1 DEF Phase, PhaseOf, Known, Active
<1>5. \A x \in Runs : On(x)' = IF x = r THEN s ELSE On(x)
  BY <1>1 DEF On, Known, NewRun
<1>6. SameTurns
  <2>1. CASE messages' = messages
    BY <2>1, ListsKeepTurns
  <2>2. CASE s \notin DOMAIN sessions /\ messages' = Put(messages, s, <<>>)
    <3>1. TurnsOf(s) = {}
      BY <2>2 DEF DictionariesAgree, TurnsOf, TranscriptOf
    <3>2. RunsIn(<<>>) = {}
      BY DEF RunsIn
    <3>3. QED
      BY <2>2, <3>1, <3>2, PutTurns DEF SameTurns
  <2>3. QED
    BY <2>1, <2>2 DEF ReserveRun
<1>7. CASE k = NoKey
  <2>1. SameKeys
    BY <1>7 DEF ReserveRun, SameKeys, Bound
  <2>2. QED
    BY <1>2, <1>3, <1>4, <1>5, <1>6, <2>1, SameVocabulary
    DEF Contract!Begin, Contract!Idle, SameKeys, SameTurns, Phase, On, Bound, Column
<1>8. CASE k \in Keys
  <2>1. \A x \in Keys : Bound(x)' = IF x = k THEN {r} ELSE Bound(x)
    BY <1>1, <1>8, NullsAreOutside DEF ReserveRun, Put, Bound
  <2>2. Bound(k) = {}
    BY <1>1 DEF Bound
  <2>3. \E y \in Keys :
           /\ [x \in Keys |-> Bound(x)][y] = {}
           /\ [x \in Keys |-> Bound(x)]' = [[x \in Keys |-> Bound(x)] EXCEPT ![y] = {r}]
    BY <1>8, <2>1, <2>2
  <2>4. QED
    BY <1>2, <1>3, <1>4, <1>5, <1>6, <2>3, SameVocabulary
    DEF Contract!Begin, Contract!Idle, SameTurns, Phase, On, Bound, Column
<1>9. QED
  BY <1>7, <1>8

\* The commit completes the run and adds it to the turns of its session alone.
LEMMA CommitCompletes ==
    ASSUME Contents, DictionariesAgree, NEW r \in DOMAIN runs, CommitRunSuccess(r)
    PROVE  Contract!Complete(r)
<1>1. PICK s : s = runs[r].session
  OBVIOUS
<1>2. r \in Runs /\ r # NoRun /\ s \in Sessions /\ s \in DOMAIN messages
  BY <1>1, NullsAreOutside DEF Contents, DictionariesAgree, AgentRun
<1>3. /\ RowsMove /\ Active(r) /\ runs'[r].status = COMPLETED
      /\ \A x \in DOMAIN runs \ {r} : runs'[x] = runs[x]
  BY FinishMoves DEF CommitRunSuccess
<1>4. \A x \in Runs : Phase(x)' = IF x = r THEN COMPLETED ELSE Phase(x)
  <2>1. DOMAIN runs' = DOMAIN runs /\ r \in DOMAIN runs
    BY <1>3 DEF RowsMove
  <2>2. QED
    BY <1>3, <2>1 DEF Phase, PhaseOf, Known, Active, ACTIVE_RUN_STATUSES, PENDING, RUNNING,
       COMPLETED
<1>5. SameOn /\ SameKeys
  BY <1>3, MovesKeepSessions
<1>6. \A x \in Sessions : TurnsOf(x)' = IF x = s THEN TurnsOf(x) \cup {r} ELSE TurnsOf(x)
  <2>1. messages' = Put(messages, s, messages[s] \o
                        <<[role |-> "user", run |-> r], [role |-> "assistant", run |-> r]>>)
    BY <1>1 DEF CommitRunSuccess
  <2>2. RunsIn(messages[s] \o <<[role |-> "user", run |-> r], [role |-> "assistant", run |-> r]>>)
          = RunsIn(messages[s]) \cup {r}
    BY <1>2, RunsInCommit DEF Contents
  <2>3. TurnsOf(s) = RunsIn(messages[s]) \ {NoRun}
    BY <1>2 DEF TurnsOf, TranscriptOf, RunsIn
  <2>4. TurnsOf(s)' = TurnsOf(s) \cup {r}
    BY <1>2, <2>1, <2>2, <2>3, PutTurns
  <2>5. \A x \in Sessions \ {s} : TurnsOf(x)' = TurnsOf(x)
    BY <1>2, <2>1, PutTurns
  <2>6. QED
    BY <2>4, <2>5
<1>7. Phase(r) = "active" /\ On(r) = s
  BY <1>1, <1>2, <1>3, PhaseIsActive DEF On, Known
<1>8. QED
  BY <1>2, <1>4, <1>5, <1>6, <1>7, SameVocabulary
  DEF Contract!Complete, SameOn, SameKeys, Phase, On, Bound, Column

\* What ends runs without completing them abandons them.
LEMMA EndingsAbandon ==
    ASSUME Contents, RowsMove, NEW outcome \in TERMINAL_RUN_STATUSES \ {COMPLETED},
           NEW ending \in SUBSET DOMAIN runs, \A r \in ending : Active(r),
           \A r \in DOMAIN runs : IF r \in ending THEN runs'[r].status = outcome
                                                  ELSE runs'[r] = runs[r],
           messages' = messages
    PROVE  Contract!Abandon(ending, outcome)
<1>1. ending \in SUBSET Runs /\ DOMAIN runs' = DOMAIN runs
  BY DEF Contents, RowsMove
<1>2. \A r \in Runs : Phase(r)' = IF r \in ending THEN outcome ELSE Phase(r)
  BY <1>1 DEF Phase, PhaseOf, Known, Active, ACTIVE_RUN_STATUSES, TERMINAL_RUN_STATUSES,
         PENDING, RUNNING, COMPLETED, FAILED, CANCELLED, INTERRUPTED
<1>3. \A r \in ending : Phase(r) = "active"
  BY <1>1, PhaseIsActive DEF Known
<1>4. SameTurns /\ SameOn /\ SameKeys
  BY ListsKeepTurns, MovesKeepSessions
<1>5. QED
  BY <1>1, <1>2, <1>3, <1>4
  DEF Contract!Abandon, SameOn, SameKeys, SameTurns, Phase, On, Bound, Column

\* A message of the compatibility API belongs to no run.
LEMMA AppendIsInvisible ==
    ASSUME Contents, DictionariesAgree, NEW s \in Sessions, NEW role \in {"user", "assistant"},
           AppendMessage(s, role)
    PROVE  SameTurns
<1>1. s \in DOMAIN messages /\ messages[s] \in Seq(Message)
  BY DEF AppendMessage, Contents
<1>2. [role |-> role, run |-> NoRun] \in Message
  BY DEF Message
<1>3. RunsIn(Append(messages[s], [role |-> role, run |-> NoRun])) = RunsIn(messages[s]) \cup {NoRun}
  BY <1>1, <1>2, RunsInAppend
<1>4. TurnsOf(s) = RunsIn(messages[s]) \ {NoRun}
  BY <1>1 DEF TurnsOf, TranscriptOf, RunsIn
<1>5. messages' = Put(messages, s, Append(messages[s], [role |-> role, run |-> NoRun]))
  BY DEF AppendMessage, Rewrite
<1>6. TurnsOf(s)' = TurnsOf(s)
  BY <1>3, <1>4, <1>5, PutTurns
<1>7. QED
  BY <1>5, <1>6, PutTurns DEF SameTurns

\* clear_session forgets the turns of an idle session.
LEMMA ClearForgets ==
    ASSUME Contents, DictionariesAgree, NEW s \in Sessions, ClearSession(s)
    PROVE  Contract!Forget(s)
<1>1. SamePhases /\ SameOn /\ SameKeys
  BY DEF ClearSession, Rewrite, SamePhases, SameOn, SameKeys, Phase, PhaseOf, Active, On, Bound,
     Known
<1>2. \A x \in Runs : On(x) = s => Phase(x) # "active"
  BY PhaseIsActive, NullsAreOutside DEF ClearSession, Rewrite, Busy, On, Known
<1>3. RunsIn(<<>>) = {}
  BY DEF RunsIn
<1>4. \A x \in Sessions : TurnsOf(x)' = IF x = s THEN {} ELSE TurnsOf(x)
  BY <1>3, PutTurns DEF ClearSession, Rewrite
<1>5. QED
  BY <1>1, <1>2, <1>4 DEF Contract!Forget, Contract!Idle, SamePhases, SameOn, SameKeys,
     Phase, On, Bound, Column

\* A new session has no turns, as it had none before.
LEMMA CreateIsInvisible ==
    ASSUME DictionariesAgree, NEW s \in Sessions, CreateSession(s)
    PROVE  SameTurns
<1>1. TurnsOf(s) = {} /\ RunsIn(<<>>) = {}
  BY DEF CreateSession, DictionariesAgree, TurnsOf, TranscriptOf, RunsIn
<1>2. QED
  BY <1>1, PutTurns DEF CreateSession, SameTurns

\* A shutdown or start-up abandons every run it finds; nothing is skipped.
LEMMA InterruptAbandons ==
    ASSUME Contents, RowsMove, NEW w, NEW sameWorker, Interrupt(w, sameWorker)
    PROVE  \E ending \in SUBSET Runs : Contract!Abandon(ending, INTERRUPTED)
<1> DEFINE ending == {r \in DOMAIN runs : Active(r) /\ (runs[r].owner = w) = sameWorker}
<1>1. ending \in SUBSET DOMAIN runs /\ \A r \in ending : Active(r)
  OBVIOUS
<1>2. messages' = messages /\ \A r \in DOMAIN runs :
          runs'[r] = IF r \in ending THEN Ended(r, INTERRUPTED) ELSE runs[r]
  BY DEF Interrupt
<1>3. INTERRUPTED \in TERMINAL_RUN_STATUSES \ {COMPLETED} /\ INTERRUPTED \in RunStatus
  BY DEF TERMINAL_RUN_STATUSES, RunStatus, COMPLETED, INTERRUPTED
<1> HIDE DEF ending
<1>4. \A r \in DOMAIN runs : Ended(r, INTERRUPTED).status = INTERRUPTED
  BY <1>3, EndedRow
<1>5. \A r \in DOMAIN runs : IF r \in ending THEN runs'[r].status = INTERRUPTED
                                             ELSE runs'[r] = runs[r]
  BY <1>2, <1>4
<1>6. Contract!Abandon(ending, INTERRUPTED)
  BY <1>1, <1>2, <1>3, <1>5, EndingsAbandon
<1>7. QED
  BY <1>1, <1>6 DEF Contents

\* fail_run and cancel_run abandon one run.
LEMMA FinishAbandons ==
    ASSUME Contents, NEW r \in DOMAIN runs, NEW outcome \in TERMINAL_RUN_STATUSES \ {COMPLETED},
           Finish(r, outcome), messages' = messages
    PROVE  Contract!Abandon({r}, outcome)
<1>1. /\ RowsMove /\ Active(r) /\ runs'[r].status = outcome
      /\ \A x \in DOMAIN runs \ {r} : runs'[x] = runs[x]
  BY FinishMoves
<1>2. \A x \in DOMAIN runs : IF x \in {r} THEN runs'[x].status = outcome
                                          ELSE runs'[x] = runs[x]
  BY <1>1
<1>3. {r} \in SUBSET DOMAIN runs /\ \A x \in {r} : Active(x)
  BY <1>1
<1>4. QED
  BY <1>1, <1>2, <1>3, EndingsAbandon

\* Rows that stay in the phase they were in.
LEMMA PhasesStay ==
    ASSUME Contents, RowsMove, \A r \in DOMAIN runs : Active(r) => Active(r)'
    PROVE  SamePhases
<1>1. ASSUME NEW r \in DOMAIN runs
      PROVE  PhaseOf(r)' = PhaseOf(r)
  <2>1. CASE Active(r)
    BY <2>1 DEF PhaseOf
  <2>2. CASE ~ Active(r)
    <3>1. runs[r].status \in RunStatus
      BY DEF Contents, AgentRun
    <3>2. Terminal(r)
      BY <2>2, <3>1 DEF Active, Terminal, RunStatus
    <3>3. runs'[r].status = runs[r].status
      BY <3>2 DEF RowsMove, RowMoves
    <3>4. QED
      BY <3>3 DEF PhaseOf, Active
  <2>3. QED
    BY <2>1, <2>2
<1>2. DOMAIN runs' = DOMAIN runs
  BY DEF RowsMove
<1>3. QED
  BY <1>1, <1>2 DEF SamePhases, Phase, Known

\* A reservation is a row more.
LEMMA ReservedIsNew ==
    ASSUME Reservation
    PROVE  DOMAIN runs' # DOMAIN runs
<1>1. PICK r, row : r \notin DOMAIN runs /\ runs' = Put(runs, r, row)
  BY DEF Reservation, ReserveRun
<1>2. r \in DOMAIN runs'
  BY <1>1 DEF Put
<1>3. QED
  BY <1>1, <1>2

\* A step that touches no row and no list of messages is invisible.
LEMMA RowsUntouched ==
    ASSUME UNCHANGED <<runs, idempotency>>, SameTurns
    PROVE  UNCHANGED Contract!contractVars
<1>1. SamePhases /\ SameOn /\ SameKeys
  BY DEF SamePhases, SameOn, SameKeys, Phase, PhaseOf, Active, On, Bound, Known
<1>2. QED
  BY <1>1, ContractStutters

\* Every operation is one step of the contract or none.
LEMMA ContractStep ==
    Contents /\ DictionariesAgree /\ [Next]_vars => [Contract!Next]_(Contract!contractVars)
<1> SUFFICES ASSUME Contents, DictionariesAgree, [Next]_vars
             PROVE  Contract!Next \/ UNCHANGED Contract!contractVars
  OBVIOUS
<1> USE DEF Contract!Next
<1>1. CASE SessionStep
  <2>1. ASSUME NEW s \in Sessions, CreateSession(s)
        PROVE  UNCHANGED Contract!contractVars
    BY <2>1, CreateIsInvisible, RowsUntouched DEF CreateSession
  <2>2. ASSUME NEW s \in Sessions, NEW role \in {"user", "assistant"}, AppendMessage(s, role)
        PROVE  UNCHANGED Contract!contractVars
    BY <2>2, AppendIsInvisible, RowsUntouched DEF AppendMessage, Rewrite
  <2>3. QED
    BY <1>1, <2>1, <2>2, ClearForgets DEF SessionStep
<1>2. CASE ReservationStep
  <2>1. PICK r \in Runs, s \in Sessions, k \in Keys \cup {NoKey}, h \in Hashes, w \in Workers :
             \E param \in {NoSession, s} : ReserveRun(r, param, s, k, h, w)
    BY <1>2 DEF ReservationStep
  <2>2. PICK param \in {NoSession, s} : ReserveRun(r, param, s, k, h, w)
    BY <2>1
  <2>3. Contract!Begin(r, s)
    BY <2>2, ReserveBegins
  <2>4. QED
    BY <2>3 DEF Contract!Next
<1>3. CASE RunStep
  <2>1. PICK r \in DOMAIN runs :
           \/ \E w \in Workers : MarkRunRunning(r, w) \/ CancelRun(r, w)
           \/ IncrementRunAttempt(r)
           \/ AppendStreamEvent(r, RESPONSE_DELTA)
           \/ CommitRunSuccess(r)
           \/ FailRun(r)
    BY <1>3 DEF RunStep
  <2>2. r \in Runs
    BY DEF Contents
  <2>3. ASSUME \/ \E w \in Workers : MarkRunRunning(r, w)
               \/ IncrementRunAttempt(r)
        PROVE  UNCHANGED Contract!contractVars
    <3>1. runs[r] \in AgentRun
      BY DEF Contents
    <3>2. messages' = messages /\ Active(r)'
      <4>1. ASSUME IncrementRunAttempt(r)
            PROVE  runs'[r].status = runs[r].status /\ Active(r)
        <5>1. runs'[r].status = runs[r].status
          BY <3>1, <4>1 DEF IncrementRunAttempt, AgentRun, Put
        <5>2. QED
          BY <4>1, <5>1, TransitionsLeaveActive
          DEF IncrementRunAttempt, Active, ACTIVE_RUN_STATUSES
      <4>2. ASSUME NEW w \in Workers, MarkRunRunning(r, w)
            PROVE  runs'[r].status = RUNNING
        BY <3>1, <4>2 DEF MarkRunRunning, AgentRun, Put
      <4>3. QED
        BY <2>3, <4>1, <4>2
        DEF MarkRunRunning, IncrementRunAttempt, Active, ACTIVE_RUN_STATUSES
    <3>3. RowsMove /\ \A x \in DOMAIN runs \ {r} : runs'[x] = runs[x]
      <4>1. RowsMove \/ Reservation
        BY RowStep
      <4>2. ASSUME Reservation
            PROVE  FALSE
        <5>1. DOMAIN runs' = DOMAIN runs
          BY <2>3 DEF MarkRunRunning, IncrementRunAttempt, Put
        <5>2. QED
          BY <4>2, <5>1, ReservedIsNew
      <4>3. QED
        BY <2>3, <4>1, <4>2 DEF MarkRunRunning, IncrementRunAttempt, Put
    <3>4. SamePhases
      BY <3>2, <3>3, PhasesStay DEF Active
    <3>5. QED
      BY <3>2, <3>3, <3>4, MovesKeepSessions, ListsKeepTurns, ContractStutters
  <2>4. ASSUME FailRun(r) \/ \E w \in Workers : CancelRun(r, w)
        PROVE  Contract!Next
    <3>1. {FAILED, CANCELLED} \subseteq TERMINAL_RUN_STATUSES \ {COMPLETED}
      BY DEF TERMINAL_RUN_STATUSES, FAILED, CANCELLED, COMPLETED
    <3>2. Contract!Abandon({r}, FAILED) \/ Contract!Abandon({r}, CANCELLED)
      BY <2>4, <3>1, FinishAbandons DEF FailRun, CancelRun
    <3>3. QED
      BY <2>2, <3>1, <3>2, SameVocabulary
  <2>5. ASSUME AppendStreamEvent(r, RESPONSE_DELTA)
        PROVE  UNCHANGED Contract!contractVars
    BY <2>5, ListsKeepTurns, RowsUntouched DEF AppendStreamEvent
  <2>6. QED
    BY <2>1, <2>2, <2>3, <2>4, <2>5, CommitCompletes
<1>4. CASE MaintenanceStep
  <2>1. ASSUME PruneStreamEvents \/ SetReady \/ Tick
        PROVE  UNCHANGED Contract!contractVars
    BY <2>1, ListsKeepTurns, RowsUntouched DEF PruneStreamEvents, SetReady, Tick
  <2>2. ASSUME NEW w \in Workers, InterruptWorkerRuns(w) \/ ReconcileOrphanedRuns(w)
        PROVE  Contract!Next
    <3>1. INTERRUPTED \in TERMINAL_RUN_STATUSES \ {COMPLETED}
      BY DEF TERMINAL_RUN_STATUSES, INTERRUPTED, COMPLETED
    <3>2. RowsMove
      <4>1. RowsMove \/ Reservation
        BY RowStep
      <4>2. ASSUME Reservation
            PROVE  FALSE
        <5>1. DOMAIN runs' = DOMAIN runs
          BY <2>2 DEF InterruptWorkerRuns, ReconcileOrphanedRuns, Interrupt
        <5>2. QED
          BY <4>2, <5>1, ReservedIsNew
      <4>3. QED
        BY <4>1, <4>2
    <3>3. \E ending \in SUBSET Runs : Contract!Abandon(ending, INTERRUPTED)
      BY <2>2, <3>2, InterruptAbandons DEF InterruptWorkerRuns, ReconcileOrphanedRuns
    <3>4. QED
      BY <3>1, <3>3, SameVocabulary
  <2>3. QED
    BY <1>4, <2>1, <2>2 DEF MaintenanceStep
<1>5. CASE UNCHANGED vars
  BY <1>5, ListsKeepTurns, RowsUntouched DEF vars
<1>6. QED
  BY <1>1, <1>2, <1>3, <1>4, <1>5 DEF Next

\* The in-memory store implements the contract the relational store implements,
\* whatever it prunes: serial turns, one run per key, one outcome per run.
THEOREM MemoryImplementsContract == Spec => ImplementsContract
<1>1. Init => Contract!Init
  BY SameVocabulary DEF Init, Contract!Init, Known, Column, TurnsOf, TranscriptOf
<1>2. QED
  BY <1>1, ContractStep, ContentsHold, PTL DEF Spec, ImplementsContract, Contract!Spec
=============================================================================
