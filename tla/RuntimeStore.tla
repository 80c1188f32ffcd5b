---------------------------- MODULE RuntimeStore ----------------------------
(***************************************************************************)
(* The durable state behind SupervisorAgent, as the SQLAlchemyRuntimeStore *)
(* of database/store.py keeps it in agent_sessions, agent_messages,        *)
(* agent_runs and agent_stream_events.  Every store operation that changes *)
(* a row is one action: it is one database transaction that locks the rows *)
(* it decides on, so an operation that raises rolls back and is a step     *)
(* that changes nothing here.                                              *)
(*                                                                         *)
(* A run is named by the identifier its reservation draws, so Runs is also *)
(* the supply of unused identifiers.  Message contents, metadata, usage    *)
(* and results are abstracted away; request_hash is a value that is equal  *)
(* exactly when the canonical requests are.                                *)
(***************************************************************************)
EXTENDS Naturals, Sequences, FiniteSetsExt, RunLifecycle

CONSTANTS
    Runs, Sessions, Keys, Hashes, Workers,
    NoKey,         \* idempotency_key is None
    NoSession,     \* session_id is None: the reservation creates a session
    NoRun,         \* run_id is None: a message of the compatibility API
    Retention,     \* stream_event_retention_seconds, in clock ticks
    MaxDeltas,     \* bound: the largest sequence a response.delta may get
    MaxAttempts,   \* bound: provider attempts of a run
    MaxVersion,    \* bound: session versions, hence transcript changes
    MaxTime,       \* bound: clock ticks
    Lag            \* bound: by how much a timestamp may lie behind the fastest clock

ASSUME NullsAreNotValues ==
    /\ NoKey \notin Keys
    /\ NoSession \notin Sessions
    /\ NoRun \notin Runs

ASSUME BoundsAreNaturals ==
    /\ {Retention, MaxDeltas, MaxAttempts, MaxTime, Lag} \subseteq Nat
    /\ MaxVersion \in Nat \ {0}

VARIABLES
    version,      \* agent_sessions.version; 0 before the row exists
    transcript,   \* the committed agent_messages of a session, in sequence order
    status,       \* agent_runs.status
    request,      \* the session, key and hash columns a reservation writes
    owner,        \* agent_runs.worker_instance_id
    attempts,     \* agent_runs.attempt_count
    completedAt,  \* agent_runs.completed_at; 0 while it is null
    events,       \* the agent_stream_events rows of a run
    now           \* the fastest of the clocks the timestamps are read from

sessionVars == <<version, transcript>>
runVars     == <<status, request, owner, attempts, completedAt>>
storeVars   == <<sessionVars, runVars, events, now>>

\* A log holds at most the deltas, run.started and one terminal event.
MaxEvents == MaxDeltas + 2

Role        == {"user", "assistant"}
Message     == [role : Role, run : Runs \cup {NoRun}]
StreamEvent == [sequence : 1 .. MaxEvents, type : StreamEventType,
                createdAt : 0 .. MaxTime]
Request     == [session : Sessions, key : Keys \cup {NoKey}, hash : Hashes]
NoRequest   == [session |-> NoSession, key |-> NoKey, hash |-> NoRun]

StoreTypeOK ==
    /\ version \in [Sessions -> 0 .. MaxVersion]
    /\ transcript \in [Sessions -> Seq(Message)]
    /\ status \in [Runs -> RunStatus \cup {ABSENT}]
    /\ request \in [Runs -> Request \cup {NoRequest}]
    /\ owner \in [Runs -> Workers \cup {NoRun}]
    /\ attempts \in [Runs -> 0 .. MaxAttempts]
    /\ completedAt \in [Runs -> 0 .. MaxTime]
    /\ events \in [Runs -> SUBSET StreamEvent]
    /\ now \in 0 .. MaxTime

StoreInit ==
    /\ version = [s \in Sessions |-> 0]
    /\ transcript = [s \in Sessions |-> <<>>]
    /\ status = [r \in Runs |-> ABSENT]
    /\ request = [r \in Runs |-> NoRequest]
    /\ owner = [r \in Runs |-> NoRun]
    /\ attempts = [r \in Runs |-> 0]
    /\ completedAt = [r \in Runs |-> 0]
    /\ events = [r \in Runs |-> {}]
    /\ now = 0

-----------------------------------------------------------------------------
(* What a transaction looks up before it decides. *)

Exists(s)   == version[s] > 0
Active(r)   == status[r] \in ACTIVE_RUN_STATUSES
Terminal(r) == status[r] \in TERMINAL_RUN_STATUSES

\* Mutant of ActiveRuns: a run that is still pending does not count.
RunningRuns(s) == {r \in Runs : status[r] = RUNNING /\ request[r].session = s}

\* _active_run: the query a session lock protects.
ActiveRuns(s) == {r \in Runs : Active(r) /\ request[r].session = s}

\* Mutant of KeyHolders: a key is free again once its run has ended.
ActiveKeyHolders(k) ==
    IF k = NoKey THEN {} ELSE {r \in Runs : Active(r) /\ request[r].key = k}

\* Mutant of KeyHolders: a missing key is compared with IS NULL.
NullKeyHolders(k) == {r \in Runs : status[r] # ABSENT /\ request[r].key = k}

\* _idempotent_run: the rows that carry a key.
KeyHolders(k) ==
    IF k = NoKey THEN {}
    ELSE {r \in Runs : status[r] # ABSENT /\ request[r].key = k}

\* What a transaction may take for the time.  completed_at and the retention
\* cut-off are utc_now() of the process at hand, created_at is the database
\* server's now() when the transaction began, which may be before it waited for
\* its row lock: clocks of several machines, read at several moments.
Timestamps == {t \in 0 .. now : now <= t + Lag}

\* Mutant of NextSequence: the increment is forgotten.
LastSequence(r) == Max({0} \cup {e.sequence : e \in events[r]})

NextSequence(r) == Max({0} \cup {e.sequence : e \in events[r]}) + 1

\* _append_event: the row it inserts, numbered under the run's row lock.
AppendedEvent(r, type, at) ==
    [sequence |-> NextSequence(r), type |-> type, createdAt |-> at]

-----------------------------------------------------------------------------
(* Sessions. *)

CreateSession(s) ==
    /\ ~ Exists(s)
    /\ version' = [version EXCEPT ![s] = 1]
    /\ UNCHANGED <<transcript, runVars, events, now>>

\* Mutant of MayRewrite: active runs are not excluded.
MayAlwaysRewrite(s) == Exists(s) /\ version[s] < MaxVersion

\* The guard append_message and clear_session share: the session row is
\* locked and no run of the session is active.
MayRewrite(s) ==
    /\ Exists(s)
    /\ ActiveRuns(s) = {}
    /\ version[s] < MaxVersion

AppendMessage(s, role) ==
    /\ MayRewrite(s)
    /\ transcript' = [transcript EXCEPT ![s] = Append(@, [role |-> role, run |-> NoRun])]
    /\ version' = [version EXCEPT ![s] = @ + 1]
    /\ UNCHANGED <<runVars, events, now>>

ClearSession(s) ==
    /\ MayRewrite(s)
    /\ transcript' = [transcript EXCEPT ![s] = <<>>]
    /\ version' = [version EXCEPT ![s] = @ + 1]
    /\ UNCHANGED <<runVars, events, now>>

-----------------------------------------------------------------------------
(* Reservation.  param is the session_id argument, s the resolved session. *)

Resolves(param, s) ==
    IF param = NoSession THEN ~ Exists(s) ELSE s = param

\* Mutant of Replays: the request hash is not compared.
ReplaysAnyRequest(k, h, r) == r \in KeyHolders(k)

\* The branches of reserve_run that change nothing, in the code's order.
Replays(k, h, r) == r \in KeyHolders(k) /\ request[r].hash = h
Conflicts(k, h)  == \E r \in KeyHolders(k) : request[r].hash # h
NotFound(param, k) ==
    KeyHolders(k) = {} /\ param # NoSession /\ ~ Exists(param)
Busy(param, k) ==
    /\ KeyHolders(k) = {}
    /\ param # NoSession
    /\ Exists(param)
    /\ ActiveRuns(param) # {}

ReserveRun(r, param, s, k, h, w) ==
    /\ status[r] = ABSENT
    /\ KeyHolders(k) = {}
    /\ Resolves(param, s)
    /\ param # NoSession => Exists(s)
    /\ ActiveRuns(s) = {}
    /\ version' = [version EXCEPT ![s] = IF param = NoSession THEN 1 ELSE @]
    /\ status' = [status EXCEPT ![r] = PENDING]
    /\ request' = [request EXCEPT ![r] = [session |-> s, key |-> k, hash |-> h]]
    /\ owner' = [owner EXCEPT ![r] = w]
    /\ UNCHANGED <<transcript, attempts, completedAt, events, now>>

\* Without a session_id the session row is inserted before the key is checked
\* again; a replay found by that second check returns from the transaction
\* block and so commits the empty session with it.
ReplayLeavingSession(s, k, h) ==
    /\ \E r \in KeyHolders(k) : Replays(k, h, r)
    /\ CreateSession(s)

-----------------------------------------------------------------------------
(* The life of a run.  Each operation holds the run's row lock. *)

Publish(r, type) ==
    /\ NextSequence(r) <= MaxEvents
    /\ \E at \in Timestamps :
          events' = [events EXCEPT ![r] = @ \cup {AppendedEvent(r, type, at)}]

\* The three updates every terminal transition of one run makes together; the
\* row and its event are stamped by different clocks.
Finish(r, target) ==
    /\ ValidRunTransition(status[r], target)
    /\ status' = [status EXCEPT ![r] = target]
    /\ \E done \in Timestamps : completedAt' = [completedAt EXCEPT ![r] = done]
    /\ Publish(r, AnnouncedBy(target))
    /\ UNCHANGED <<request, owner, attempts, now>>

MarkRunRunning(r, w) ==
    /\ ValidRunTransition(status[r], RUNNING)
    /\ status' = [status EXCEPT ![r] = RUNNING]
    /\ owner' = [owner EXCEPT ![r] = w]
    /\ Publish(r, RUN_STARTED)
    /\ UNCHANGED <<sessionVars, request, attempts, completedAt, now>>

IncrementRunAttempt(r) ==
    /\ status[r] = RUNNING \/ ValidRunTransition(status[r], RUNNING)
    /\ attempts[r] < MaxAttempts
    /\ attempts' = [attempts EXCEPT ![r] = @ + 1]
    /\ UNCHANGED <<sessionVars, status, request, owner, completedAt, events, now>>

\* The parent run has to exist; its status is not looked at.
AppendStreamEvent(r, type) ==
    /\ status[r] # ABSENT
    /\ NextSequence(r) <= MaxDeltas
    /\ Publish(r, type)
    /\ UNCHANGED <<sessionVars, runVars, now>>

CommitRunSuccess(r) ==
    LET s    == request[r].session
        turn == <<[role |-> "user", run |-> r], [role |-> "assistant", run |-> r]>>
    IN  /\ Finish(r, COMPLETED)
        /\ version[s] < MaxVersion
        /\ transcript' = [transcript EXCEPT ![s] = @ \o turn]
        /\ version' = [version EXCEPT ![s] = @ + 1]

\* Mutant of FailRun: the failed turn's user message is kept.
FailRunKeepingMessage(r) ==
    /\ Active(r)
    /\ Finish(r, FAILED)
    /\ transcript' = [transcript EXCEPT ![request[r].session] =
                         Append(@, [role |-> "user", run |-> r])]
    /\ UNCHANGED version

FailRun(r) ==
    /\ Active(r)
    /\ Finish(r, FAILED)
    /\ UNCHANGED sessionVars

\* Mutant of CancelRun: ownership is not checked.
CancelAnyRun(r, w) ==
    /\ Active(r)
    /\ Finish(r, CANCELLED)
    /\ UNCHANGED sessionVars

CancelRun(r, w) ==
    /\ Active(r)
    /\ owner[r] = w
    /\ Finish(r, CANCELLED)
    /\ UNCHANGED sessionVars

\* _interrupt_matching reads its rows FOR UPDATE SKIP LOCKED: locked is the
\* set of rows some other transaction holds at that moment.  One transaction
\* writes all the events; utc_now() is read for each run.
Matching(w, sameWorker) == {r \in Runs : Active(r) /\ (owner[r] = w) = sameWorker}

InterruptMatching(w, sameWorker, locked) ==
    LET runs == Matching(w, sameWorker) \ locked
    IN  /\ \A r \in runs : NextSequence(r) <= MaxEvents
        /\ status' = [r \in Runs |-> IF r \in runs THEN INTERRUPTED ELSE status[r]]
        /\ \E done \in [runs -> Timestamps] :
              completedAt' = [r \in Runs |-> IF r \in runs THEN done[r] ELSE completedAt[r]]
        /\ \E at \in Timestamps :
              events' = [r \in Runs |->
                           IF r \in runs
                           THEN events[r] \cup {AppendedEvent(r, RUN_INTERRUPTED, at)}
                           ELSE events[r]]
        /\ UNCHANGED <<sessionVars, request, owner, attempts, now>>

InterruptWorkerRuns(w, locked)   == InterruptMatching(w, TRUE, locked)
ReconcileOrphanedRuns(w, locked) == InterruptMatching(w, FALSE, locked)

\* Mutant of Expired: off by one at the end of the retention window.
ExpiredEarly(e, clock) == e.createdAt + Retention <= clock

\* initialize() prunes with before = utc_now() - retention.
Expired(e, clock) == e.createdAt + Retention < clock

\* Mutant of PruneStreamEvents: active runs are pruned too.
PruneAllEvents ==
    /\ \E clock \in Timestamps :
          events' = [r \in Runs |-> {e \in events[r] : ~ Expired(e, clock)}]
    /\ UNCHANGED <<sessionVars, runVars, now>>

PruneStreamEvents ==
    /\ \E clock \in Timestamps :
          events' = [r \in Runs |-> IF Terminal(r)
                                    THEN {e \in events[r] : ~ Expired(e, clock)}
                                    ELSE events[r]]
    /\ UNCHANGED <<sessionVars, runVars, now>>

Tick ==
    /\ now < MaxTime
    /\ now' = now + 1
    /\ UNCHANGED <<sessionVars, runVars, events>>

-----------------------------------------------------------------------------

SessionStep ==
    \E s \in Sessions :
        \/ CreateSession(s)
        \/ \E role \in Role : AppendMessage(s, role)
        \/ ClearSession(s)

ReservationStep ==
    \E s \in Sessions, k \in Keys \cup {NoKey}, h \in Hashes :
        \/ \E r \in Runs, param \in {NoSession, s}, w \in Workers :
               ReserveRun(r, param, s, k, h, w)
        \/ ReplayLeavingSession(s, k, h)

RunStep ==
    \E r \in Runs :
        \/ \E w \in Workers : MarkRunRunning(r, w) \/ CancelRun(r, w)
        \/ IncrementRunAttempt(r)
        \/ AppendStreamEvent(r, RESPONSE_DELTA)
        \/ CommitRunSuccess(r)
        \/ FailRun(r)

MaintenanceStep ==
    \/ \E w \in Workers, locked \in SUBSET Runs :
           InterruptWorkerRuns(w, locked) \/ ReconcileOrphanedRuns(w, locked)
    \/ PruneStreamEvents
    \/ Tick

StoreNext == SessionStep \/ ReservationStep \/ RunStep \/ MaintenanceStep

StoreSpec == StoreInit /\ [][StoreNext]_storeVars

-----------------------------------------------------------------------------
(* Safety. *)

\* A session never has two active runs, whoever reserved them and whichever
\* workers race: the session lock and the partial unique index of agent_runs.
OneActiveRunPerSession ==
    \A r1, r2 \in Runs :
        Active(r1) /\ Active(r2) /\ request[r1].session = request[r2].session => r1 = r2

\* An idempotency key names one run for ever, across sessions and workers, so
\* a repeated request cannot start a second provider execution.
KeyNamesOneRun ==
    \A r1, r2 \in Runs :
        /\ status[r1] # ABSENT /\ status[r2] # ABSENT
        /\ request[r1].key = request[r2].key /\ request[r1].key # NoKey
        => r1 = r2

\* A log announces an end only if the run's row says the same, and announces
\* it once: commit, fail, cancel, interrupt and reconcile race for the row.
LogAgreesWithStatus ==
    \A r \in Runs : \A e \in events[r] :
        e.type \in TERMINAL_EVENT_TYPES =>
            /\ Terminal(r)
            /\ e.type = AnnouncedBy(status[r])
            /\ \A d \in events[r] : d.type \in TERMINAL_EVENT_TYPES => d = e

\* A terminal run keeps the event that says so for the retention less the lag,
\* counted from completed_at: the event's created_at may be older than the row's
\* completed_at, the process that prunes may read a third clock, and together
\* they never shorten the window by more than one lag.
EndStaysReadable ==
    \A r \in Runs :
        Terminal(r) /\ completedAt[r] + Retention >= now + Lag =>
            \E e \in events[r] : e.type = AnnouncedBy(status[r])

\* A transcript holds a run's turn whole, user then assistant, once, in the
\* run's own session, and only if that run completed.
OnlyCompletedTurns ==
    \A s \in Sessions : \A i \in DOMAIN transcript[s] :
        LET m == transcript[s][i]
        IN  m.run # NoRun =>
              /\ status[m.run] = COMPLETED
              /\ request[m.run].session = s
              /\ m.role = "user" =>
                    /\ i + 1 \in DOMAIN transcript[s]
                    /\ transcript[s][i + 1] = [role |-> "assistant", run |-> m.run]
              /\ m.role = "assistant" =>
                    /\ i - 1 \in DOMAIN transcript[s]
                    /\ transcript[s][i - 1] = [role |-> "user", run |-> m.run]
              /\ \A j \in DOMAIN transcript[s] : transcript[s][j] = m => i = j

-----------------------------------------------------------------------------
(* What a step may never do. *)

\* A terminal run is frozen: no later commit, retry, cancellation, shutdown or
\* start-up of any worker moves its status, attempts, owner or finish time.
TerminalRunsAreFrozen ==
    [][\A r \in Runs : Terminal(r) =>
          /\ status'[r] = status[r]
          /\ attempts'[r] = attempts[r]
          /\ owner'[r] = owner[r]
          /\ completedAt'[r] = completedAt[r]]_storeVars

\* While a run is active its session's transcript changes only in the step
\* that completes that run: the history its provider was given stays true.
ActiveRunOwnsTranscript ==
    [][\A r \in Runs :
          Active(r) /\ transcript'[request[r].session] # transcript[request[r].session]
          => status'[r] = COMPLETED]_storeVars

\* A log only grows past its newest event, and only loses events of a terminal
\* run that are older than the retention.
LogIsAppendOnly ==
    [][\A r \in Runs :
          /\ \A e \in events[r] \ events'[r] : Terminal(r) /\ Expired(e, now)
          /\ \A e \in events'[r] \ events[r], d \in events[r] :
                d.sequence < e.sequence]_storeVars
=============================================================================
