----------------------------- MODULE MemoryStore -----------------------------
(***************************************************************************)
(* The process-local RuntimeStore of memory/store.py: five dictionaries    *)
(* under one asyncio.Lock.  No critical section suspends, so an operation  *)
(* is one step; there is no rollback either, so an operation that raises   *)
(* must have raised before its first assignment.                           *)
(*                                                                         *)
(* Dictionaries are functions whose domain grows.  A message's sequence is *)
(* its position; contents, metadata and results are abstracted away.       *)
(***************************************************************************)
EXTENDS Naturals, Sequences, FiniteSets, RunLifecycle

CONSTANTS
    Runs, Sessions, Keys, Hashes, Workers,
    NoKey,         \* idempotency_key is None
    NoSession,     \* session_id is None
    NoRun,         \* run_id is None
    Retention,     \* stream_event_retention_seconds, in clock ticks
    MaxDeltas,     \* bound: the largest sequence a response.delta may get
    MaxAttempts,   \* bound: provider attempts of a run
    MaxVersion,    \* bound: session versions
    MaxTime        \* bound: clock ticks

ASSUME NullsAreOutside ==
    /\ NoKey \notin Keys
    /\ NoSession \notin Sessions
    /\ NoRun \notin Runs

ASSUME MemoryBounds ==
    /\ {Retention, MaxDeltas, MaxAttempts, MaxTime} \subseteq Nat
    /\ MaxVersion \in Nat \ {0}

VARIABLES
    sessions,      \* _sessions: identifier to SessionRecord.version
    messages,      \* _messages: identifier to list of messages
    runs,          \* _runs: identifier to AgentRun
    log,           \* _events: run identifier to list of StreamEvents
    idempotency,   \* _idempotency: key to run identifier
    ready,         \* _ready
    now            \* utc_now

vars == <<sessions, messages, runs, log, idempotency, ready, now>>

Init ==
    /\ sessions = <<>>
    /\ messages = <<>>
    /\ runs = <<>>
    /\ log = <<>>
    /\ idempotency = <<>>
    /\ ready = TRUE
    /\ now = 0

\* d[key] = value
Put(d, key, value) ==
    [x \in DOMAIN d \cup {key} |-> IF x = key THEN value ELSE d[x]]

Active(r)   == runs[r].status \in ACTIVE_RUN_STATUSES
Terminal(r) == runs[r].status \in TERMINAL_RUN_STATUSES

\* Mutant of Busy: a run that is still pending does not count.
Occupied(s) == \E r \in DOMAIN runs : runs[r].session = s /\ runs[r].status = RUNNING

\* _active_run_locked
Busy(s) == \E r \in DOMAIN runs : runs[r].session = s /\ Active(r)

-----------------------------------------------------------------------------
(* Sessions. *)

\* Both the caller's identifier and a fresh uuid4 may name the session.
CreateSession(s) ==
    /\ s \notin DOMAIN sessions
    /\ sessions' = Put(sessions, s, 1)
    /\ messages' = Put(messages, s, <<>>)
    /\ UNCHANGED <<runs, log, idempotency, ready, now>>

\* What append_message and clear_session both check and both write.
Rewrite(s, history) ==
    /\ s \in DOMAIN sessions
    /\ ~ Busy(s)
    /\ sessions[s] < MaxVersion
    /\ messages' = Put(messages, s, history)
    /\ sessions' = Put(sessions, s, sessions[s] + 1)
    /\ UNCHANGED <<runs, log, idempotency, ready, now>>

AppendMessage(s, role) ==
    s \in DOMAIN messages
        /\ Rewrite(s, Append(messages[s], [role |-> role, run |-> NoRun]))

ClearSession(s) == Rewrite(s, <<>>)

-----------------------------------------------------------------------------
(* Reservation.  A key that is known replays or conflicts: no assignment.  *)

NewRun(s, k, h, w) ==
    [status |-> PENDING, session |-> s, key |-> k, hash |-> h, owner |-> w,
     attempts |-> 0, completedAt |-> 0]

\* Mutant of ReserveRun: the key is recorded before the session is found idle.
ReserveBindingKeyFirst(r, param, s, k, h, w) ==
    /\ r \notin DOMAIN runs
    /\ k \notin DOMAIN idempotency
    /\ IF param = NoSession THEN s \notin DOMAIN sessions
                            ELSE s = param /\ s \in DOMAIN sessions
    /\ idempotency' = IF k = NoKey THEN idempotency ELSE Put(idempotency, k, r)
    /\ IF Busy(s)
       THEN UNCHANGED <<sessions, messages, runs, log>>
       ELSE /\ sessions' = IF param = NoSession THEN Put(sessions, s, 1) ELSE sessions
            /\ messages' = IF param = NoSession THEN Put(messages, s, <<>>) ELSE messages
            /\ runs' = Put(runs, r, NewRun(s, k, h, w))
            /\ log' = Put(log, r, <<>>)
    /\ UNCHANGED <<ready, now>>

ReserveRun(r, param, s, k, h, w) ==
    /\ r \notin DOMAIN runs
    /\ k \notin DOMAIN idempotency
    /\ \/ /\ param = NoSession
          /\ s \notin DOMAIN sessions
          /\ sessions' = Put(sessions, s, 1)
          /\ messages' = Put(messages, s, <<>>)
       \/ /\ param = s
          /\ s \in DOMAIN sessions
          /\ ~ Busy(s)
          /\ UNCHANGED <<sessions, messages>>
    /\ runs' = Put(runs, r, NewRun(s, k, h, w))
    /\ log' = Put(log, r, <<>>)
    /\ idempotency' = IF k = NoKey THEN idempotency ELSE Put(idempotency, k, r)
    /\ UNCHANGED <<ready, now>>

-----------------------------------------------------------------------------
(* The life of a run. *)

\* Mutant of NewEvent: the number of the newest event plus one, as the
\* relational store has it, off by one on an empty log.
NewEventAfterLast(r, type) ==
    [sequence |-> IF log[r] = <<>> THEN 0 ELSE log[r][Len(log[r])].sequence + 1,
     type |-> type, createdAt |-> now]

\* _append_event_locked numbers by the length of the list.
NewEvent(r, type) ==
    [sequence |-> Len(log[r]) + 1, type |-> type, createdAt |-> now]

Publish(r, type) == log' = Put(log, r, Append(log[r], NewEvent(r, type)))

\* runs[r] = run.model_copy(update={"status": target, "completed_at": now})
Ended(r, target) == [runs[r] EXCEPT !.status = target, !.completedAt = now]

Finish(r, target) ==
    /\ ValidRunTransition(runs[r].status, target)
    /\ runs' = Put(runs, r, Ended(r, target))
    /\ Publish(r, AnnouncedBy(target))
    /\ UNCHANGED <<idempotency, ready, now>>

MarkRunRunning(r, w) ==
    /\ ValidRunTransition(runs[r].status, RUNNING)
    /\ runs' = Put(runs, r, [runs[r] EXCEPT !.status = RUNNING, !.owner = w])
    /\ Publish(r, RUN_STARTED)
    /\ UNCHANGED <<sessions, messages, idempotency, ready, now>>

IncrementRunAttempt(r) ==
    /\ runs[r].status = RUNNING \/ ValidRunTransition(runs[r].status, RUNNING)
    /\ runs[r].attempts < MaxAttempts
    /\ runs' = Put(runs, r, [runs[r] EXCEPT !.attempts = @ + 1])
    /\ UNCHANGED <<sessions, messages, log, idempotency, ready, now>>

\* Only the existence of the run is confirmed.
AppendStreamEvent(r, type) ==
    /\ Len(log[r]) < MaxDeltas
    /\ Publish(r, type)
    /\ UNCHANGED <<sessions, messages, runs, idempotency, ready, now>>

CommitRunSuccess(r) ==
    LET s == runs[r].session
    IN  /\ Finish(r, COMPLETED)
        /\ sessions[s] < MaxVersion
        /\ messages' = Put(messages, s, messages[s] \o
                          <<[role |-> "user", run |-> r], [role |-> "assistant", run |-> r]>>)
        /\ sessions' = Put(sessions, s, sessions[s] + 1)

\* A terminal run is returned as it is.
FailRun(r) ==
    /\ Active(r)
    /\ Finish(r, FAILED)
    /\ UNCHANGED <<sessions, messages>>

CancelRun(r, w) ==
    /\ Active(r)
    /\ runs[r].owner = w
    /\ Finish(r, CANCELLED)
    /\ UNCHANGED <<sessions, messages>>

\* interrupt_worker_runs and reconcile_orphaned_runs; nothing is skipped.
Interrupt(w, sameWorker) ==
    LET matching == {r \in DOMAIN runs : Active(r) /\ (runs[r].owner = w) = sameWorker}
    IN  /\ runs' = [r \in DOMAIN runs |->
                      IF r \in matching THEN Ended(r, INTERRUPTED) ELSE runs[r]]
        /\ log' = [r \in DOMAIN log |->
                      IF r \in matching THEN Append(log[r], NewEvent(r, RUN_INTERRUPTED))
                                        ELSE log[r]]
        /\ UNCHANGED <<sessions, messages, idempotency, ready, now>>

InterruptWorkerRuns(w)   == Interrupt(w, TRUE)
ReconcileOrphanedRuns(w) == Interrupt(w, FALSE)

\* event.created_at >= before, with before = now - retention
Retained(e) == e.createdAt + Retention >= now

\* Mutant of PruneStreamEvents: active runs are pruned too.
PruneAllEvents ==
    /\ log' = [r \in DOMAIN log |-> SelectSeq(log[r], Retained)]
    /\ UNCHANGED <<sessions, messages, runs, idempotency, ready, now>>

PruneStreamEvents ==
    /\ log' = [r \in DOMAIN log |->
                  IF Terminal(r) THEN SelectSeq(log[r], Retained) ELSE log[r]]
    /\ UNCHANGED <<sessions, messages, runs, idempotency, ready, now>>

\* initialize and close move the readiness flag and nothing else.
SetReady ==
    /\ ready' = ~ ready
    /\ UNCHANGED <<sessions, messages, runs, log, idempotency, now>>

Tick ==
    /\ now < MaxTime
    /\ now' = now + 1
    /\ UNCHANGED <<sessions, messages, runs, log, idempotency, ready>>

-----------------------------------------------------------------------------

SessionStep ==
    \E s \in Sessions :
        \/ CreateSession(s)
        \/ \E role \in {"user", "assistant"} : AppendMessage(s, role)
        \/ ClearSession(s)

ReservationStep ==
    \E r \in Runs, s \in Sessions, k \in Keys \cup {NoKey}, h \in Hashes, w \in Workers :
        \E param \in {NoSession, s} : ReserveRun(r, param, s, k, h, w)

RunStep ==
    \E r \in DOMAIN runs :
        \/ \E w \in Workers : MarkRunRunning(r, w) \/ CancelRun(r, w)
        \/ IncrementRunAttempt(r)
        \/ AppendStreamEvent(r, RESPONSE_DELTA)
        \/ CommitRunSuccess(r)
        \/ FailRun(r)

MaintenanceStep ==
    \/ \E w \in Workers : InterruptWorkerRuns(w) \/ ReconcileOrphanedRuns(w)
    \/ PruneStreamEvents
    \/ SetReady
    \/ Tick

Next == SessionStep \/ ReservationStep \/ RunStep \/ MaintenanceStep

Spec == Init /\ [][Next]_vars

-----------------------------------------------------------------------------
(* Safety. *)

\* The five dictionaries agree, although nothing rolls back: a session has its
\* message list, a run its log and its session, and a recorded key leads to
\* the one run that carries it, so the replay branch never misses.
DictionariesAgree ==
    /\ DOMAIN messages = DOMAIN sessions
    /\ DOMAIN log = DOMAIN runs
    /\ \A r \in DOMAIN runs :
          /\ runs[r].session \in DOMAIN sessions
          /\ runs[r].key # NoKey =>
                runs[r].key \in DOMAIN idempotency /\ idempotency[runs[r].key] = r
    /\ \A k \in DOMAIN idempotency :
          idempotency[k] \in DOMAIN runs /\ runs[idempotency[k]].key = k

\* Numbering by length is safe as long as it matters for a running stream: the
\* log of an active run is numbered 1, 2, 3, ..., so no reader's cursor skips
\* an event.  After its end a pruned log may repeat numbers.
ActiveLogIsNumbered ==
    \A r \in DOMAIN runs :
        Active(r) => \A i \in DOMAIN log[r] : log[r][i].sequence = i
=============================================================================
