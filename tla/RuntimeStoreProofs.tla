------------------------- MODULE RuntimeStoreProofs --------------------------
(***************************************************************************)
(* The invariants of RuntimeStore for every number of runs, sessions,      *)
(* keys and workers and every bound.                                       *)
(***************************************************************************)
EXTENDS RuntimeStore, WellFoundedInduction, TLAPS

-----------------------------------------------------------------------------
(* Sequence numbers. *)

\* Max of FiniteSetsExt is a CHOOSE: in a bounded set of numbers it names the
\* greatest one.
LEMMA MaxOfBounded ==
    ASSUME NEW n \in Nat, NEW S \in SUBSET (0 .. n), S # {}
    PROVE  Max(S) \in S /\ \A x \in S : Max(S) >= x
<1> DEFINE Gap == {n - x : x \in S}
<1>1. Gap \subseteq Nat /\ Gap # {}
  <2>1. \A x \in S : n - x \in Nat
    OBVIOUS
  <2>2. QED
    BY <2>1, Zenon
<1>2. PICK g \in Gap : \A h \in Gap : ~ (<<h, g>> \in OpToRel(<, Nat))
  BY <1>1, NatLessThanWellFounded, WFMin, Zenon
<1>3. \A h \in Gap : g <= h
  <2>1. \A h \in Gap : ~ (h < g)
    BY <1>1, <1>2, Zenon DEF OpToRel
  <2>2. QED
    BY <1>1, <2>1
<1>4. PICK m \in S : g = n - m
  OBVIOUS
<1>5. \A x \in S : m >= x
  BY <1>3, <1>4
<1>6. QED
  BY <1>5 DEF Max

\* _append_event numbers a row directly past the newest row of its log.
LEMMA NextSequenceIsFresh ==
    ASSUME StoreTypeOK, NEW r \in Runs
    PROVE  /\ NextSequence(r) \in Nat \ {0}
           /\ \A e \in events[r] : e.sequence < NextSequence(r)
<1> DEFINE Used == {0} \cup {e.sequence : e \in events[r]}
<1>1. MaxEvents \in Nat
  BY BoundsAreNaturals DEF MaxEvents
<1>2. \A e \in events[r] : e.sequence \in 1 .. MaxEvents
  BY DEF StoreTypeOK, StreamEvent
<1>3. Used \in SUBSET (0 .. MaxEvents) /\ Used # {}
  BY <1>1, <1>2
<1>4. Max(Used) \in Used /\ \A x \in Used : Max(Used) >= x
  BY <1>1, <1>3, MaxOfBounded, Zenon
<1>5. NextSequence(r) = Max(Used) + 1
  BY DEF NextSequence
<1>6. \A e \in events[r] : e.sequence \in Used
  OBVIOUS
<1>7. PICK m : m = Max(Used)
  OBVIOUS
<1>8. m \in Nat
  BY <1>3, <1>4, <1>7
<1>9. \A e \in events[r] : m >= e.sequence
  BY <1>4, <1>6, <1>7, Zenon
<1> HIDE DEF Used
<1>10. QED
  BY <1>1, <1>2, <1>5, <1>7, <1>8, <1>9

\* Nobody reads a time outside the bounds of the clock.
LEMMA TimestampType ==
    ASSUME StoreTypeOK, NEW t \in Timestamps
    PROVE  t \in 0 .. MaxTime
  BY BoundsAreNaturals DEF Timestamps, StoreTypeOK

\* A row that fits the bound has the type of a stream event.
LEMMA AppendedEventType ==
    ASSUME StoreTypeOK, NEW r \in Runs, NEW type \in StreamEventType,
           NextSequence(r) <= MaxEvents, NEW at \in Timestamps
    PROVE  AppendedEvent(r, type, at) \in StreamEvent
<1>1. NextSequence(r) \in 1 .. MaxEvents
  BY NextSequenceIsFresh, BoundsAreNaturals DEF MaxEvents
<1>2. QED
  BY <1>1, TimestampType DEF AppendedEvent, StreamEvent

\* Publishing keeps every log a set of well-typed rows.
LEMMA PublishType ==
    ASSUME StoreTypeOK, NEW r \in Runs, NEW type \in StreamEventType, Publish(r, type)
    PROVE  events' \in [Runs -> SUBSET StreamEvent]
<1>1. PICK at \in Timestamps :
         events' = [events EXCEPT ![r] = @ \cup {AppendedEvent(r, type, at)}]
  BY DEF Publish
<1>2. AppendedEvent(r, type, at) \in StreamEvent
  BY AppendedEventType DEF Publish
<1>3. QED
  BY <1>1, <1>2 DEF StoreTypeOK

-----------------------------------------------------------------------------
(* Type correctness. *)

\* Every terminal status has its stream event type.
LEMMA AnnouncedByType ==
    ASSUME NEW target \in TERMINAL_RUN_STATUSES
    PROVE  AnnouncedBy(target) \in TERMINAL_EVENT_TYPES
<1> USE DEF AnnouncedBy, TERMINAL_EVENT_TYPES,
            COMPLETED, FAILED, CANCELLED, INTERRUPTED
<1>1. CASE target = COMPLETED
  BY <1>1
<1>2. CASE target = FAILED
  BY <1>2
<1>3. CASE target = CANCELLED
  BY <1>3
<1>4. CASE target = INTERRUPTED
  BY <1>4
<1>5. QED
  BY <1>1, <1>2, <1>3, <1>4 DEF TERMINAL_RUN_STATUSES

\* The tables start empty and well typed.
LEMMA InitType == StoreInit => StoreTypeOK
<1>1. MaxVersion \in Nat /\ MaxAttempts \in Nat /\ MaxTime \in Nat
  BY BoundsAreNaturals
<1>2. QED
  BY <1>1 DEF StoreInit, StoreTypeOK, NoRequest

\* The columns a terminal transition writes stay well typed.
LEMMA FinishType ==
    ASSUME StoreTypeOK, NEW r \in Runs, NEW target \in TERMINAL_RUN_STATUSES,
           Finish(r, target)
    PROVE  /\ status' \in [Runs -> RunStatus \cup {ABSENT}]
           /\ completedAt' \in [Runs -> 0 .. MaxTime]
           /\ events' \in [Runs -> SUBSET StreamEvent]
           /\ UNCHANGED <<request, owner, attempts, now>>
<1>1. AnnouncedBy(target) \in StreamEventType
  BY AnnouncedByType DEF StreamEventType
<1>2. events' \in [Runs -> SUBSET StreamEvent]
  BY <1>1, PublishType DEF Finish
<1>3. completedAt' \in [Runs -> 0 .. MaxTime]
  BY TimestampType DEF Finish, StoreTypeOK
<1>4. QED
  BY <1>2, <1>3 DEF Finish, StoreTypeOK, RunStatus

\* Interrupting a set of runs keeps every column well typed.
LEMMA InterruptType ==
    ASSUME StoreTypeOK, NEW w, NEW sameWorker, NEW locked,
           InterruptMatching(w, sameWorker, locked)
    PROVE  StoreTypeOK'
<1> DEFINE runs == Matching(w, sameWorker) \ locked
<1>1. UNCHANGED <<version, transcript, request, owner, attempts, now>>
  BY DEF InterruptMatching, sessionVars
<1>2. status' \in [Runs -> RunStatus \cup {ABSENT}]
  BY DEF InterruptMatching, StoreTypeOK, RunStatus, TERMINAL_RUN_STATUSES
<1>3. completedAt' \in [Runs -> 0 .. MaxTime]
  <2>1. PICK done \in [runs -> Timestamps] :
           completedAt' = [r \in Runs |-> IF r \in runs THEN done[r] ELSE completedAt[r]]
    BY DEF InterruptMatching
  <2>2. \A r \in runs : done[r] \in 0 .. MaxTime
    BY TimestampType
  <2> HIDE DEF runs
  <2>3. QED
    BY <2>1, <2>2 DEF StoreTypeOK
<1>4. events' \in [Runs -> SUBSET StreamEvent]
  <2>1. RUN_INTERRUPTED \in StreamEventType
    BY DEF StreamEventType, TERMINAL_EVENT_TYPES
  <2>2. PICK at \in Timestamps :
           events' = [r \in Runs |->
                        IF r \in runs
                        THEN events[r] \cup {AppendedEvent(r, RUN_INTERRUPTED, at)}
                        ELSE events[r]]
    BY DEF InterruptMatching
  <2>3. \A r \in runs : AppendedEvent(r, RUN_INTERRUPTED, at) \in StreamEvent
    <3> SUFFICES ASSUME NEW r \in runs
                 PROVE  AppendedEvent(r, RUN_INTERRUPTED, at) \in StreamEvent
      OBVIOUS
    <3>1. r \in Runs /\ NextSequence(r) <= MaxEvents
      BY DEF InterruptMatching, Matching
    <3>2. QED
      BY <2>1, <3>1, AppendedEventType
  <2> HIDE DEF runs
  <2>4. QED
    BY <2>2, <2>3 DEF StoreTypeOK
<1>5. QED
  BY <1>1, <1>2, <1>3, <1>4 DEF StoreTypeOK

\* Every transaction keeps the tables well typed.
LEMMA TypeStep == StoreTypeOK /\ [StoreNext]_storeVars => StoreTypeOK'
<1> SUFFICES ASSUME StoreTypeOK, [StoreNext]_storeVars
             PROVE  StoreTypeOK'
  OBVIOUS
<1> USE DEF sessionVars, runVars
<1>1. MaxVersion \in Nat \ {0} /\ MaxAttempts \in Nat /\ MaxTime \in Nat
  BY BoundsAreNaturals
<1>2. ASSUME NEW s \in Sessions, CreateSession(s)
      PROVE  StoreTypeOK'
  BY <1>1, <1>2 DEF CreateSession, StoreTypeOK
<1>3. ASSUME NEW s \in Sessions, NEW role \in Role, AppendMessage(s, role)
      PROVE  StoreTypeOK'
  <2>1. [role |-> role, run |-> NoRun] \in Message
    BY DEF Message
  <2>2. QED
    BY <1>1, <1>3, <2>1 DEF AppendMessage, MayRewrite, StoreTypeOK
<1>4. ASSUME NEW s \in Sessions, ClearSession(s)
      PROVE  StoreTypeOK'
  BY <1>1, <1>4 DEF ClearSession, MayRewrite, StoreTypeOK
<1>5. ASSUME NEW s \in Sessions, NEW k \in Keys \cup {NoKey}, NEW h \in Hashes,
             NEW r \in Runs, NEW param, NEW w \in Workers,
             ReserveRun(r, param, s, k, h, w)
      PROVE  StoreTypeOK'
  <2>1. [session |-> s, key |-> k, hash |-> h] \in Request
    BY DEF Request
  <2>2. PENDING \in RunStatus
    BY DEF RunStatus, ACTIVE_RUN_STATUSES
  <2>3. QED
    BY <1>1, <1>5, <2>1, <2>2 DEF ReserveRun, StoreTypeOK
<1>6. ASSUME NEW s \in Sessions, NEW k, NEW h, ReplayLeavingSession(s, k, h)
      PROVE  StoreTypeOK'
  BY <1>2, <1>6 DEF ReplayLeavingSession
<1>7. ASSUME NEW r \in Runs, NEW w \in Workers, MarkRunRunning(r, w)
      PROVE  StoreTypeOK'
  <2>1. events' \in [Runs -> SUBSET StreamEvent]
    BY <1>7, PublishType DEF MarkRunRunning, StreamEventType
  <2>2. RUNNING \in RunStatus
    BY DEF RunStatus, ACTIVE_RUN_STATUSES
  <2>3. QED
    BY <1>7, <2>1, <2>2 DEF MarkRunRunning, StoreTypeOK
<1>8. ASSUME NEW r \in Runs, IncrementRunAttempt(r)
      PROVE  StoreTypeOK'
  BY <1>1, <1>8 DEF IncrementRunAttempt, StoreTypeOK
<1>9. ASSUME NEW r \in Runs, AppendStreamEvent(r, RESPONSE_DELTA)
      PROVE  StoreTypeOK'
  <2>1. events' \in [Runs -> SUBSET StreamEvent]
    BY <1>9, PublishType DEF AppendStreamEvent, StreamEventType
  <2>2. QED
    BY <1>9, <2>1 DEF AppendStreamEvent, StoreTypeOK
<1>10. ASSUME NEW r \in Runs, CommitRunSuccess(r)
       PROVE  StoreTypeOK'
  <2> DEFINE s    == request[r].session
             turn == <<[role |-> "user", run |-> r], [role |-> "assistant", run |-> r]>>
  <2>1. Finish(r, COMPLETED) /\ COMPLETED \in TERMINAL_RUN_STATUSES
    BY <1>10 DEF CommitRunSuccess, TERMINAL_RUN_STATUSES
  <2>2. turn \in Seq(Message)
    BY DEF Message, Role
  <2>3. transcript' \in [Sessions -> Seq(Message)]
    <3>1. transcript' = [transcript EXCEPT ![s] = transcript[s] \o turn]
      BY <1>10 DEF CommitRunSuccess
    <3>2. transcript \in [Sessions -> Seq(Message)]
      BY DEF StoreTypeOK
    <3>3. \A x \in Sessions : transcript[x] \o turn \in Seq(Message)
      BY <2>2, <3>2
    <3> HIDE DEF s, turn
    <3>4. QED
      BY <3>1, <3>2, <3>3
  <2>4. version' \in [Sessions -> 0 .. MaxVersion]
    <3>1. version[s] < MaxVersion /\ version' = [version EXCEPT ![s] = version[s] + 1]
      BY <1>10 DEF CommitRunSuccess
    <3>2. version \in [Sessions -> 0 .. MaxVersion]
      BY DEF StoreTypeOK
    <3> HIDE DEF s
    <3>3. CASE s \in Sessions
      <4>1. version[s] + 1 \in 0 .. MaxVersion
        BY <1>1, <3>1, <3>2, <3>3
      <4>2. QED
        BY <3>1, <3>2, <4>1
    <3>4. CASE s \notin Sessions
      BY <3>1, <3>2, <3>4
    <3>5. QED
      BY <3>3, <3>4
  <2>5. QED
    BY <2>1, <2>3, <2>4, FinishType DEF StoreTypeOK
<1>11. ASSUME NEW r \in Runs, FailRun(r)
       PROVE  StoreTypeOK'
  BY <1>11, FinishType DEF FailRun, StoreTypeOK, TERMINAL_RUN_STATUSES
<1>12. ASSUME NEW r \in Runs, NEW w, CancelRun(r, w)
       PROVE  StoreTypeOK'
  BY <1>12, FinishType DEF CancelRun, StoreTypeOK, TERMINAL_RUN_STATUSES
<1>13. ASSUME NEW w, NEW locked,
              InterruptWorkerRuns(w, locked) \/ ReconcileOrphanedRuns(w, locked)
       PROVE  StoreTypeOK'
  BY <1>13, InterruptType DEF InterruptWorkerRuns, ReconcileOrphanedRuns
<1>14. ASSUME PruneStreamEvents
       PROVE  StoreTypeOK'
  BY <1>14 DEF PruneStreamEvents, StoreTypeOK
<1>15. ASSUME Tick
       PROVE  StoreTypeOK'
  BY <1>1, <1>15 DEF Tick, StoreTypeOK
<1>16. ASSUME UNCHANGED storeVars
       PROVE  StoreTypeOK'
  BY <1>16 DEF storeVars, StoreTypeOK
<1>17. QED
  BY <1>2, <1>3, <1>4, <1>5, <1>6, <1>7, <1>8, <1>9, <1>10, <1>11, <1>12, <1>13,
     <1>14, <1>15, <1>16
  DEF StoreNext, SessionStep, ReservationStep, RunStep, MaintenanceStep

\* The tables are well typed in every reachable state: no transaction of
\* database/store.py writes a value its column does not admit, and sequence
\* numbers stay positive, whatever the number of workers, runs and keys.
THEOREM StoreIsWellTyped == StoreSpec => []StoreTypeOK
<1>1. QED
  BY InitType, TypeStep, PTL DEF StoreSpec

-----------------------------------------------------------------------------
(* Runs: which transactions write the row of a run, and how. *)

\* No transaction but a reservation writes a run's session, key or hash, and
\* status moves only along the frozen transition table.
RowsMoveOn ==
    /\ request' = request
    /\ \A r \in Runs : \/ status'[r] = status[r]
                       \/ ValidRunTransition(status[r], status'[r])

Reservation ==
    \E s \in Sessions, r \in Runs : \E k, h, param, w : ReserveRun(r, param, s, k, h, w)

\* Every entry of the transition table leads out of an active status, and
\* never to the absent one.
LEMMA TransitionsLeaveActive ==
    ASSUME NEW from, NEW to, ValidRunTransition(from, to)
    PROVE  /\ from \in ACTIVE_RUN_STATUSES
           /\ to \in RunStatus
           /\ from # ABSENT /\ to # ABSENT
           /\ to \in ACTIVE_RUN_STATUSES => from \in ACTIVE_RUN_STATUSES
BY DEF ValidRunTransition, ALLOWED_RUN_TRANSITIONS, ACTIVE_RUN_STATUSES, RunStatus,
       TERMINAL_RUN_STATUSES, PENDING, RUNNING, COMPLETED, FAILED, CANCELLED,
       INTERRUPTED, ABSENT

\* A terminal transition of one run follows the table and spares the others.
LEMMA FinishMovesOn ==
    ASSUME StoreTypeOK, NEW r \in Runs, NEW target, Finish(r, target)
    PROVE  RowsMoveOn
BY DEF Finish, RowsMoveOn, StoreTypeOK

\* Interruption moves exactly the matching rows that are not locked.
LEMMA InterruptMovesOn ==
    ASSUME StoreTypeOK, NEW w, NEW sameWorker, NEW locked,
           InterruptMatching(w, sameWorker, locked)
    PROVE  RowsMoveOn
<1>1. request' = request
  BY DEF InterruptMatching
<1>2. ASSUME NEW r \in Runs, Active(r)
      PROVE  ValidRunTransition(status[r], INTERRUPTED)
  BY <1>2 DEF Active, ValidRunTransition, ALLOWED_RUN_TRANSITIONS, ACTIVE_RUN_STATUSES
<1>3. ASSUME NEW r \in Runs, status'[r] # status[r]
      PROVE  ValidRunTransition(status[r], status'[r])
  <2>1. status'[r] = INTERRUPTED /\ Active(r)
    BY <1>3 DEF InterruptMatching, Matching
  <2>2. QED
    BY <1>2, <2>1
<1>4. QED
  BY <1>1, <1>3 DEF RowsMoveOn

\* A step of the store reserves a run or moves the existing ones on.
LEMMA RowStep == StoreTypeOK /\ [StoreNext]_storeVars => Reservation \/ RowsMoveOn
<1> SUFFICES ASSUME StoreTypeOK, [StoreNext]_storeVars, ~ Reservation
             PROVE  RowsMoveOn
  OBVIOUS
<1>1. ASSUME UNCHANGED <<status, request>>
      PROVE  RowsMoveOn
  BY <1>1 DEF RowsMoveOn
<1>2. CASE SessionStep
  BY <1>1, <1>2 DEF SessionStep, CreateSession, AppendMessage, ClearSession, runVars
<1>3. CASE ReservationStep
  BY <1>1, <1>3 DEF ReservationStep, Reservation, ReplayLeavingSession, CreateSession,
     runVars
<1>4. ASSUME NEW r \in Runs, NEW w \in Workers, MarkRunRunning(r, w)
      PROVE  RowsMoveOn
  BY <1>4 DEF MarkRunRunning, RowsMoveOn, StoreTypeOK
<1>5. ASSUME NEW r \in Runs, NEW w \in Workers, CancelRun(r, w)
      PROVE  RowsMoveOn
  BY <1>5, FinishMovesOn DEF CancelRun
<1>6. ASSUME NEW r \in Runs, IncrementRunAttempt(r) \/ AppendStreamEvent(r, RESPONSE_DELTA)
      PROVE  RowsMoveOn
  BY <1>1, <1>6 DEF IncrementRunAttempt, AppendStreamEvent, runVars
<1>7. ASSUME NEW r \in Runs, CommitRunSuccess(r) \/ FailRun(r)
      PROVE  RowsMoveOn
  BY <1>7, FinishMovesOn DEF CommitRunSuccess, FailRun
<1>8. CASE MaintenanceStep
  <2>1. ASSUME PruneStreamEvents \/ Tick
        PROVE  RowsMoveOn
    BY <1>1, <2>1 DEF PruneStreamEvents, Tick, runVars
  <2>2. QED
    BY <1>8, <2>1, InterruptMovesOn
    DEF MaintenanceStep, InterruptWorkerRuns, ReconcileOrphanedRuns
<1>9. CASE UNCHANGED storeVars
  BY <1>1, <1>9 DEF storeVars, runVars
<1>10. QED
  BY <1>2, <1>3, <1>4, <1>5, <1>6, <1>7, <1>8, <1>9 DEF StoreNext, RunStep

-----------------------------------------------------------------------------
(* One active run per session. *)

\* The reservation that finds no active run under the session lock is the only
\* step that can create one.
LEMMA OneActiveStep ==
    StoreTypeOK /\ OneActiveRunPerSession /\ [StoreNext]_storeVars
        => OneActiveRunPerSession'
<1> SUFFICES ASSUME StoreTypeOK, OneActiveRunPerSession, [StoreNext]_storeVars
             PROVE  OneActiveRunPerSession'
  OBVIOUS
<1>1. CASE RowsMoveOn
  <2>1. \A r \in Runs : Active(r)' => Active(r)
    BY <1>1, TransitionsLeaveActive DEF RowsMoveOn, Active
  <2>2. QED
    BY <1>1, <2>1 DEF RowsMoveOn, OneActiveRunPerSession
<1>2. CASE Reservation
  <2>1. PICK s \in Sessions, r \in Runs :
           \E k, h, param, w : ReserveRun(r, param, s, k, h, w)
    BY <1>2 DEF Reservation
  <2>2. /\ request'[r].session = s
        /\ \A x \in Runs \ {r} : request'[x] = request[x] /\ status'[x] = status[x]
    BY <2>1 DEF ReserveRun, StoreTypeOK
  <2>3. \A x \in Runs : Active(x) => request[x].session # s
    BY <2>1 DEF ReserveRun, ActiveRuns
  <2>4. QED
    BY <2>2, <2>3 DEF OneActiveRunPerSession, Active
<1>3. QED
  BY <1>1, <1>2, RowStep

\* A session never has two active runs, for every set of runs, sessions and
\* workers: reserve_run decides under the session lock, and no other
\* transaction of database/store.py brings an ended or absent run to life.
THEOREM OneActiveRun == StoreSpec => []OneActiveRunPerSession
<1>1. StoreInit => OneActiveRunPerSession
  BY DEF StoreInit, OneActiveRunPerSession, Active, ACTIVE_RUN_STATUSES, ABSENT,
         PENDING, RUNNING
<1>2. QED
  BY <1>1, OneActiveStep, StoreIsWellTyped, PTL DEF StoreSpec

-----------------------------------------------------------------------------
(* One run per idempotency key. *)

\* Only a reservation writes a key, and only one that no row carries.
LEMMA KeyNamesOneRunStep ==
    StoreTypeOK /\ KeyNamesOneRun /\ [StoreNext]_storeVars => KeyNamesOneRun'
<1> SUFFICES ASSUME StoreTypeOK, KeyNamesOneRun, [StoreNext]_storeVars
             PROVE  KeyNamesOneRun'
  OBVIOUS
<1>1. CASE RowsMoveOn
  <2>1. \A r \in Runs : status'[r] # ABSENT => status[r] # ABSENT
    BY <1>1, TransitionsLeaveActive DEF RowsMoveOn
  <2>2. QED
    BY <1>1, <2>1 DEF RowsMoveOn, KeyNamesOneRun
<1>2. CASE Reservation
  <2>1. PICK s \in Sessions, r \in Runs :
           \E k, h, param, w : ReserveRun(r, param, s, k, h, w)
    BY <1>2 DEF Reservation
  <2>2. PICK k, h, param, w : ReserveRun(r, param, s, k, h, w)
    BY <2>1
  <2>3. /\ request'[r].key = k
        /\ \A x \in Runs \ {r} : request'[x] = request[x] /\ status'[x] = status[x]
    BY <2>2 DEF ReserveRun, StoreTypeOK
  <2>4. k # NoKey => \A x \in Runs : status[x] # ABSENT => request[x].key # k
    BY <2>2 DEF ReserveRun, KeyHolders
  <2>5. QED
    BY <2>3, <2>4 DEF KeyNamesOneRun
<1>3. QED
  BY <1>1, <1>2, RowStep

\* An idempotency key names one run for ever: two requests with one key never
\* get two provider executions, however many workers and sessions they reach.
THEOREM KeyUniqueness == StoreSpec => []KeyNamesOneRun
<1>1. StoreInit => KeyNamesOneRun
  BY DEF StoreInit, KeyNamesOneRun
<1>2. QED
  BY <1>1, KeyNamesOneRunStep, StoreIsWellTyped, PTL DEF StoreSpec

-----------------------------------------------------------------------------
(* Terminal arbitration. *)

\* No step writes the columns of a run that has ended: the transitions that
\* race for a row are all guarded by the table, and nothing leads out of it.
LEMMA FrozenStep ==
    ASSUME StoreTypeOK, [StoreNext]_storeVars, NEW r \in Runs, Terminal(r)
    PROVE  /\ status'[r] = status[r]
           /\ attempts'[r] = attempts[r]
           /\ owner'[r] = owner[r]
           /\ completedAt'[r] = completedAt[r]
<1> DEFINE Frozen == /\ status'[r] = status[r]
                     /\ attempts'[r] = attempts[r]
                     /\ owner'[r] = owner[r]
                     /\ completedAt'[r] = completedAt[r]
<1>1. status[r] # ABSENT /\ status[r] # RUNNING /\ ~ Active(r)
  BY DEF Terminal, Active, TERMINAL_RUN_STATUSES, ACTIVE_RUN_STATUSES, ABSENT,
         PENDING, RUNNING, COMPLETED, FAILED, CANCELLED, INTERRUPTED
<1>2. \A to : ~ ValidRunTransition(status[r], to)
  BY <1>1, TransitionsLeaveActive DEF Active
<1>3. ASSUME UNCHANGED runVars
      PROVE  Frozen
  BY <1>3 DEF runVars
<1>4. CASE SessionStep
  BY <1>3, <1>4 DEF SessionStep, CreateSession, AppendMessage, ClearSession
<1>5. ASSUME NEW x \in Runs, NEW target, Finish(x, target)
      PROVE  Frozen
  BY <1>2, <1>5 DEF Finish, StoreTypeOK
<1>6. CASE ReservationStep
  <2>1. ASSUME NEW s, NEW x \in Runs, NEW param, NEW k, NEW h, NEW w,
               ReserveRun(x, param, s, k, h, w)
        PROVE  Frozen
    BY <1>1, <2>1 DEF ReserveRun, StoreTypeOK
  <2>2. ASSUME NEW s, NEW k, NEW h, ReplayLeavingSession(s, k, h)
        PROVE  Frozen
    BY <1>3, <2>2 DEF ReplayLeavingSession, CreateSession
  <2>3. QED
    BY <1>6, <2>1, <2>2 DEF ReservationStep
<1>7. CASE RunStep
  <2>1. ASSUME NEW x \in Runs, NEW w, MarkRunRunning(x, w)
        PROVE  Frozen
    BY <1>2, <2>1 DEF MarkRunRunning, StoreTypeOK
  <2>2. ASSUME NEW x \in Runs, IncrementRunAttempt(x)
        PROVE  Frozen
    BY <1>1, <1>2, <2>2 DEF IncrementRunAttempt, StoreTypeOK
  <2>3. ASSUME NEW x \in Runs, AppendStreamEvent(x, RESPONSE_DELTA)
        PROVE  Frozen
    BY <1>3, <2>3 DEF AppendStreamEvent
  <2>4. ASSUME NEW x \in Runs, NEW w, CommitRunSuccess(x) \/ FailRun(x) \/ CancelRun(x, w)
        PROVE  Frozen
    BY <1>5, <2>4 DEF CommitRunSuccess, FailRun, CancelRun
  <2>5. QED
    BY <1>7, <2>1, <2>2, <2>3, <2>4 DEF RunStep
<1>8. CASE MaintenanceStep
  <2>1. ASSUME NEW w, NEW sameWorker, NEW locked, InterruptMatching(w, sameWorker, locked)
        PROVE  Frozen
    BY <1>1, <2>1 DEF InterruptMatching, Matching
  <2>2. ASSUME PruneStreamEvents \/ Tick
        PROVE  Frozen
    BY <1>3, <2>2 DEF PruneStreamEvents, Tick
  <2>3. QED
    BY <1>8, <2>1, <2>2 DEF MaintenanceStep, InterruptWorkerRuns, ReconcileOrphanedRuns
<1>9. CASE UNCHANGED storeVars
  BY <1>3, <1>9 DEF storeVars
<1>10. QED
  BY <1>4, <1>6, <1>7, <1>8, <1>9 DEF StoreNext

\* A terminal run is frozen for ever: whichever of commit, fail, cancel,
\* shutdown and reconciliation wins the race for a row, the others leave its
\* status, attempts, owner and finish time alone.
THEOREM TerminalRunsFrozen == StoreSpec => TerminalRunsAreFrozen
<1>1. StoreTypeOK /\ [StoreNext]_storeVars =>
        [\A r \in Runs : Terminal(r) =>
            /\ status'[r] = status[r]
            /\ attempts'[r] = attempts[r]
            /\ owner'[r] = owner[r]
            /\ completedAt'[r] = completedAt[r]]_storeVars
  BY FrozenStep
<1>2. QED
  BY <1>1, StoreIsWellTyped, PTL DEF StoreSpec, TerminalRunsAreFrozen

-----------------------------------------------------------------------------
(* The transcript of a session with an active run. *)

\* A row of agent_runs names a session that exists as a value.
RunsHaveSessions ==
    \A r \in Runs : status[r] # ABSENT => request[r].session \in Sessions

\* Every reservation fills the session column, and no step empties it.
LEMMA RunsHaveSessionsStep ==
    StoreTypeOK /\ RunsHaveSessions /\ [StoreNext]_storeVars => RunsHaveSessions'
<1> SUFFICES ASSUME StoreTypeOK, RunsHaveSessions, [StoreNext]_storeVars
             PROVE  RunsHaveSessions'
  OBVIOUS
<1>1. CASE RowsMoveOn
  <2>1. \A r \in Runs : status'[r] # ABSENT => status[r] # ABSENT
    BY <1>1, TransitionsLeaveActive DEF RowsMoveOn
  <2>2. QED
    BY <1>1, <2>1 DEF RowsMoveOn, RunsHaveSessions
<1>2. CASE Reservation
  <2>1. PICK s \in Sessions, r \in Runs :
           \E k, h, param, w : ReserveRun(r, param, s, k, h, w)
    BY <1>2 DEF Reservation
  <2>2. /\ request'[r].session = s
        /\ \A x \in Runs \ {r} : request'[x] = request[x] /\ status'[x] = status[x]
    BY <2>1 DEF ReserveRun, StoreTypeOK
  <2>3. QED
    BY <2>2 DEF RunsHaveSessions
<1>3. QED
  BY <1>1, <1>2, RowStep

\* In every reachable state a reserved run belongs to a session.
LEMMA RunsKeepSessions == StoreSpec => []RunsHaveSessions
<1>1. StoreInit => RunsHaveSessions
  BY DEF StoreInit, RunsHaveSessions
<1>2. QED
  BY <1>1, RunsHaveSessionsStep, StoreIsWellTyped, PTL DEF StoreSpec

\* append_message and clear_session refuse a busy session, and the commit that
\* extends a busy session's transcript is that of its one active run.
LEMMA TranscriptStep ==
    ASSUME StoreTypeOK, RunsHaveSessions, OneActiveRunPerSession,
           [StoreNext]_storeVars, NEW r \in Runs, Active(r),
           transcript'[request[r].session] # transcript[request[r].session]
    PROVE  status'[r] = COMPLETED
<1>0. request[r].session \in Sessions
  BY DEF RunsHaveSessions, Active, ACTIVE_RUN_STATUSES, ABSENT, PENDING, RUNNING
<1>1. transcript' # transcript
  OBVIOUS
<1>2. ASSUME NEW s \in Sessions, NEW role, AppendMessage(s, role) \/ ClearSession(s)
      PROVE  FALSE
  <2>1. request[r].session # s
    BY <1>2 DEF AppendMessage, ClearSession, MayRewrite, ActiveRuns
  <2>2. QED
    BY <1>0, <1>2, <2>1 DEF AppendMessage, ClearSession, StoreTypeOK
<1>3. CASE SessionStep
  BY <1>1, <1>2, <1>3 DEF SessionStep, CreateSession
<1>4. CASE ReservationStep
  BY <1>1, <1>4 DEF ReservationStep, ReserveRun, ReplayLeavingSession, CreateSession
<1>5. ASSUME NEW x \in Runs, CommitRunSuccess(x)
      PROVE  status'[r] = COMPLETED
  <2>1. request[r].session = request[x].session
    BY <1>0, <1>5 DEF CommitRunSuccess, StoreTypeOK
  <2>2. Active(x)
    BY <1>5, TransitionsLeaveActive DEF CommitRunSuccess, Finish, Active
  <2>3. r = x
    BY <2>1, <2>2 DEF OneActiveRunPerSession
  <2>4. QED
    BY <1>5, <2>3 DEF CommitRunSuccess, Finish, StoreTypeOK
<1>6. CASE RunStep
  BY <1>1, <1>5, <1>6 DEF RunStep, MarkRunRunning, CancelRun, IncrementRunAttempt,
     AppendStreamEvent, FailRun, sessionVars
<1>7. CASE MaintenanceStep
  BY <1>1, <1>7 DEF MaintenanceStep, InterruptWorkerRuns, ReconcileOrphanedRuns,
     InterruptMatching, PruneStreamEvents, Tick, sessionVars
<1>8. CASE UNCHANGED storeVars
  BY <1>1, <1>8 DEF storeVars, sessionVars
<1>9. QED
  BY <1>3, <1>4, <1>6, <1>7, <1>8 DEF StoreNext

\* The history a provider was given stays the session's history until the run
\* that asked for it ends: only the commit of the one active run of a session
\* may change that session's transcript.
THEOREM TranscriptOwned == StoreSpec => ActiveRunOwnsTranscript
<1>1. StoreTypeOK /\ RunsHaveSessions /\ OneActiveRunPerSession /\ [StoreNext]_storeVars =>
        [\A r \in Runs :
            Active(r) /\ transcript'[request[r].session] # transcript[request[r].session]
            => status'[r] = COMPLETED]_storeVars
  BY TranscriptStep
<1>2. QED
  BY <1>1, StoreIsWellTyped, RunsKeepSessions, OneActiveRun, PTL DEF StoreSpec, ActiveRunOwnsTranscript

-----------------------------------------------------------------------------
(* The stream log of a run. *)

EndsOf(log) == {e \in log : e.type \in TERMINAL_EVENT_TYPES}

\* The ways a step may treat one run's row and log: no new end is announced
\* and a terminal status is neither entered nor left, or the run ends and one
\* event announces it.
NoEnd(r) ==
    /\ EndsOf(events'[r]) \subseteq EndsOf(events[r])
    /\ status'[r] = status[r] \/ ~ Terminal(r)
    /\ Terminal(r)' => Terminal(r)

Ends(r) ==
    /\ ~ Terminal(r)
    /\ Terminal(r)'
    /\ \E e \in events'[r] : /\ e.type = AnnouncedBy(status'[r])
                             /\ events'[r] = events[r] \cup {e}

\* A row that announces nothing adds no end to a log.
LEMMA PlainEventIsNoEnd ==
    ASSUME StoreTypeOK, NEW x \in Runs, NEW type \in {RUN_STARTED, RESPONSE_DELTA},
           Publish(x, type), NEW r \in Runs
    PROVE  EndsOf(events'[r]) \subseteq EndsOf(events[r])
<1>1. PICK at \in Timestamps :
         events' = [events EXCEPT ![x] = @ \cup {AppendedEvent(x, type, at)}]
  BY DEF Publish
<1>2. AppendedEvent(x, type, at).type \notin TERMINAL_EVENT_TYPES
  BY DEF AppendedEvent, TERMINAL_EVENT_TYPES, RUN_STARTED, RESPONSE_DELTA,
         RESPONSE_COMPLETED, RUN_FAILED, RUN_CANCELLED, RUN_INTERRUPTED
<1>3. events'[r] \subseteq events[r] \cup {AppendedEvent(x, type, at)}
  BY <1>1 DEF StoreTypeOK
<1>4. QED
  BY <1>2, <1>3 DEF EndsOf

\* A terminal transition announces itself in its own log and in no other.
LEMMA FinishEnds ==
    ASSUME StoreTypeOK, NEW x \in Runs, NEW target \in TERMINAL_RUN_STATUSES,
           Finish(x, target), NEW r \in Runs
    PROVE  NoEnd(r) \/ Ends(r)
<1>1. CASE r = x
  <2>1. ~ Terminal(r)
    BY <1>1, TransitionsLeaveActive
    DEF Finish, Terminal, TERMINAL_RUN_STATUSES, ACTIVE_RUN_STATUSES, PENDING, RUNNING,
        COMPLETED, FAILED, CANCELLED, INTERRUPTED
  <2>2. status'[r] = target
    BY <1>1 DEF Finish, StoreTypeOK
  <2>3. PICK at \in Timestamps :
           events'[r] = events[r] \cup {AppendedEvent(r, AnnouncedBy(target), at)}
    BY <1>1 DEF Finish, Publish, StoreTypeOK
  <2>4. AppendedEvent(r, AnnouncedBy(target), at).type = AnnouncedBy(target)
    BY DEF AppendedEvent
  <2>5. QED
    BY <2>1, <2>2, <2>3, <2>4 DEF Ends, Terminal
<1>2. CASE r # x
  BY <1>2 DEF Finish, Publish, StoreTypeOK, NoEnd, EndsOf, Terminal
<1>3. QED
  BY <1>1, <1>2

\* Every step of the store treats every log in one of these two ways.
LEMMA LogStep ==
    ASSUME StoreTypeOK, [StoreNext]_storeVars, NEW r \in Runs
    PROVE  NoEnd(r) \/ Ends(r)
<1>1. ASSUME UNCHANGED <<status, events>>
      PROVE  NoEnd(r)
  BY <1>1 DEF NoEnd, EndsOf, Terminal
<1>2. CASE SessionStep
  BY <1>1, <1>2 DEF SessionStep, CreateSession, AppendMessage, ClearSession, runVars
<1>3. CASE ReservationStep
  <2>1. ASSUME NEW s, NEW x \in Runs, NEW param, NEW k, NEW h, NEW w,
               ReserveRun(x, param, s, k, h, w)
        PROVE  NoEnd(r)
    <3>1. events' = events
      BY <2>1 DEF ReserveRun
    <3>2. status'[r] = status[r] \/ (status[r] = ABSENT /\ status'[r] = PENDING)
      BY <2>1 DEF ReserveRun, StoreTypeOK
    <3>3. QED
      BY <3>1, <3>2 DEF NoEnd, EndsOf, Terminal, TERMINAL_RUN_STATUSES, ABSENT, PENDING,
                       COMPLETED, FAILED, CANCELLED, INTERRUPTED
  <2>2. QED
    BY <1>1, <1>3, <2>1 DEF ReservationStep, ReplayLeavingSession, CreateSession, runVars
<1>4. ASSUME NEW x \in Runs, NEW w, MarkRunRunning(x, w)
      PROVE  NoEnd(r)
  <2>1. EndsOf(events'[r]) \subseteq EndsOf(events[r])
    BY <1>4, PlainEventIsNoEnd DEF MarkRunRunning
  <2>2. \/ status'[r] = status[r]
        \/ status[r] \in ACTIVE_RUN_STATUSES /\ status'[r] = RUNNING
    BY <1>4, TransitionsLeaveActive DEF MarkRunRunning, StoreTypeOK
  <2>3. QED
    BY <2>1, <2>2 DEF NoEnd, Terminal, TERMINAL_RUN_STATUSES, ACTIVE_RUN_STATUSES,
                     PENDING, RUNNING, COMPLETED, FAILED, CANCELLED, INTERRUPTED
<1>5. ASSUME NEW x \in Runs, AppendStreamEvent(x, RESPONSE_DELTA)
      PROVE  NoEnd(r)
  <2>1. EndsOf(events'[r]) \subseteq EndsOf(events[r])
    BY <1>5, PlainEventIsNoEnd DEF AppendStreamEvent
  <2>2. QED
    BY <1>5, <2>1 DEF AppendStreamEvent, runVars, NoEnd, Terminal
<1>6. ASSUME NEW x \in Runs, NEW w, CommitRunSuccess(x) \/ FailRun(x) \/ CancelRun(x, w)
      PROVE  NoEnd(r) \/ Ends(r)
  BY <1>6, FinishEnds DEF CommitRunSuccess, FailRun, CancelRun, TERMINAL_RUN_STATUSES
<1>7. CASE RunStep
  BY <1>1, <1>4, <1>5, <1>6, <1>7 DEF RunStep, IncrementRunAttempt
<1>8. ASSUME NEW w, NEW sameWorker, NEW locked, InterruptMatching(w, sameWorker, locked)
      PROVE  NoEnd(r) \/ Ends(r)
  <2> DEFINE runs == Matching(w, sameWorker) \ locked
  <2>1. CASE r \in runs
    <3>1. status'[r] = INTERRUPTED /\ ~ Terminal(r)
      BY <1>8, <2>1
      DEF InterruptMatching, Matching, Active, Terminal, TERMINAL_RUN_STATUSES,
          ACTIVE_RUN_STATUSES, PENDING, RUNNING, COMPLETED, FAILED, CANCELLED, INTERRUPTED
    <3>2. PICK at \in Timestamps :
             events'[r] = events[r] \cup {AppendedEvent(r, RUN_INTERRUPTED, at)}
      BY <1>8, <2>1 DEF InterruptMatching
    <3>3. AppendedEvent(r, RUN_INTERRUPTED, at).type = AnnouncedBy(INTERRUPTED)
      BY DEF AppendedEvent, AnnouncedBy, COMPLETED, FAILED, CANCELLED, INTERRUPTED
    <3>4. QED
      BY <3>1, <3>2, <3>3 DEF Ends, Terminal, TERMINAL_RUN_STATUSES
  <2>2. CASE r \notin runs
    BY <1>8, <2>2 DEF InterruptMatching, NoEnd, EndsOf, Terminal
  <2>3. QED
    BY <2>1, <2>2
<1>9. CASE MaintenanceStep
  <2>1. ASSUME PruneStreamEvents
        PROVE  NoEnd(r)
    BY <2>1 DEF PruneStreamEvents, runVars, NoEnd, EndsOf, Terminal
  <2>2. QED
    BY <1>1, <1>8, <1>9, <2>1
    DEF MaintenanceStep, InterruptWorkerRuns, ReconcileOrphanedRuns, Tick, runVars
<1>10. CASE UNCHANGED storeVars
  BY <1>1, <1>10 DEF storeVars, runVars
<1>11. QED
  BY <1>2, <1>3, <1>7, <1>9, <1>10 DEF StoreNext

\* What a log announces and what the run's row says change together.
LEMMA LogAgreesStep ==
    StoreTypeOK /\ LogAgreesWithStatus /\ [StoreNext]_storeVars => LogAgreesWithStatus'
<1> SUFFICES ASSUME StoreTypeOK, LogAgreesWithStatus, [StoreNext]_storeVars,
                    NEW r \in Runs
             PROVE  (\A e \in events[r] : e.type \in TERMINAL_EVENT_TYPES =>
                        /\ Terminal(r)
                        /\ e.type = AnnouncedBy(status[r])
                        /\ \A d \in events[r] : d.type \in TERMINAL_EVENT_TYPES => d = e)'
  BY DEF LogAgreesWithStatus
<1>1. CASE NoEnd(r)
  <2>1. \A e \in events'[r] : e.type \in TERMINAL_EVENT_TYPES => e \in events[r]
    BY <1>1 DEF NoEnd, EndsOf
  <2>2. \A e \in events'[r] : e.type \in TERMINAL_EVENT_TYPES =>
           Terminal(r) /\ status'[r] = status[r]
    BY <1>1, <2>1 DEF NoEnd, LogAgreesWithStatus
  <2>3. QED
    BY <2>1, <2>2 DEF LogAgreesWithStatus, Terminal
<1>2. CASE Ends(r)
  <2>1. PICK e \in events'[r] : /\ e.type = AnnouncedBy(status'[r])
                                /\ events'[r] = events[r] \cup {e}
    BY <1>2 DEF Ends
  <2>2. \A d \in events'[r] : d.type \in TERMINAL_EVENT_TYPES => d = e
    BY <1>2, <2>1 DEF Ends, LogAgreesWithStatus
  <2>3. QED
    BY <1>2, <2>1, <2>2 DEF Ends
<1>3. QED
  BY <1>1, <1>2, LogStep

\* A log announces an end only if the run's row says the same, and once:
\* commit, fail, cancel, interrupt and reconcile write both in one transaction
\* and the table lets only one of them through.
THEOREM LogMatchesStatus == StoreSpec => []LogAgreesWithStatus
<1>1. StoreInit => LogAgreesWithStatus
  BY DEF StoreInit, LogAgreesWithStatus
<1>2. QED
  BY <1>1, LogAgreesStep, StoreIsWellTyped, PTL DEF StoreSpec

\* What a step may do to one log: keep every unexpired row, add newer ones.
AppendsOnly(r) ==
    /\ \A e \in events[r] \ events'[r] : Terminal(r) /\ Expired(e, now)
    /\ \A e \in events'[r] \ events[r], d \in events[r] : d.sequence < e.sequence

\* Publishing adds one row past the newest.
LEMMA PublishAppends ==
    ASSUME StoreTypeOK, NEW x \in Runs, NEW type, Publish(x, type), NEW r \in Runs
    PROVE  AppendsOnly(r)
<1>1. CASE r = x
  <2>1. PICK at \in Timestamps : events'[r] = events[r] \cup {AppendedEvent(r, type, at)}
    BY <1>1 DEF Publish, StoreTypeOK
  <2>2. AppendedEvent(r, type, at).sequence = NextSequence(r)
    BY DEF AppendedEvent
  <2>3. QED
    BY <2>1, <2>2, NextSequenceIsFresh DEF AppendsOnly
<1>2. CASE r # x
  BY <1>2 DEF Publish, StoreTypeOK, AppendsOnly
<1>3. QED
  BY <1>1, <1>2

\* No cut-off is later than the fastest clock.
LEMMA PruneTakesExpired ==
    ASSUME StoreTypeOK, PruneStreamEvents, NEW r \in Runs
    PROVE  /\ events'[r] \subseteq events[r]
           /\ \A e \in events[r] \ events'[r] : Terminal(r) /\ Expired(e, now)
<1>1. PICK clock \in Timestamps :
         events' = [x \in Runs |-> IF Terminal(x)
                                   THEN {e \in events[x] : ~ Expired(e, clock)}
                                   ELSE events[x]]
  BY DEF PruneStreamEvents
<1>2. events'[r] \subseteq events[r]
  BY <1>1
<1>3. \A e \in events[r] \ events'[r] : Terminal(r) /\ Expired(e, clock)
  BY <1>1
<1>4. \A e \in events[r] : e.createdAt \in Nat
  BY BoundsAreNaturals DEF StoreTypeOK, StreamEvent
<1>5. clock \in Nat /\ now \in Nat /\ clock <= now /\ Retention \in Nat
  BY BoundsAreNaturals DEF Timestamps, StoreTypeOK
<1>6. \A e \in events[r] : Expired(e, clock) => Expired(e, now)
  BY <1>4, <1>5 DEF Expired
<1>7. QED
  BY <1>2, <1>3, <1>6

\* Every step of the store treats every log that way.
LEMMA AppendStep ==
    ASSUME StoreTypeOK, [StoreNext]_storeVars, NEW r \in Runs
    PROVE  AppendsOnly(r)
<1>1. ASSUME UNCHANGED events
      PROVE  AppendsOnly(r)
  BY <1>1 DEF AppendsOnly
<1>2. CASE SessionStep
  BY <1>1, <1>2 DEF SessionStep, CreateSession, AppendMessage, ClearSession
<1>3. CASE ReservationStep
  BY <1>1, <1>3 DEF ReservationStep, ReserveRun, ReplayLeavingSession, CreateSession
<1>4. CASE RunStep
  BY <1>1, <1>4, PublishAppends
  DEF RunStep, MarkRunRunning, CancelRun, IncrementRunAttempt, AppendStreamEvent,
      CommitRunSuccess, FailRun, Finish
<1>5. ASSUME NEW w, NEW sameWorker, NEW locked, InterruptMatching(w, sameWorker, locked)
      PROVE  AppendsOnly(r)
  <2>1. PICK at \in Timestamps :
           \/ events'[r] = events[r]
           \/ events'[r] = events[r] \cup {AppendedEvent(r, RUN_INTERRUPTED, at)}
    BY <1>5 DEF InterruptMatching
  <2>2. AppendedEvent(r, RUN_INTERRUPTED, at).sequence = NextSequence(r)
    BY DEF AppendedEvent
  <2>3. QED
    BY <2>1, <2>2, NextSequenceIsFresh DEF AppendsOnly
<1>6. CASE MaintenanceStep
  <2>1. ASSUME PruneStreamEvents
        PROVE  AppendsOnly(r)
    BY <2>1, PruneTakesExpired DEF AppendsOnly
  <2>2. QED
    BY <1>1, <1>5, <1>6, <2>1
    DEF MaintenanceStep, InterruptWorkerRuns, ReconcileOrphanedRuns, Tick
<1>7. CASE UNCHANGED storeVars
  BY <1>1, <1>7 DEF storeVars
<1>8. QED
  BY <1>2, <1>3, <1>4, <1>6, <1>7 DEF StoreNext

\* A log only grows past its newest row, and only the prune of a terminal run
\* takes rows, those older than the retention: a reader that resumes after a
\* cursor never finds a late row slipped in behind it.
THEOREM LogAppendOnly == StoreSpec => LogIsAppendOnly
<1>1. StoreTypeOK /\ [StoreNext]_storeVars =>
        [\A r \in Runs :
            /\ \A e \in events[r] \ events'[r] : Terminal(r) /\ Expired(e, now)
            /\ \A e \in events'[r] \ events[r], d \in events[r] :
                  d.sequence < e.sequence]_storeVars
  BY AppendStep DEF AppendsOnly
<1>2. QED
  BY <1>1, StoreIsWellTyped, PTL DEF StoreSpec, LogIsAppendOnly
=============================================================================
