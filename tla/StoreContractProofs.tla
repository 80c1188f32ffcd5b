------------------------- MODULE StoreContractProofs --------------------------
(***************************************************************************)
(* What RuntimeStore promises the clients of the runtime, for every number *)
(* of runs, sessions, keys and workers and every bound: ends stay readable *)
(* within the retention, transcripts hold only whole turns of completed    *)
(* runs, and every transaction is a step of RunContract.                   *)
(***************************************************************************)
EXTENDS RuntimeStoreRefinement, RuntimeStoreProofs

-----------------------------------------------------------------------------
(* The end of a run within the retention. *)

\* The event that announces an end was created at most one lag before the row's
\* completed_at, so it leaves the retention at most one lag too early.
EndIsStamped(r) ==
    \E e \in events[r] :
        e.type = AnnouncedBy(status[r]) /\ completedAt[r] <= e.createdAt + Lag

StampedEnds ==
    \A r \in Runs :
        Terminal(r) /\ completedAt[r] + Retention >= now + Lag => EndIsStamped(r)

\* Two clocks read for one transaction are at most one lag apart.
LEMMA TimestampsAreClose ==
    ASSUME StoreTypeOK, NEW done \in Timestamps, NEW at \in Timestamps
    PROVE  done <= at + Lag
  BY BoundsAreNaturals DEF Timestamps, StoreTypeOK

\* The transition that ends a run stamps its row and its event closely.
LEMMA FinishStamps ==
    ASSUME StoreTypeOK, NEW x \in Runs, NEW target \in TERMINAL_RUN_STATUSES,
           Finish(x, target), NEW r \in Runs, ~ Terminal(r), Terminal(r)'
    PROVE  EndIsStamped(r)'
<1>1. r = x
  BY DEF Finish, StoreTypeOK, Terminal
<1>2. status'[r] = target /\ completedAt'[r] \in Timestamps
  BY <1>1 DEF Finish, StoreTypeOK
<1>3. PICK at \in Timestamps : AppendedEvent(r, AnnouncedBy(target), at) \in events'[r]
  BY <1>1 DEF Finish, Publish, StoreTypeOK
<1>4. /\ AppendedEvent(r, AnnouncedBy(target), at).type = AnnouncedBy(target)
      /\ AppendedEvent(r, AnnouncedBy(target), at).createdAt = at
  BY DEF AppendedEvent
<1>5. QED
  BY <1>2, <1>3, <1>4, TimestampsAreClose DEF EndIsStamped

\* No other step brings a run to an end.
LEMMA EndsAreStamped ==
    ASSUME StoreTypeOK, [StoreNext]_storeVars, NEW r \in Runs, ~ Terminal(r), Terminal(r)'
    PROVE  EndIsStamped(r)'
<1>1. status' # status
  BY DEF Terminal
<1>2. CASE SessionStep
  BY <1>1, <1>2 DEF SessionStep, CreateSession, AppendMessage, ClearSession, runVars
<1>3. CASE ReservationStep
  <2>1. ASSUME NEW s, NEW x \in Runs, NEW param, NEW k, NEW h, NEW w,
               ReserveRun(x, param, s, k, h, w)
        PROVE  FALSE
    <3>1. status'[r] = status[r] \/ status'[r] = PENDING
      BY <2>1 DEF ReserveRun, StoreTypeOK
    <3>2. QED
      BY <3>1 DEF Terminal, TERMINAL_RUN_STATUSES, PENDING, COMPLETED, FAILED, CANCELLED,
                  INTERRUPTED
  <2>2. QED
    BY <1>1, <1>3, <2>1 DEF ReservationStep, ReplayLeavingSession, CreateSession, runVars
<1>4. ASSUME NEW x \in Runs, NEW w, MarkRunRunning(x, w)
      PROVE  FALSE
  <2>1. status'[r] = status[r] \/ status'[r] = RUNNING
    BY <1>4 DEF MarkRunRunning, StoreTypeOK
  <2>2. QED
    BY <2>1 DEF Terminal, TERMINAL_RUN_STATUSES, RUNNING, COMPLETED, FAILED, CANCELLED,
                INTERRUPTED
<1>5. ASSUME NEW x \in Runs, NEW w, CommitRunSuccess(x) \/ FailRun(x) \/ CancelRun(x, w)
      PROVE  EndIsStamped(r)'
  BY <1>5, FinishStamps DEF CommitRunSuccess, FailRun, CancelRun, TERMINAL_RUN_STATUSES
<1>6. CASE RunStep
  BY <1>1, <1>4, <1>5, <1>6 DEF RunStep, IncrementRunAttempt, AppendStreamEvent, runVars
<1>7. ASSUME NEW w, NEW sameWorker, NEW locked, InterruptMatching(w, sameWorker, locked)
      PROVE  EndIsStamped(r)'
  <2>1. /\ status'[r] = INTERRUPTED
        /\ r \in Matching(w, sameWorker) \ locked
    BY <1>7 DEF InterruptMatching, Terminal
  <2>2. completedAt'[r] \in Timestamps
    BY <1>7, <2>1 DEF InterruptMatching
  <2>3. PICK at \in Timestamps : AppendedEvent(r, RUN_INTERRUPTED, at) \in events'[r]
    BY <1>7, <2>1 DEF InterruptMatching
  <2>4. /\ AppendedEvent(r, RUN_INTERRUPTED, at).type = AnnouncedBy(INTERRUPTED)
        /\ AppendedEvent(r, RUN_INTERRUPTED, at).createdAt = at
    BY DEF AppendedEvent, AnnouncedBy, COMPLETED, FAILED, CANCELLED, INTERRUPTED
  <2>5. QED
    BY <2>1, <2>2, <2>3, <2>4, TimestampsAreClose DEF EndIsStamped
<1>8. CASE MaintenanceStep
  BY <1>1, <1>7, <1>8
  DEF MaintenanceStep, InterruptWorkerRuns, ReconcileOrphanedRuns, PruneStreamEvents, Tick,
      runVars
<1>9. CASE UNCHANGED storeVars
  BY <1>1, <1>9 DEF storeVars, runVars
<1>10. QED
  BY <1>2, <1>3, <1>6, <1>8, <1>9 DEF StoreNext

\* The clock the retention is measured by never goes back.
LEMMA TimePasses ==
    ASSUME StoreTypeOK, [StoreNext]_storeVars
    PROVE  now' \in Nat /\ now <= now'
<1>1. now \in Nat
  BY BoundsAreNaturals DEF StoreTypeOK
<1>2. now' = now \/ Tick
  <2>1. CASE SessionStep \/ ReservationStep
    <3>1. CASE SessionStep
      BY <3>1 DEF SessionStep, CreateSession, AppendMessage, ClearSession
    <3>2. CASE ReservationStep
      BY <3>2 DEF ReservationStep, ReserveRun, ReplayLeavingSession, CreateSession
    <3>3. QED
      BY <2>1, <3>1, <3>2
  <2>2. CASE RunStep
    BY <2>2
    DEF RunStep, MarkRunRunning, CancelRun, IncrementRunAttempt, AppendStreamEvent,
        CommitRunSuccess, FailRun, Finish
  <2>3. CASE MaintenanceStep
    BY <2>3
    DEF MaintenanceStep, InterruptWorkerRuns, ReconcileOrphanedRuns, InterruptMatching,
        PruneStreamEvents
  <2>4. CASE UNCHANGED storeVars
    BY <2>4 DEF storeVars
  <2>5. QED
    BY <2>1, <2>2, <2>3, <2>4 DEF StoreNext
<1>3. QED
  BY <1>1, <1>2 DEF Tick

\* StampedEnds is inductive once the rows are well typed.
LEMMA StampedEndsStep ==
    StoreTypeOK /\ StampedEnds /\ [StoreNext]_storeVars => StampedEnds'
<1> SUFFICES ASSUME StoreTypeOK, StampedEnds, [StoreNext]_storeVars, NEW r \in Runs,
                    Terminal(r)', (completedAt[r] + Retention >= now + Lag)'
             PROVE  EndIsStamped(r)'
  BY DEF StampedEnds
<1>1. CASE Terminal(r)
  <2>1. status'[r] = status[r] /\ completedAt'[r] = completedAt[r]
    BY <1>1, FrozenStep
  <2>2. completedAt[r] + Retention >= now + Lag
    BY <2>1, TimePasses, BoundsAreNaturals DEF StoreTypeOK
  <2>3. PICK e \in events[r] : /\ e.type = AnnouncedBy(status[r])
                               /\ completedAt[r] <= e.createdAt + Lag
    BY <1>1, <2>2 DEF StampedEnds, EndIsStamped
  <2>4. ~ Expired(e, now)
    <3>1. e.createdAt \in Nat /\ completedAt[r] \in Nat /\ now \in Nat
      BY BoundsAreNaturals DEF StoreTypeOK, StreamEvent
    <3>2. QED
      BY <2>2, <2>3, <3>1, BoundsAreNaturals DEF Expired
  <2>5. e \in events'[r]
    BY <2>4, AppendStep DEF AppendsOnly
  <2>6. QED
    BY <2>1, <2>3, <2>5 DEF EndIsStamped
<1>2. CASE ~ Terminal(r)
  BY <1>2, EndsAreStamped
<1>3. QED
  BY <1>1, <1>2

\* For the retention less the lag, counted from completed_at, a terminal run still
\* has the event that says so, whichever workers start and prune and whichever
\* clocks stamped the row, the event and the cut-off.
THEOREM EndsAreReadable == StoreSpec => []EndStaysReadable
<1>1. StoreInit => StampedEnds
  BY DEF StoreInit, StampedEnds, Terminal, TERMINAL_RUN_STATUSES, ABSENT, COMPLETED,
         FAILED, CANCELLED, INTERRUPTED
<1>2. StampedEnds => EndStaysReadable
  BY DEF StampedEnds, EndIsStamped, EndStaysReadable
<1>3. QED
  BY <1>1, <1>2, StampedEndsStep, StoreIsWellTyped, PTL DEF StoreSpec

-----------------------------------------------------------------------------
(* The turns of a transcript. *)

\* The two halves of OnlyCompletedTurns: the shape of one transcript t, which
\* no row of agent_runs has a part in, and the rows its messages point to.
TurnIsWhole(t, i) ==
    /\ t[i].role = "user" =>
          /\ i + 1 \in DOMAIN t
          /\ t[i + 1] = [role |-> "assistant", run |-> t[i].run]
    /\ t[i].role = "assistant" =>
          /\ i - 1 \in DOMAIN t
          /\ t[i - 1] = [role |-> "user", run |-> t[i].run]
    /\ \A j \in DOMAIN t : t[j] = t[i] => i = j

TurnsAreWhole(t) == \A i \in DOMAIN t : t[i].run # NoRun => TurnIsWhole(t, i)

TurnsCompleted(s) ==
    \A i \in DOMAIN transcript[s] : transcript[s][i].run # NoRun =>
        /\ status[transcript[s][i].run] = COMPLETED
        /\ request[transcript[s][i].run].session = s

\* OnlyCompletedTurns is both halves of every transcript.
LEMMA TwoHalves ==
    OnlyCompletedTurns <=>
        \A s \in Sessions : TurnsAreWhole(transcript[s]) /\ TurnsCompleted(s)
BY ZenonT(60) DEF OnlyCompletedTurns, TurnsAreWhole, TurnIsWhole, TurnsCompleted

\* The columns of a message row.
LEMMA MessageColumns ==
    ASSUME NEW t \in Seq(Message), NEW i \in DOMAIN t
    PROVE  /\ t[i].role \in Role /\ t[i].run \in Runs \cup {NoRun}
           /\ t[i] = [role |-> t[i].role, run |-> t[i].run]
           /\ i \in 1 .. Len(t) /\ Len(t) \in Nat
<1>1. i \in 1 .. Len(t) /\ Len(t) \in Nat
  OBVIOUS
<1>2. t[i] \in Message
  OBVIOUS
<1>3. QED
  BY <1>1, <1>2 DEF Message

\* append_message adds one message of no run: no turn is torn.
LEMMA AppendKeepsTurns ==
    ASSUME NEW t \in Seq(Message), NEW role \in Role, TurnsAreWhole(t)
    PROVE  TurnsAreWhole(Append(t, [role |-> role, run |-> NoRun]))
<1> DEFINE m == [role |-> role, run |-> NoRun]
           n == Append(t, m)
<1>1. /\ Len(t) \in Nat /\ DOMAIN t = 1 .. Len(t)
      /\ DOMAIN n = 1 .. (Len(t) + 1)
      /\ \A i \in 1 .. Len(t) : n[i] = t[i]
      /\ n[Len(t) + 1] = m
  OBVIOUS
<1>2. m.run = NoRun
  OBVIOUS
<1> HIDE DEF m, n
<1> SUFFICES ASSUME NEW i \in DOMAIN n, n[i].run # NoRun
             PROVE  TurnIsWhole(n, i)
  BY DEF TurnsAreWhole, m, n
<1>3. i \in 1 .. Len(t)
  BY <1>1, <1>2
<1>4. TurnIsWhole(t, i) /\ n[i] = t[i]
  BY <1>1, <1>3 DEF TurnsAreWhole
<1>5. \A j \in DOMAIN n : n[j] = n[i] => i = j
  BY <1>1, <1>2, <1>3, <1>4 DEF TurnIsWhole
<1>6. QED
  BY <1>1, <1>3, <1>4, <1>5 DEF TurnIsWhole

\* The commit adds both messages of a run the transcript does not know yet.
LEMMA CommitKeepsTurns ==
    ASSUME NEW t \in Seq(Message), NEW r \in Runs, TurnsAreWhole(t),
           \A i \in DOMAIN t : t[i].run # r
    PROVE  TurnsAreWhole(t \o <<[role |-> "user", run |-> r], [role |-> "assistant", run |-> r]>>)
<1> DEFINE u == [role |-> "user", run |-> r]
           a == [role |-> "assistant", run |-> r]
           n == t \o <<u, a>>
<1>1. /\ Len(t) \in Nat /\ DOMAIN t = 1 .. Len(t)
      /\ DOMAIN n = 1 .. (Len(t) + 2)
      /\ \A i \in 1 .. Len(t) : n[i] = t[i]
      /\ n[Len(t) + 1] = u
      /\ n[Len(t) + 2] = a
  <2>1. <<u, a>> \in Seq(Message) /\ Len(<<u, a>>) = 2
    BY DEF Message, Role
  <2>2. QED
    BY <2>1
<1>2. u.run = r /\ a.run = r /\ u.role = "user" /\ a.role = "assistant" /\ u # a
  OBVIOUS
<1>3. \A i \in DOMAIN n : i \in 1 .. Len(t) \/ i = Len(t) + 1 \/ i = Len(t) + 2
  BY <1>1
<1>4. u = [role |-> "user", run |-> a.run] /\ a = [role |-> "assistant", run |-> u.run]
  OBVIOUS
<1> HIDE DEF u, a, n
<1> SUFFICES ASSUME NEW i \in DOMAIN n, n[i].run # NoRun
             PROVE  TurnIsWhole(n, i)
  BY DEF TurnsAreWhole, u, a, n
<1>5. CASE i \in 1 .. Len(t)
  <2>1. TurnIsWhole(t, i) /\ n[i] = t[i]
    BY <1>1, <1>5 DEF TurnsAreWhole
  <2>2. \A j \in DOMAIN n : n[j] = n[i] => i = j
    BY <1>1, <1>2, <1>3, <1>5, <2>1 DEF TurnIsWhole
  <2>3. QED
    BY <1>1, <1>5, <2>1, <2>2 DEF TurnIsWhole
<1>6. CASE i = Len(t) + 1
  <2>1. \A j \in DOMAIN n : n[j] = n[i] => i = j
    BY <1>1, <1>2, <1>3, <1>6
  <2>2. QED
    BY <1>1, <1>2, <1>4, <1>6, <2>1 DEF TurnIsWhole
<1>7. CASE i = Len(t) + 2
  <2>1. \A j \in DOMAIN n : n[j] = n[i] => i = j
    BY <1>1, <1>2, <1>3, <1>7
  <2>2. QED
    BY <1>1, <1>2, <1>4, <1>7, <2>1 DEF TurnIsWhole
<1>8. QED
  BY <1>3, <1>5, <1>6, <1>7

\* A completed run keeps its status and its session for ever.
LEMMA CompletedRunsStay ==
    ASSUME StoreTypeOK, [StoreNext]_storeVars, NEW r \in Runs, status[r] = COMPLETED
    PROVE  status'[r] = COMPLETED /\ request'[r] = request[r]
<1>1. Terminal(r)
  BY DEF Terminal, TERMINAL_RUN_STATUSES
<1>2. status'[r] = COMPLETED
  BY <1>1, FrozenStep
<1>3. CASE RowsMoveOn
  BY <1>3, <1>2 DEF RowsMoveOn
<1>4. CASE Reservation
  <2>1. PICK s \in Sessions, x \in Runs :
           \E k, h, param, w : ReserveRun(x, param, s, k, h, w)
    BY <1>4 DEF Reservation
  <2>2. status[x] = ABSENT
    BY <2>1 DEF ReserveRun
  <2>3. x # r
    BY <2>2 DEF ABSENT, COMPLETED
  <2>4. QED
    BY <1>2, <2>1, <2>3 DEF ReserveRun, StoreTypeOK
<1>5. QED
  BY <1>3, <1>4, RowStep

\* The rows a transcript points to stay as they are, so only new messages count.
LEMMA CompletedTurnsStay ==
    ASSUME StoreTypeOK, [StoreNext]_storeVars, NEW s \in Sessions, TurnsCompleted(s),
           NEW i \in DOMAIN transcript[s], transcript[s][i].run # NoRun
    PROVE  /\ status'[transcript[s][i].run] = COMPLETED
           /\ request'[transcript[s][i].run].session = s
<1>1. transcript[s] \in Seq(Message)
  BY DEF StoreTypeOK
<1>2. transcript[s][i].run \in Runs
  BY <1>1, MessageColumns
<1>3. QED
  BY <1>2, CompletedRunsStay DEF TurnsCompleted

\* The transactions that change a session's transcript.
LEMMA TranscriptWriters ==
    ASSUME StoreTypeOK, [StoreNext]_storeVars, NEW s \in Sessions
    PROVE  \/ transcript'[s] = transcript[s]
           \/ \E role \in Role : AppendMessage(s, role)
           \/ ClearSession(s)
           \/ \E r \in Runs : CommitRunSuccess(r) /\ request[r].session = s
<1>1. CASE SessionStep
  BY <1>1 DEF SessionStep, CreateSession, AppendMessage, ClearSession, StoreTypeOK
<1>2. CASE ReservationStep
  BY <1>2 DEF ReservationStep, ReserveRun, ReplayLeavingSession, CreateSession
<1>3. ASSUME NEW r \in Runs, CommitRunSuccess(r), request[r].session # s
      PROVE  transcript'[s] = transcript[s]
  BY <1>3 DEF CommitRunSuccess, StoreTypeOK
<1>4. CASE RunStep
  BY <1>3, <1>4 DEF RunStep, MarkRunRunning, CancelRun, IncrementRunAttempt,
     AppendStreamEvent, FailRun, sessionVars
<1>5. CASE MaintenanceStep
  BY <1>5 DEF MaintenanceStep, InterruptWorkerRuns, ReconcileOrphanedRuns,
     InterruptMatching, PruneStreamEvents, Tick, sessionVars
<1>6. CASE UNCHANGED storeVars
  BY <1>6 DEF storeVars, sessionVars
<1>7. QED
  BY <1>1, <1>2, <1>4, <1>5, <1>6 DEF StoreNext

\* OnlyCompletedTurns is inductive once the rows are well typed.
LEMMA TurnsStep ==
    StoreTypeOK /\ OnlyCompletedTurns /\ [StoreNext]_storeVars => OnlyCompletedTurns'
<1> SUFFICES ASSUME StoreTypeOK, OnlyCompletedTurns, [StoreNext]_storeVars, NEW s \in Sessions
             PROVE  TurnsAreWhole(transcript'[s]) /\ TurnsCompleted(s)'
  <2>1. OnlyCompletedTurns' <=>
            \A s \in Sessions : TurnsAreWhole(transcript'[s]) /\ TurnsCompleted(s)'
    BY ZenonT(60) DEF OnlyCompletedTurns, TurnsAreWhole, TurnIsWhole, TurnsCompleted
  <2>2. QED
    BY <2>1
<1>1. TurnsAreWhole(transcript[s]) /\ TurnsCompleted(s)
  BY TwoHalves
<1>2. transcript[s] \in Seq(Message)
  BY DEF StoreTypeOK
<1>3. CASE transcript'[s] = transcript[s]
  BY <1>1, <1>3, CompletedTurnsStay DEF TurnsCompleted
<1>4. ASSUME NEW role \in Role, AppendMessage(s, role)
      PROVE  TurnsAreWhole(transcript'[s]) /\ TurnsCompleted(s)'
  <2>1. transcript'[s] = Append(transcript[s], [role |-> role, run |-> NoRun])
    BY <1>4 DEF AppendMessage, StoreTypeOK
  <2>2. TurnsAreWhole(transcript'[s])
    BY <1>1, <1>2, <2>1, AppendKeepsTurns
  <2>3. \A i \in DOMAIN transcript'[s] :
           \/ i \in DOMAIN transcript[s] /\ transcript'[s][i] = transcript[s][i]
           \/ transcript'[s][i].run = NoRun
    BY <1>2, <2>1
  <2>4. QED
    BY <1>1, <2>2, <2>3, CompletedTurnsStay DEF TurnsCompleted
<1>5. ASSUME ClearSession(s)
      PROVE  TurnsAreWhole(transcript'[s]) /\ TurnsCompleted(s)'
  <2>1. transcript'[s] = <<>>
    BY <1>5 DEF ClearSession, StoreTypeOK
  <2>2. QED
    BY <2>1 DEF TurnsAreWhole, TurnsCompleted
<1>6. ASSUME NEW r \in Runs, CommitRunSuccess(r), request[r].session = s
      PROVE  TurnsAreWhole(transcript'[s]) /\ TurnsCompleted(s)'
  <2>1. transcript'[s] = transcript[s] \o
            <<[role |-> "user", run |-> r], [role |-> "assistant", run |-> r]>>
    BY <1>6 DEF CommitRunSuccess, StoreTypeOK
  <2>2. Active(r)
    BY <1>6, TransitionsLeaveActive DEF CommitRunSuccess, Finish, Active
  <2>3. status[r] # COMPLETED
    BY <2>2 DEF Active, ACTIVE_RUN_STATUSES, PENDING, RUNNING, COMPLETED
  <2>4. status'[r] = COMPLETED /\ request'[r].session = s
    BY <1>6 DEF CommitRunSuccess, Finish, StoreTypeOK
  <2>5. r # NoRun
    BY NullsAreNotValues
  <2>6. \A i \in DOMAIN transcript[s] : transcript[s][i].run # r
    BY <1>1, <2>3, <2>5 DEF TurnsCompleted
  <2>7. TurnsAreWhole(transcript'[s])
    BY <1>1, <1>2, <2>1, <2>6, CommitKeepsTurns
  <2>8. \A i \in DOMAIN transcript'[s] :
           \/ i \in DOMAIN transcript[s] /\ transcript'[s][i] = transcript[s][i]
           \/ transcript'[s][i].run = r
    BY <1>2, <2>1
  <2>9. QED
    BY <1>1, <2>4, <2>7, <2>8, CompletedTurnsStay DEF TurnsCompleted
<1>7. QED
  BY <1>3, <1>4, <1>5, <1>6, TranscriptWriters

\* A transcript holds a run's turn whole, once, in its own session, and only if
\* that run completed: the commit writes both messages and the status in one
\* transaction, and neither is ever taken back but by clearing the session.
THEOREM TurnsAreCompleted == StoreSpec => []OnlyCompletedTurns
<1>1. StoreInit => OnlyCompletedTurns
  BY DEF StoreInit, OnlyCompletedTurns
<1>2. QED
  BY <1>1, TurnsStep, StoreIsWellTyped, PTL DEF StoreSpec
-----------------------------------------------------------------------------
(* Every transaction is a step of the contract. *)

\* The contract does not see a step that keeps phases, sessions, keys and turns.
SamePhases == \A r \in Runs : PhaseOf(r)' = PhaseOf(r)
SameKeys   == \A k \in Keys : KeyHolders(k)' = KeyHolders(k)
SameTurns  == \A s \in Sessions : TurnsOf(s)' = TurnsOf(s)

\* A step that keeps all four is a stuttering step of the contract.
LEMMA ContractStutters ==
    ASSUME SamePhases, SameKeys, SameTurns, request' = request
    PROVE  UNCHANGED Contract!contractVars
BY DEF SamePhases, SameKeys, SameTurns, Contract!contractVars

\* Moving existing rows on binds no key and frees none.
LEMMA RowsKeepKeys ==
    ASSUME StoreTypeOK, RowsMoveOn
    PROVE  SameKeys
<1>1. \A r \in Runs : status'[r] # ABSENT <=> status[r] # ABSENT
  BY TransitionsLeaveActive DEF RowsMoveOn
<1>2. QED
  BY <1>1 DEF RowsMoveOn, SameKeys, KeyHolders

\* The phase is "active" exactly while the row is.
LEMMA PhaseIsActive ==
    ASSUME NEW r \in Runs, StoreTypeOK
    PROVE  PhaseOf(r) = "active" <=> Active(r)
BY DEF StoreTypeOK, PhaseOf, Active, RunStatus, ACTIVE_RUN_STATUSES, TERMINAL_RUN_STATUSES,
       PENDING, RUNNING, COMPLETED, FAILED, CANCELLED, INTERRUPTED, ABSENT

\* The contract and the store share the vocabulary of the run lifecycle.
LEMMA SameVocabulary ==
    /\ Contract!ABSENT = ABSENT
    /\ Contract!COMPLETED = COMPLETED
    /\ Contract!TERMINAL_RUN_STATUSES = TERMINAL_RUN_STATUSES
BY DEF Contract!ABSENT, Contract!COMPLETED, Contract!TERMINAL_RUN_STATUSES, Contract!FAILED,
       Contract!CANCELLED, Contract!INTERRUPTED, ABSENT, TERMINAL_RUN_STATUSES, COMPLETED,
       FAILED, CANCELLED, INTERRUPTED

\* The runs whose messages a transcript holds.
RunsIn(t) == {m.run : m \in {t[i] : i \in DOMAIN t}}

GrowsBy(t, n, x) ==
    /\ Len(t) < Len(n)
    /\ \A i \in DOMAIN n : IF i <= Len(t) THEN n[i] = t[i] ELSE n[i].run = x

\* A transcript that grows by messages of one run x holds x and what it held.
LEMMA RunsInLonger ==
    ASSUME NEW t \in Seq(Message), NEW n \in Seq(Message), NEW x, GrowsBy(t, n, x)
    PROVE  RunsIn(n) = RunsIn(t) \cup {x}
<1>1. /\ Len(t) \in Nat /\ DOMAIN t = 1 .. Len(t)
      /\ Len(n) \in Nat /\ DOMAIN n = 1 .. Len(n)
  OBVIOUS
<1>2. \A i \in DOMAIN n : i \in DOMAIN t \/ ~ (i <= Len(t))
  BY <1>1
<1>3. Len(t) + 1 \in DOMAIN n /\ n[Len(t) + 1].run = x /\ DOMAIN t \subseteq DOMAIN n
  BY <1>1 DEF GrowsBy
<1>4. ASSUME NEW y \in RunsIn(n)
      PROVE  y \in RunsIn(t) \cup {x}
  <2>1. PICK i \in DOMAIN n : y = n[i].run
    BY DEF RunsIn
  <2>2. QED
    BY <1>1, <1>2, <2>1 DEF RunsIn, GrowsBy
<1>5. ASSUME NEW y \in RunsIn(t)
      PROVE  y \in RunsIn(n)
  <2>1. PICK i \in DOMAIN t : y = t[i].run
    BY DEF RunsIn
  <2>2. QED
    BY <1>1, <1>3, <2>1 DEF RunsIn, GrowsBy
<1>6. x \in RunsIn(n)
  BY <1>3 DEF RunsIn
<1>7. QED
  BY <1>4, <1>5, <1>6

\* The runs of a transcript with one more message.
LEMMA RunsInAppend ==
    ASSUME NEW t \in Seq(Message), NEW m \in Message
    PROVE  RunsIn(Append(t, m)) = RunsIn(t) \cup {m.run}
<1> DEFINE n == Append(t, m)
<1>1. n \in Seq(Message) /\ Len(t) < Len(n)
  OBVIOUS
<1>2. GrowsBy(t, n, m.run)
  BY DEF GrowsBy
<1> HIDE DEF n
<1>3. RunsIn(n) = RunsIn(t) \cup {m.run}
  BY <1>1, <1>2, RunsInLonger
<1>4. QED
  BY <1>3 DEF n

\* The runs of a transcript with one more turn.
LEMMA RunsInCommit ==
    ASSUME NEW t \in Seq(Message), NEW r \in Runs
    PROVE  RunsIn(t \o <<[role |-> "user", run |-> r], [role |-> "assistant", run |-> r]>>)
             = RunsIn(t) \cup {r}
<1> DEFINE u == [role |-> "user", run |-> r]
           a == [role |-> "assistant", run |-> r]
           n == t \o <<u, a>>
<1>1. <<u, a>> \in Seq(Message) /\ Len(<<u, a>>) = 2
  BY DEF Message, Role
<1>2. /\ Len(t) \in Nat
      /\ DOMAIN n = 1 .. (Len(t) + 2)
      /\ \A i \in 1 .. Len(t) : n[i] = t[i]
      /\ n[Len(t) + 1] = u
      /\ n[Len(t) + 2] = a
      /\ n \in Seq(Message)
      /\ Len(n) = Len(t) + 2
  BY <1>1
<1>3. u.run = r /\ a.run = r
  OBVIOUS
<1>4. \A i \in DOMAIN n : i \in 1 .. Len(t) \/ i = Len(t) + 1 \/ i = Len(t) + 2
  BY <1>2
<1> HIDE DEF n, u, a
<1>5. GrowsBy(t, n, r)
  BY <1>2, <1>3, <1>4 DEF GrowsBy
<1>6. RunsIn(n) = RunsIn(t) \cup {r}
  BY <1>2, <1>5, RunsInLonger
<1>7. QED
  BY <1>6 DEF n, u, a

\* A transaction that touches no run row and no transcript is invisible.
LEMMA RowsUntouched ==
    ASSUME StoreTypeOK, UNCHANGED <<status, request, transcript>>
    PROVE  UNCHANGED Contract!contractVars
<1>1. SamePhases
  BY DEF SamePhases, PhaseOf, Active
<1>2. SameKeys
  BY RowsKeepKeys DEF RowsMoveOn
<1>3. SameTurns
  BY DEF SameTurns, TurnsOf
<1>4. QED
  BY <1>1, <1>2, <1>3, ContractStutters

\* A reservation begins the run on the idle session it resolved.
LEMMA ReserveBegins ==
    ASSUME StoreTypeOK, NEW r \in Runs, NEW s \in Sessions, NEW k \in Keys \cup {NoKey},
           NEW param, NEW h, NEW w, ReserveRun(r, param, s, k, h, w)
    PROVE  Contract!Begin(r, s)
<1>1. /\ status' = [status EXCEPT ![r] = PENDING]
      /\ request' = [request EXCEPT ![r] = [session |-> s, key |-> k, hash |-> h]]
      /\ transcript' = transcript
      /\ status[r] = ABSENT
      /\ KeyHolders(k) = {}
  BY DEF ReserveRun
<1>2. status \in [Runs -> RunStatus \cup {ABSENT}] /\ request \in [Runs -> Request \cup {NoRequest}]
  BY DEF StoreTypeOK
<1>3. PhaseOf(r) = ABSENT
  BY <1>1 DEF PhaseOf, Active, ACTIVE_RUN_STATUSES, ABSENT, PENDING, RUNNING
<1>4. \A x \in Runs : request[x].session = s => PhaseOf(x) # "active"
  BY PhaseIsActive DEF ReserveRun, ActiveRuns
<1>5. \A x \in Runs : PhaseOf(x)' = IF x = r THEN "active" ELSE PhaseOf(x)
  BY <1>1, <1>2 DEF PhaseOf, Active, ACTIVE_RUN_STATUSES
<1>6. \A x \in Runs : request'[x].session = IF x = r THEN s ELSE request[x].session
  BY <1>1, <1>2
<1>7. \A x \in Sessions : TurnsOf(x)' = TurnsOf(x)
  BY <1>1 DEF TurnsOf
<1>8. \A x \in Keys : KeyHolders(x)' = IF x = k THEN {r} ELSE KeyHolders(x)
  <2> SUFFICES ASSUME NEW x \in Keys
               PROVE  KeyHolders(x)' = IF x = k THEN {r} ELSE KeyHolders(x)
    OBVIOUS
  <2>1. x # NoKey
    BY NullsAreNotValues
  <2>2. \A y \in Runs \ {r} : status'[y] = status[y] /\ request'[y] = request[y]
    BY <1>1, <1>2
  <2>3. status'[r] # ABSENT /\ request'[r].key = k
    BY <1>1, <1>2 DEF ABSENT, PENDING
  <2>4. QED
    BY <1>1, <2>1, <2>2, <2>3 DEF KeyHolders
<1>9. \/ \A x \in Keys : KeyHolders(x)' = KeyHolders(x)
      \/ k \in Keys /\ KeyHolders(k) = {}
  BY <1>1, <1>8, NullsAreNotValues
<1>10. Contract!Idle(s)
  BY <1>4 DEF Contract!Idle
<1>11. \/ UNCHANGED [x \in Keys |-> KeyHolders(x)]
       \/ \E y \in Keys :
             /\ [x \in Keys |-> KeyHolders(x)][y] = {}
             /\ [x \in Keys |-> KeyHolders(x)]' = [[x \in Keys |-> KeyHolders(x)] EXCEPT ![y] = {r}]
  <2>1. CASE \A x \in Keys : KeyHolders(x)' = KeyHolders(x)
    BY <2>1
  <2>2. CASE k \in Keys /\ KeyHolders(k) = {}
    BY <1>8, <2>2
  <2>3. QED
    BY <1>9, <2>1, <2>2
<1>12. QED
  BY <1>3, <1>5, <1>6, <1>7, <1>10, <1>11, SameVocabulary DEF Contract!Begin

\* What ends runs without completing them abandons them.
LEMMA EndingsAbandon ==
    ASSUME StoreTypeOK, NEW outcome \in TERMINAL_RUN_STATUSES \ {COMPLETED},
           NEW runs \in SUBSET Runs, \A r \in runs : Active(r),
           status' = [r \in Runs |-> IF r \in runs THEN outcome ELSE status[r]],
           UNCHANGED <<request, transcript>>, SameKeys
    PROVE  Contract!Abandon(runs, outcome)
<1>1. \A r \in Runs : PhaseOf(r)' = IF r \in runs THEN outcome ELSE PhaseOf(r)
  BY DEF PhaseOf, Active, ACTIVE_RUN_STATUSES, TERMINAL_RUN_STATUSES,
         PENDING, RUNNING, COMPLETED, FAILED, CANCELLED, INTERRUPTED
<1>2. \A r \in runs : PhaseOf(r) = "active"
  BY PhaseIsActive
<1>3. \A s \in Sessions : TurnsOf(s)' = TurnsOf(s)
  BY DEF TurnsOf
<1>4. QED
  BY <1>1, <1>2, <1>3 DEF Contract!Abandon, SameKeys

\* fail_run and cancel_run abandon one run.
LEMMA FinishAbandons ==
    ASSUME StoreTypeOK, NEW r \in Runs, NEW outcome \in TERMINAL_RUN_STATUSES \ {COMPLETED},
           Active(r), Finish(r, outcome), UNCHANGED sessionVars
    PROVE  Contract!Abandon({r}, outcome)
<1>1. status' = [x \in Runs |-> IF x \in {r} THEN outcome ELSE status[x]]
  BY DEF Finish, StoreTypeOK
<1>2. SameKeys
  BY FinishMovesOn, RowsKeepKeys
<1>3. QED
  BY <1>1, <1>2, EndingsAbandon DEF Finish, sessionVars

\* A shutdown or start-up abandons every run it finds and can lock.
LEMMA InterruptAbandons ==
    ASSUME StoreTypeOK, NEW w, NEW sameWorker, NEW locked,
           InterruptMatching(w, sameWorker, locked)
    PROVE  \E runs \in SUBSET Runs : Contract!Abandon(runs, INTERRUPTED)
<1> DEFINE runs == Matching(w, sameWorker) \ locked
<1>1. runs \in SUBSET Runs /\ \A r \in runs : Active(r)
  BY DEF Matching
<1>2. /\ status' = [r \in Runs |-> IF r \in runs THEN INTERRUPTED ELSE status[r]]
      /\ UNCHANGED <<request, transcript>>
  BY DEF InterruptMatching, sessionVars
<1>3. SameKeys
  BY InterruptMovesOn, RowsKeepKeys
<1>4. INTERRUPTED \in TERMINAL_RUN_STATUSES \ {COMPLETED}
  BY DEF TERMINAL_RUN_STATUSES, COMPLETED, INTERRUPTED
<1> HIDE DEF runs
<1>5. Contract!Abandon(runs, INTERRUPTED)
  BY <1>1, <1>2, <1>3, <1>4, EndingsAbandon
<1>6. QED
  BY <1>1, <1>5

\* The commit completes the run and adds it to the turns of its session alone.
LEMMA CommitCompletes ==
    ASSUME StoreTypeOK, RunsHaveSessions, NEW r \in Runs, CommitRunSuccess(r)
    PROVE  Contract!Complete(r)
<1>0. PICK s : s = request[r].session
  OBVIOUS
<1>1. Active(r)
  BY TransitionsLeaveActive DEF CommitRunSuccess, Finish, Active
<1>2. s \in Sessions
  BY <1>0, <1>1 DEF RunsHaveSessions, Active, ACTIVE_RUN_STATUSES, ABSENT, PENDING, RUNNING
<1>3. SameKeys /\ request' = request
  BY FinishMovesOn, RowsKeepKeys DEF CommitRunSuccess, RowsMoveOn
<1>4. \A x \in Runs : PhaseOf(x)' = IF x = r THEN COMPLETED ELSE PhaseOf(x)
  BY DEF CommitRunSuccess, Finish, StoreTypeOK, PhaseOf, Active, ACTIVE_RUN_STATUSES,
         PENDING, RUNNING, COMPLETED
<1>5. \A x \in Sessions : TurnsOf(x)' = IF x = s THEN TurnsOf(x) \cup {r} ELSE TurnsOf(x)
  <2>1. /\ transcript'[s] = transcript[s] \o
              <<[role |-> "user", run |-> r], [role |-> "assistant", run |-> r]>>
        /\ \A x \in Sessions \ {s} : transcript'[x] = transcript[x]
    BY <1>0, <1>2 DEF CommitRunSuccess, StoreTypeOK
  <2>2. transcript[s] \in Seq(Message) /\ r # NoRun
    BY <1>2, NullsAreNotValues DEF StoreTypeOK
  <2>3. RunsIn(transcript'[s]) = RunsIn(transcript[s]) \cup {r}
    BY <2>1, <2>2, RunsInCommit
  <2>4. \A x \in Sessions : /\ TurnsOf(x) = RunsIn(transcript[x]) \ {NoRun}
                            /\ TurnsOf(x)' = RunsIn(transcript'[x]) \ {NoRun}
    BY DEF TurnsOf, RunsIn
  <2>5. \A x \in Sessions : TurnsOf(x)' =
            RunsIn(IF x = s THEN transcript'[s] ELSE transcript[x]) \ {NoRun}
    BY <2>1, <2>4
  <2>6. TurnsOf(s)' = TurnsOf(s) \cup {r}
    BY <1>2, <2>2, <2>3, <2>4
  <2>7. \A x \in Sessions \ {s} : TurnsOf(x)' = TurnsOf(x)
    BY <2>4, <2>5
  <2>8. QED
    BY <2>6, <2>7
<1>6. PhaseOf(r) = "active"
  BY <1>1, PhaseIsActive
<1>7. QED
  BY <1>0, <1>2, <1>3, <1>4, <1>5, <1>6, SameVocabulary DEF Contract!Complete, SameKeys

\* A message of the compatibility API belongs to no run.
LEMMA AppendIsInvisible ==
    ASSUME StoreTypeOK, NEW s \in Sessions, NEW role \in Role, AppendMessage(s, role)
    PROVE  UNCHANGED Contract!contractVars
<1>1. UNCHANGED <<status, request>>
  BY DEF AppendMessage, runVars
<1>2. SamePhases /\ SameKeys
  BY <1>1, RowsKeepKeys DEF SamePhases, PhaseOf, Active, RowsMoveOn
<1>3. SameTurns
  <2>1. /\ transcript'[s] = Append(transcript[s], [role |-> role, run |-> NoRun])
        /\ \A x \in Sessions \ {s} : transcript'[x] = transcript[x]
    BY DEF AppendMessage, StoreTypeOK
  <2>2. transcript[s] \in Seq(Message)
    BY DEF StoreTypeOK
  <2>3. [role |-> role, run |-> NoRun] \in Message
    BY DEF Message
  <2>4. RunsIn(transcript'[s]) = RunsIn(transcript[s]) \cup {NoRun}
    BY <2>1, <2>2, <2>3, RunsInAppend
  <2>5. QED
    BY <2>1, <2>4 DEF SameTurns, TurnsOf, RunsIn
<1>4. QED
  BY <1>1, <1>2, <1>3, ContractStutters

\* clear_session forgets the turns of an idle session.
LEMMA ClearForgets ==
    ASSUME StoreTypeOK, NEW s \in Sessions, ClearSession(s)
    PROVE  Contract!Forget(s)
<1>1. UNCHANGED <<status, request>>
  BY DEF ClearSession, runVars
<1>2. SamePhases /\ SameKeys
  BY <1>1, RowsKeepKeys DEF SamePhases, PhaseOf, Active, RowsMoveOn
<1>3. Contract!Idle(s)
  BY PhaseIsActive DEF ClearSession, MayRewrite, ActiveRuns, Contract!Idle
<1>4. \A x \in Sessions : TurnsOf(x)' = IF x = s THEN {} ELSE TurnsOf(x)
  <2>1. transcript'[s] = <<>> /\ \A x \in Sessions \ {s} : transcript'[x] = transcript[x]
    BY DEF ClearSession, StoreTypeOK
  <2>2. QED
    BY <2>1 DEF TurnsOf
<1>5. QED
  BY <1>1, <1>2, <1>3, <1>4 DEF Contract!Forget, SamePhases, SameKeys

\* Every transaction is one step of the contract or none.
LEMMA ContractStep ==
    StoreTypeOK /\ RunsHaveSessions /\ [StoreNext]_storeVars
        => [Contract!Next]_(Contract!contractVars)
<1> SUFFICES ASSUME StoreTypeOK, RunsHaveSessions, [StoreNext]_storeVars
             PROVE  Contract!Next \/ UNCHANGED Contract!contractVars
  OBVIOUS
<1> USE DEF Contract!Next
<1>1. CASE SessionStep
  BY <1>1, RowsUntouched, AppendIsInvisible, ClearForgets
  DEF SessionStep, CreateSession, runVars
<1>2. CASE ReservationStep
  BY <1>2, RowsUntouched, ReserveBegins
  DEF ReservationStep, ReplayLeavingSession, CreateSession, runVars
<1>3. ASSUME NEW r \in Runs, NEW w, MarkRunRunning(r, w)
      PROVE  UNCHANGED Contract!contractVars
  <2>1. RowsMoveOn
    BY <1>3 DEF MarkRunRunning, RowsMoveOn, StoreTypeOK
  <2>2. SamePhases
    BY <1>3 DEF MarkRunRunning, StoreTypeOK, SamePhases, PhaseOf, Active, ACTIVE_RUN_STATUSES,
       ValidRunTransition, ALLOWED_RUN_TRANSITIONS
  <2>3. SameTurns
    BY <1>3 DEF MarkRunRunning, sessionVars, SameTurns, TurnsOf
  <2>4. QED
    BY <2>1, <2>2, <2>3, RowsKeepKeys, ContractStutters DEF RowsMoveOn
<1>4. ASSUME NEW r \in Runs, NEW w, FailRun(r) \/ CancelRun(r, w)
      PROVE  Contract!Next
  <2>1. {FAILED, CANCELLED} \subseteq TERMINAL_RUN_STATUSES \ {COMPLETED}
    BY DEF TERMINAL_RUN_STATUSES, FAILED, CANCELLED, COMPLETED
  <2>2. Contract!Abandon({r}, FAILED) \/ Contract!Abandon({r}, CANCELLED)
    BY <1>4, <2>1, FinishAbandons DEF FailRun, CancelRun
  <2>3. QED
    BY <2>1, <2>2, SameVocabulary
<1>5. CASE RunStep
  BY <1>3, <1>4, <1>5, RowsUntouched, CommitCompletes
  DEF RunStep, IncrementRunAttempt, AppendStreamEvent, sessionVars, runVars
<1>6. CASE MaintenanceStep
  <2>1. INTERRUPTED \in TERMINAL_RUN_STATUSES \ {COMPLETED}
    BY DEF TERMINAL_RUN_STATUSES, INTERRUPTED, COMPLETED
  <2>2. QED
    BY <1>6, <2>1, RowsUntouched, InterruptAbandons, SameVocabulary
    DEF MaintenanceStep, InterruptWorkerRuns, ReconcileOrphanedRuns, PruneStreamEvents, Tick,
        sessionVars, runVars
<1>7. CASE UNCHANGED storeVars
  BY <1>7, RowsUntouched DEF storeVars, sessionVars, runVars
<1>8. QED
  BY <1>1, <1>2, <1>5, <1>6, <1>7 DEF StoreNext

\* The relational store implements the contract: for any number of workers and
\* runs its clients see runs that begin on idle sessions under unused keys,
\* end once, and join their session's turns exactly when they complete.
THEOREM StoreImplementsContract == StoreSpec => ImplementsContract
<1>1. StoreInit => Contract!Init
  <2> SUFFICES ASSUME StoreInit
               PROVE  Contract!Init
    OBVIOUS
  <2>1. \A r \in Runs : PhaseOf(r) = ABSENT /\ request[r].session = NoSession
    BY DEF StoreInit, NoRequest, PhaseOf, Active, ACTIVE_RUN_STATUSES, ABSENT, PENDING, RUNNING
  <2>2. \A k \in Keys : KeyHolders(k) = {}
    BY DEF StoreInit, KeyHolders
  <2>3. \A s \in Sessions : TurnsOf(s) = {}
    BY DEF StoreInit, TurnsOf
  <2>4. QED
    BY <2>1, <2>2, <2>3, SameVocabulary DEF Contract!Init
<1>2. QED
  BY <1>1, ContractStep, StoreIsWellTyped, RunsKeepSessions, PTL
  DEF StoreSpec, ImplementsContract, Contract!Spec
=============================================================================
