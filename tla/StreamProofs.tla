---------------------------- MODULE StreamProofs -----------------------------
(***************************************************************************)
(* What a client of the event stream has, for every number of readers,     *)
(* runs and reconnections and every bound: the end it was shown is the     *)
(* run's, and its cursor leaves no gap behind while the run's end is       *)
(* within the retention.                                                   *)
(***************************************************************************)
EXTENDS StreamDelivery, StoreContractProofs

-----------------------------------------------------------------------------
(* The order of a log. *)

\* The step of the store under a reader.
LEMMA ReadersOnlyRead ==
    ASSUME [Next]_streamVars
    PROVE  [StoreNext]_storeVars
BY DEF Next, Write, Connect, ReaderStep, Resume, List, Yield, Check, Drop, streamVars

\* So the store keeps its promises to the readers.
LEMMA StreamUsesStore == Spec => StoreSpec
<1>1. Init => StoreInit
  BY DEF Init
<1>2. QED
  BY <1>1, ReadersOnlyRead, PTL DEF Spec, StoreSpec

\* A transaction adds at most one event to a log, or none.
LEMMA LogGrowsByOne ==
    ASSUME StoreTypeOK, [StoreNext]_storeVars, NEW r \in Runs
    PROVE  \/ events'[r] \subseteq events[r]
           \/ \E type : \E stamp \in Timestamps :
                 events'[r] = events[r] \cup {AppendedEvent(r, type, stamp)} /\ now' = now
<1> DEFINE One == \/ events'[r] \subseteq events[r]
                  \/ \E type : \E stamp \in Timestamps :
                        events'[r] = events[r] \cup {AppendedEvent(r, type, stamp)} /\ now' = now
<1> SUFFICES One
  OBVIOUS
<1>1. ASSUME UNCHANGED events
      PROVE  One
  BY <1>1
<1>2. ASSUME NEW x \in Runs, NEW type, Publish(x, type), now' = now
      PROVE  One
  <2>1. PICK stamp \in Timestamps :
           events' = [events EXCEPT ![x] = @ \cup {AppendedEvent(x, type, stamp)}]
    BY <1>2 DEF Publish
  <2>2. CASE r = x
    BY <1>2, <2>1, <2>2 DEF StoreTypeOK
  <2>3. CASE r # x
    BY <2>1, <2>3 DEF StoreTypeOK
  <2>4. QED
    BY <2>2, <2>3
<1>3. ASSUME NEW w, NEW sameWorker, NEW locked, InterruptMatching(w, sameWorker, locked)
      PROVE  One
  <2>1. PICK stamp \in Timestamps :
           \/ events'[r] = events[r]
           \/ events'[r] = events[r] \cup {AppendedEvent(r, RUN_INTERRUPTED, stamp)}
    BY <1>3 DEF InterruptMatching
  <2>2. now' = now
    BY <1>3 DEF InterruptMatching
  <2>3. QED
    BY <2>1, <2>2
<1>4. ASSUME PruneStreamEvents
      PROVE  One
  BY <1>4, PruneTakesExpired
<1> HIDE DEF One
<1>5. CASE SessionStep \/ ReservationStep
  <2>1. CASE SessionStep
    BY <1>1, <2>1 DEF SessionStep, CreateSession, AppendMessage, ClearSession
  <2>2. CASE ReservationStep
    <3>1. UNCHANGED events
      BY <2>2 DEF ReservationStep, ReserveRun, ReplayLeavingSession, CreateSession
    <3>2. QED
      BY <1>1, <3>1
  <2>3. QED
    BY <1>5, <2>1, <2>2
<1>6. CASE RunStep
  BY <1>1, <1>2, <1>6
  DEF RunStep, MarkRunRunning, CancelRun, IncrementRunAttempt, AppendStreamEvent,
      CommitRunSuccess, FailRun, Finish
<1>7. CASE MaintenanceStep
  BY <1>1, <1>3, <1>4, <1>7
  DEF MaintenanceStep, InterruptWorkerRuns, ReconcileOrphanedRuns, Tick
<1>8. CASE UNCHANGED storeVars
  BY <1>1, <1>8 DEF storeVars
<1>9. QED
  BY <1>5, <1>6, <1>7, <1>8 DEF StoreNext

\* No two events of a log have the same number.
LogIsNumbered(r) == \A d, e \in events[r] : d.sequence = e.sequence => d = e

\* The end of a run and what was appended after it were created at most one lag
\* before completed_at: they outlive everything numbered before them.
EndIsYoung(r) ==
    /\ completedAt[r] <= now
    /\ Terminal(r) =>
          \A e, d \in events[r] :
              e.type \in TERMINAL_EVENT_TYPES /\ e.sequence <= d.sequence
              => completedAt[r] <= d.createdAt + Lag

LogsAreOrdered == \A r \in Runs : LogIsNumbered(r) /\ EndIsYoung(r)

\* An event is numbered past its log.
LEMMA LogIsNumberedStep ==
    ASSUME StoreTypeOK, LogsAreOrdered, [StoreNext]_storeVars, NEW r \in Runs
    PROVE  LogIsNumbered(r)'
<1>1. CASE events'[r] \subseteq events[r]
  BY <1>1 DEF LogsAreOrdered, LogIsNumbered
<1>2. ASSUME NEW type, NEW stamp,
             events'[r] = events[r] \cup {AppendedEvent(r, type, stamp)}
      PROVE  LogIsNumbered(r)'
  <2>1. PICK new : new = AppendedEvent(r, type, stamp)
    OBVIOUS
  <2>2. new.sequence \in Nat /\ \A e \in events[r] : e.sequence \in Nat /\ e.sequence < new.sequence
    <3>1. new.sequence = NextSequence(r)
      BY <2>1 DEF AppendedEvent
    <3>2. \A e \in events[r] : e.sequence \in Nat
      BY BoundsAreNaturals DEF StoreTypeOK, StreamEvent, MaxEvents
    <3>3. QED
      BY <3>1, <3>2, NextSequenceIsFresh
  <2>3. QED
    BY <1>2, <2>1, <2>2 DEF LogsAreOrdered, LogIsNumbered
<1>3. QED
  BY <1>1, <1>2, LogGrowsByOne

\* Only an end stamps a row.
LEMMA EndsComeInTime ==
    ASSUME StoreTypeOK, [StoreNext]_storeVars, NEW r \in Runs
    PROVE  completedAt'[r] = completedAt[r] \/ completedAt'[r] <= now
<1>1. ASSUME NEW x \in Runs, NEW target, Finish(x, target)
      PROVE  completedAt'[r] = completedAt[r] \/ completedAt'[r] <= now
  <2>1. PICK done \in Timestamps : completedAt' = [completedAt EXCEPT ![x] = done]
    BY <1>1 DEF Finish
  <2>2. done <= now
    BY BoundsAreNaturals DEF Timestamps, StoreTypeOK
  <2>3. QED
    BY <2>1, <2>2 DEF StoreTypeOK
<1>2. ASSUME NEW w, NEW sameWorker, NEW locked, InterruptMatching(w, sameWorker, locked)
      PROVE  completedAt'[r] = completedAt[r] \/ completedAt'[r] <= now
  <2>1. completedAt'[r] = completedAt[r] \/ completedAt'[r] \in Timestamps
    BY <1>2 DEF InterruptMatching
  <2>2. QED
    BY <2>1, BoundsAreNaturals DEF Timestamps, StoreTypeOK
<1>3. CASE SessionStep
  BY <1>3 DEF SessionStep, CreateSession, AppendMessage, ClearSession, runVars
<1>4. CASE ReservationStep
  BY <1>4 DEF ReservationStep, ReserveRun, ReplayLeavingSession, CreateSession, runVars
<1>5. CASE RunStep
  BY <1>1, <1>5
  DEF RunStep, MarkRunRunning, CancelRun, IncrementRunAttempt, AppendStreamEvent,
      CommitRunSuccess, FailRun, runVars
<1>6. CASE MaintenanceStep
  BY <1>2, <1>6
  DEF MaintenanceStep, InterruptWorkerRuns, ReconcileOrphanedRuns, PruneStreamEvents, Tick,
      runVars
<1>7. CASE UNCHANGED storeVars
  BY <1>7 DEF storeVars, runVars
<1>8. QED
  BY <1>3, <1>4, <1>5, <1>6, <1>7 DEF StoreNext

\* A log that has no end yet gets it as its newest event; one that has it only
\* gets events of the present.
LEMMA EndIsYoungStep ==
    ASSUME StoreTypeOK, LogAgreesWithStatus, LogsAreOrdered, [StoreNext]_storeVars,
           NEW r \in Runs
    PROVE  EndIsYoung(r)'
<1> DEFINE Young == \A e, d \in events'[r] :
                       e.type \in TERMINAL_EVENT_TYPES /\ e.sequence <= d.sequence
                       => completedAt'[r] <= d.createdAt + Lag
<1>1. /\ now \in Nat /\ now' \in Nat /\ now <= now' /\ Lag \in Nat
      /\ completedAt[r] \in Nat /\ completedAt'[r] \in Nat /\ completedAt[r] <= now
  <2>1. StoreTypeOK'
    BY TypeStep
  <2>2. QED
    BY <2>1, TimePasses, BoundsAreNaturals DEF StoreTypeOK, LogsAreOrdered, EndIsYoung
<1>2. completedAt'[r] <= now'
  BY <1>1, EndsComeInTime
<1>3. \A e \in events[r] : e.sequence \in Nat /\ e.createdAt \in Nat
  BY BoundsAreNaturals DEF StoreTypeOK, StreamEvent, MaxEvents
<1>4. CASE Terminal(r)
  <2>1. completedAt'[r] = completedAt[r]
    BY <1>4, FrozenStep
  <2>2. \A e, d \in events[r] : e.type \in TERMINAL_EVENT_TYPES /\ e.sequence <= d.sequence
           => completedAt[r] <= d.createdAt + Lag
    BY <1>4 DEF LogsAreOrdered, EndIsYoung
  <2>3. CASE events'[r] \subseteq events[r]
    <3>1. Young
      BY <2>1, <2>2, <2>3
    <3>2. QED
      BY <1>2, <3>1 DEF EndIsYoung
  <2>4. ASSUME NEW type, NEW stamp \in Timestamps,
               events'[r] = events[r] \cup {AppendedEvent(r, type, stamp)}
        PROVE  EndIsYoung(r)'
    <3>1. PICK new : new = AppendedEvent(r, type, stamp)
      OBVIOUS
    <3>2. new.sequence \in Nat /\ \A e \in events[r] : e.sequence < new.sequence
      BY <3>1, NextSequenceIsFresh DEF AppendedEvent
    <3>3. completedAt[r] <= new.createdAt + Lag
      <4>1. new.createdAt = stamp
        BY <3>1 DEF AppendedEvent
      <4>2. stamp \in Nat /\ now <= stamp + Lag
        BY <1>1 DEF Timestamps
      <4>3. QED
        BY <1>1, <4>1, <4>2
    <3>4. events'[r] = events[r] \cup {new}
      BY <2>4, <3>1
    <3>5. Young
      BY <1>3, <2>1, <2>2, <3>2, <3>3, <3>4
    <3>6. QED
      BY <1>2, <3>5 DEF EndIsYoung
  <2>5. QED
    BY <2>3, <2>4, LogGrowsByOne
<1>5. ASSUME ~ Terminal(r), Terminal(r)'
      PROVE  EndIsYoung(r)'
  <2>1. PICK new \in events'[r] : /\ new.type = AnnouncedBy(status'[r])
                                  /\ completedAt'[r] <= new.createdAt + Lag
    BY <1>5, EndsAreStamped DEF EndIsStamped
  <2>2. new.type \in TERMINAL_EVENT_TYPES
    BY <1>5, <2>1, AnnouncedByType DEF Terminal
  <2>3. \A e \in events[r] : e.type \notin TERMINAL_EVENT_TYPES
    BY <1>5 DEF LogAgreesWithStatus
  <2>4. PICK last \in events'[r] : events'[r] = events[r] \cup {last}
    BY <1>5, LogStep DEF Ends, NoEnd
  <2>5. new = last /\ new \notin events[r]
    BY <2>1, <2>2, <2>3, <2>4
  <2>6. \A e \in events[r] : e.sequence < new.sequence
    BY <2>1, <2>5, AppendStep DEF AppendsOnly
  <2>7. new.sequence \in Nat
    <3>1. StoreTypeOK'
      BY TypeStep
    <3>2. QED
      BY <2>1, <3>1, BoundsAreNaturals DEF StoreTypeOK, StreamEvent, MaxEvents
  <2>8. \A e, d \in events'[r] :
           e.type \in TERMINAL_EVENT_TYPES /\ e.sequence <= d.sequence => d = new
    BY <1>3, <2>3, <2>4, <2>5, <2>6, <2>7
  <2>9. Young
    BY <2>1, <2>8
  <2>10. QED
    BY <1>2, <2>9 DEF EndIsYoung
<1>6. CASE ~ Terminal(r)'
  BY <1>2, <1>6 DEF EndIsYoung, Terminal
<1>7. QED
  BY <1>4, <1>5, <1>6

-----------------------------------------------------------------------------
(* The retention window. *)

\* A window that has closed never opens again.
LEMMA WindowCloses ==
    ASSUME StoreTypeOK, [StoreNext]_storeVars, NEW r \in Runs, WithinRetention(r)'
    PROVE  WithinRetention(r)
<1>1. CASE Terminal(r)
  <2>1. Terminal(r)' /\ completedAt'[r] = completedAt[r]
    BY <1>1, FrozenStep DEF Terminal
  <2>2. /\ completedAt[r] \in Nat /\ {Retention, Lag} \subseteq Nat /\ now \in Nat
        /\ now' \in Nat /\ now <= now'
    BY TimePasses, BoundsAreNaturals DEF StoreTypeOK
  <2>3. QED
    BY <2>1, <2>2 DEF WithinRetention
<1>2. QED
  BY <1>1 DEF WithinRetention

\* In the window a log keeps its height: the end of the run and what follows it
\* stay, and what a prune takes has a lower number.
LEMMA HeightStays ==
    ASSUME StoreTypeOK, EndStaysReadable', LogsAreOrdered, [StoreNext]_storeVars,
           NEW r \in Runs, WithinRetention(r)', NEW d \in events[r]
    PROVE  \E e \in events'[r] : d.sequence <= e.sequence
<1>0. \A e \in events[r] : e.createdAt \in Nat /\ e.sequence \in Nat
  BY BoundsAreNaturals DEF StoreTypeOK, StreamEvent, MaxEvents
<1>1. CASE d \in events'[r]
  BY <1>0, <1>1
<1>2. CASE d \notin events'[r]
  <2>1. Terminal(r) /\ d.createdAt + Retention < now
    BY <1>2, AppendStep DEF AppendsOnly, Expired
  <2>2. Terminal(r)' /\ status'[r] = status[r] /\ completedAt'[r] = completedAt[r]
    BY <2>1, FrozenStep DEF Terminal
  <2>3. completedAt[r] + Retention >= now' + Lag
    BY <2>2 DEF WithinRetention
  <2>4. PICK e \in events'[r] : e.type = AnnouncedBy(status[r])
    BY <2>2, <2>3 DEF EndStaysReadable
  <2>5. e.type \in TERMINAL_EVENT_TYPES
    BY <2>1, <2>4, AnnouncedByType DEF Terminal
  <2>6. CASE e \in events[r]
    <3>1. ~ (completedAt[r] <= d.createdAt + Lag)
      <4>1. /\ completedAt[r] \in Nat /\ {Retention, Lag} \subseteq Nat /\ now \in Nat
            /\ now' \in Nat /\ now <= now' /\ d.createdAt \in Nat
        BY <1>0, TimePasses, BoundsAreNaturals DEF StoreTypeOK
      <4>2. QED
        BY <2>1, <2>3, <4>1
    <3>2. ~ (e.sequence <= d.sequence)
      BY <2>1, <2>5, <2>6, <3>1 DEF LogsAreOrdered, EndIsYoung
    <3>3. QED
      BY <1>0, <2>6, <3>2
  <2>7. CASE e \notin events[r]
    <3>1. d.sequence < e.sequence
      BY <2>7, AppendStep DEF AppendsOnly
    <3>2. e.sequence \in Nat
      <4>1. StoreTypeOK'
        BY TypeStep
      <4>2. QED
        BY <4>1, BoundsAreNaturals DEF StoreTypeOK, StreamEvent, MaxEvents
    <3>3. QED
      BY <1>0, <3>1, <3>2
  <2>8. QED
    BY <2>6, <2>7
<1>3. QED
  BY <1>1, <1>2

-----------------------------------------------------------------------------
(* Readers. *)

\* A set of events has one with the lowest number: the CHOOSE of Yield names it.
LEMMA FirstOfBatch ==
    ASSUME NEW B \in SUBSET StreamEvent, B # {}
    PROVE  \E d \in B : \A f \in B : d.sequence <= f.sequence
<1> DEFINE Used == {e.sequence : e \in B}
<1>1. \A e \in B : e.sequence \in Nat
  BY BoundsAreNaturals DEF StreamEvent, MaxEvents
<1>2. Used \subseteq Nat /\ Used # {}
  BY <1>1
<1>3. PICK g \in Used : \A h \in Used : ~ (<<h, g>> \in OpToRel(<, Nat))
  BY <1>2, NatLessThanWellFounded, WFMin, Zenon
<1>4. \A h \in Used : g <= h
  <2>1. \A h \in Used : ~ (h < g)
    BY <1>2, <1>3, Zenon DEF OpToRel
  <2>2. QED
    BY <1>2, <2>1
<1>5. PICK d \in B : g = d.sequence
  OBVIOUS
<1>6. QED
  BY <1>4, <1>5

Point == {"unconnected", "listing", "yielding", "checking", "dropped", "ended"}

\* A reader's variables, and what an unconnected reader has.
ReaderTypes ==
    /\ at \in [Readers -> Point]
    /\ run \in [Readers -> Runs \cup {NoRun}]
    /\ cursor \in [Readers -> Nat]
    /\ lastId \in [Readers -> Nat]
    /\ batch \in [Readers -> SUBSET StreamEvent]
    /\ received \in [Readers -> SUBSET StreamEvent]
    /\ drops \in [Readers -> Nat]
    /\ \A c \in Readers :
          /\ at[c] = "unconnected" =>
                run[c] = NoRun /\ lastId[c] = 0 /\ received[c] = {} /\ batch[c] = {}
          /\ at[c] # "unconnected" => run[c] \in Runs /\ status[run[c]] # ABSENT
          /\ at[c] = "yielding" => batch[c] # {}
          /\ cursor[c] = lastId[c]

\* What the CHOOSE of Yield picks.
LEMMA YieldsFirst ==
    ASSUME ReaderTypes, NEW c \in Readers, Yield(c)
    PROVE  \E e \in batch[c] :
              /\ \A f \in batch[c] : e.sequence <= f.sequence
              /\ e.sequence \in Nat
              /\ cursor' = [cursor EXCEPT ![c] = e.sequence]
              /\ lastId' = [lastId EXCEPT ![c] = e.sequence]
              /\ received' = [received EXCEPT ![c] = @ \cup {e}]
              /\ batch' = [batch EXCEPT ![c] = @ \ {e}]
              /\ at' = [at EXCEPT ![c] =
                           IF e.type \in TERMINAL_EVENT_TYPES THEN "ended"
                           ELSE IF batch[c] = {e} THEN "checking" ELSE "yielding"]
<1>1. batch[c] \in SUBSET StreamEvent /\ batch[c] # {}
  BY DEF ReaderTypes, Yield
<1>2. PICK e : e = CHOOSE d \in batch[c] : \A f \in batch[c] : d.sequence <= f.sequence
  OBVIOUS
<1>3. e \in batch[c] /\ \A f \in batch[c] : e.sequence <= f.sequence
  BY <1>1, <1>2, FirstOfBatch
<1>4. e.sequence \in Nat
  BY <1>1, <1>3, BoundsAreNaturals DEF StreamEvent, MaxEvents
<1>5. QED
  BY <1>2, <1>3, <1>4 DEF Yield, Goto

\* A reader's step is its own.
LEMMA OtherReadersWait ==
    ASSUME ReaderTypes, NEW c \in Readers,
           ReaderStep(c) \/ Drop(c) \/ (\E r \in Runs : Connect(c, r))
    PROVE  /\ UNCHANGED storeVars
           /\ \A x \in Readers \ {c} :
                 UNCHANGED <<at[x], run[x], cursor[x], batch[x], lastId[x], received[x]>>
BY DEF ReaderStep, Resume, List, Yield, Check, Drop, Connect, Goto, ReaderTypes

\* The variables of the readers stay well typed.
LEMMA ReaderTypesStep ==
    ASSUME StoreTypeOK, ReaderTypes, [Next]_streamVars
    PROVE  ReaderTypes'
<1> USE DEF ReaderTypes
<1>1. \A r \in Runs : status[r] # ABSENT => status'[r] # ABSENT
  <2>1. [StoreNext]_storeVars
    BY ReadersOnlyRead
  <2>2. Reservation \/ RowsMoveOn
    BY <2>1, RowStep
  <2>3. CASE RowsMoveOn
    BY <2>3, TransitionsLeaveActive DEF RowsMoveOn
  <2>4. CASE Reservation
    BY <2>4 DEF Reservation, ReserveRun, StoreTypeOK, PENDING, ABSENT
  <2>5. QED
    BY <2>2, <2>3, <2>4
<1>2. CASE UNCHANGED readerVars
  BY <1>1, <1>2 DEF readerVars
<1>3. ASSUME NEW c \in Readers, NEW r \in Runs, Connect(c, r)
      PROVE  ReaderTypes'
  <2>1. /\ at' = [at EXCEPT ![c] = "listing"] /\ run' = [run EXCEPT ![c] = r]
        /\ status[r] # ABSENT /\ status' = status
        /\ UNCHANGED <<cursor, batch, lastId, received, drops>>
    BY <1>3 DEF Connect, Goto, storeVars, runVars
  <2>2. QED
    BY <2>1 DEF Point
<1>4. ASSUME NEW c \in Readers, Resume(c)
      PROVE  ReaderTypes'
  <2>1. /\ at' = [at EXCEPT ![c] = "listing"] /\ cursor' = [cursor EXCEPT ![c] = lastId[c]]
        /\ batch' = [batch EXCEPT ![c] = {}] /\ at[c] # "unconnected" /\ status' = status
        /\ UNCHANGED <<run, lastId, received, drops>>
    BY <1>4 DEF Resume, Goto, storeVars, runVars
  <2>2. QED
    BY <2>1 DEF Point
<1>5. ASSUME NEW c \in Readers, List(c)
      PROVE  ReaderTypes'
  <2>1. PICK later : later = {e \in events[run[c]] : e.sequence > cursor[c]}
    OBVIOUS
  <2>2. later \in SUBSET StreamEvent
    BY <1>5, <2>1 DEF List, StoreTypeOK
  <2>3. /\ at' = [at EXCEPT ![c] = IF later = {} THEN "checking" ELSE "yielding"]
        /\ batch' = [batch EXCEPT ![c] = later]
        /\ at[c] = "listing" /\ status' = status
        /\ UNCHANGED <<run, cursor, lastId, received, drops>>
    BY <1>5, <2>1 DEF List, Goto, storeVars, runVars
  <2>4. QED
    BY <2>2, <2>3 DEF Point
<1>6. ASSUME NEW c \in Readers, Yield(c)
      PROVE  ReaderTypes'
  <2>1. at[c] = "yielding" /\ status' = status /\ UNCHANGED <<run, drops>>
    BY <1>6 DEF Yield, storeVars, runVars
  <2>2. QED
    BY <1>6, <2>1, YieldsFirst DEF Point
<1>7. ASSUME NEW c \in Readers, Check(c) \/ Drop(c)
      PROVE  ReaderTypes'
  BY <1>7 DEF Check, Drop, Goto, storeVars, runVars, Point
<1>8. QED
  BY <1>2, <1>3, <1>4, <1>5, <1>6, <1>7 DEF Next, Write, ReaderStep, streamVars

-----------------------------------------------------------------------------
(* The end of a run, as a client sees it. *)

\* An end that was read from the log is the run's end.
ReadEndsAreTrue ==
    \A c \in Readers : \A e \in received[c] \cup batch[c] :
        e.type \in TERMINAL_EVENT_TYPES =>
            /\ run[c] \in Runs
            /\ Terminal(run[c]) /\ e.type = AnnouncedBy(status[run[c]])

\* Ends are read when the row agrees with the log, and the row is frozen then.
LEMMA ReadEndsAreTrueStep ==
    ASSUME StoreTypeOK, LogAgreesWithStatus, ReaderTypes, ReadEndsAreTrue, [Next]_streamVars
    PROVE  ReadEndsAreTrue'
<1> SUFFICES ASSUME NEW c \in Readers, NEW e \in received'[c] \cup batch'[c],
                    e.type \in TERMINAL_EVENT_TYPES
             PROVE  /\ run'[c] \in Runs
                    /\ status'[run'[c]] \in TERMINAL_RUN_STATUSES
                    /\ e.type = AnnouncedBy(status'[run'[c]])
  BY DEF ReadEndsAreTrue, Terminal
<1>1. \A r \in Runs : Terminal(r) => Terminal(r)' /\ status'[r] = status[r]
  BY ReadersOnlyRead, FrozenStep DEF Terminal
<1>2. CASE e \in received[c] \cup batch[c] /\ run'[c] = run[c]
  BY <1>1, <1>2 DEF ReadEndsAreTrue, Terminal
<1>3. CASE UNCHANGED readerVars
  BY <1>2, <1>3 DEF readerVars
<1>4. ASSUME NEW x \in Readers \ {c},
             ReaderStep(x) \/ Drop(x) \/ (\E r \in Runs : Connect(x, r))
      PROVE  e \in received[c] \cup batch[c] /\ run'[c] = run[c]
  BY <1>4, OtherReadersWait
<1>5. ASSUME NEW r \in Runs, Connect(c, r)
      PROVE  FALSE
  BY <1>5 DEF Connect, ReaderTypes
<1>6. CASE Resume(c) \/ Check(c) \/ Drop(c)
  BY <1>2, <1>6 DEF Resume, Check, Drop, ReaderTypes
<1>7. CASE List(c)
  <2>1. run'[c] = run[c] /\ status' = status /\ received' = received
        /\ batch'[c] = {d \in events[run[c]] : d.sequence > cursor[c]}
    BY <1>7 DEF List, ReaderTypes, storeVars, runVars
  <2>2. run[c] \in Runs
    BY <1>7 DEF List, ReaderTypes
  <2>3. CASE e \in received[c]
    BY <1>2, <2>1, <2>3
  <2>4. CASE e \in events[run[c]]
    BY <2>1, <2>2, <2>4 DEF LogAgreesWithStatus, Terminal
  <2>5. QED
    BY <2>1, <2>3, <2>4
<1>8. CASE Yield(c)
  <2>1. run' = run
    BY <1>8 DEF Yield
  <2>2. PICK d \in batch[c] : /\ received' = [received EXCEPT ![c] = @ \cup {d}]
                              /\ batch' = [batch EXCEPT ![c] = @ \ {d}]
    BY <1>8, YieldsFirst
  <2>3. e \in received[c] \cup batch[c]
    BY <2>2 DEF ReaderTypes
  <2>4. QED
    BY <1>2, <2>1, <2>3
<1>9. QED
  BY <1>2, <1>3, <1>4, <1>5, <1>6, <1>7, <1>8 DEF Next, Write, ReaderStep, streamVars

\* Init of the readers.
LEMMA InitReaders == Init => ReaderTypes /\ ReadEndsAreTrue /\ LogsAreOrdered
BY DEF Init, StoreInit, ReaderTypes, Point, ReadEndsAreTrue, LogsAreOrdered, LogIsNumbered, EndIsYoung,
       Terminal, TERMINAL_RUN_STATUSES, ABSENT, COMPLETED, FAILED, CANCELLED, INTERRUPTED

\* The end a client was shown is the end of the run, for good: whoever raced for
\* the row, no two clients are told different outcomes.
THEOREM ReceivedEndsAreTrue == Spec => []ReceivedEndIsTrue
<1>1. StoreTypeOK /\ ReaderTypes /\ [Next]_streamVars => ReaderTypes'
  BY ReaderTypesStep
<1>2. StoreTypeOK /\ LogAgreesWithStatus /\ ReaderTypes /\ ReadEndsAreTrue /\ [Next]_streamVars
        => ReadEndsAreTrue'
  BY ReadEndsAreTrueStep
<1>3. ReadEndsAreTrue => ReceivedEndIsTrue
  BY DEF ReadEndsAreTrue, ReceivedEndIsTrue
<1>4. QED
  BY <1>1, <1>2, <1>3, InitReaders, StreamUsesStore, StoreIsWellTyped, LogMatchesStatus, PTL
  DEF Spec

-----------------------------------------------------------------------------
(* No gap behind a client's cursor. *)

\* The client has what is left of the log up to its Last-Event-ID.
Behind(c) == \A e \in events[run[c]] : e.sequence <= lastId[c] => e \in received[c]

\* The log still reaches a number a client or a batch has seen.
Reaches(c, n) == \E d \in events[run[c]] : n <= d.sequence

\* What is left of the log past the cursor is in the batch or newer than it.
Ahead(c) ==
    /\ \A b \in batch[c] : cursor[c] < b.sequence /\ Reaches(c, b.sequence)
    /\ \A b, d \in batch[c] : b.sequence = d.sequence => b = d
    /\ \A e \in events[run[c]] : cursor[c] < e.sequence =>
          e \in batch[c] \/ \A b \in batch[c] : b.sequence < e.sequence

KeepsUp(c) ==
    /\ Behind(c)
    /\ lastId[c] = 0 \/ Reaches(c, lastId[c])
    /\ at[c] = "yielding" => Ahead(c)

\* While the end of its run is within the retention a reader keeps up with it.
ReadersKeepUp == \A c \in Readers : run[c] # NoRun /\ WithinRetention(run[c]) => KeepsUp(c)

\* A transaction of the store leaves the readers of the run where they were.
LEMMA WritesKeepUp ==
    ASSUME StoreTypeOK, EndStaysReadable', LogsAreOrdered, ReaderTypes, Write, NEW c \in Readers,
           run[c] \in Runs, WithinRetention(run[c])', KeepsUp(c)
    PROVE  KeepsUp(c)'
<1>1. PICK r \in Runs : r = run[c]
  OBVIOUS
<1>2. [StoreNext]_storeVars /\ UNCHANGED readerVars
  BY DEF Write
<1>3. UNCHANGED <<at, run, cursor, batch, lastId, received>>
  BY <1>2 DEF readerVars
<1>4. WithinRetention(r)'
  BY <1>1, <1>3 DEF WithinRetention, Terminal
<1>5. \A d \in events[r] : \E e \in events'[r] : d.sequence <= e.sequence
  BY <1>2, <1>4, HeightStays
<1>6. \A e \in events'[r] \ events[r] : 0 < e.sequence /\ \A d \in events[r] : d.sequence < e.sequence
  <2>1. ASSUME NEW e \in events'[r] \ events[r]
        PROVE  0 < e.sequence
    <3>1. PICK type, stamp : events'[r] = events[r] \cup {AppendedEvent(r, type, stamp)}
      BY <1>2, <2>1, LogGrowsByOne
    <3>2. QED
      BY <2>1, <3>1, NextSequenceIsFresh DEF AppendedEvent
  <2>2. QED
    BY <1>2, <2>1, AppendStep DEF AppendsOnly
<1>7. \A e \in events[r] : e.sequence \in Nat
  BY BoundsAreNaturals DEF StoreTypeOK, StreamEvent, MaxEvents
<1>8. \A e \in events'[r] : e.sequence \in Nat
  <2>1. StoreTypeOK'
    BY <1>2, TypeStep
  <2>2. QED
    BY <2>1, BoundsAreNaturals DEF StoreTypeOK, StreamEvent, MaxEvents
<1>9. /\ lastId[c] \in Nat /\ cursor[c] \in Nat
      /\ \A b \in batch[c] : b.sequence \in Nat
  BY BoundsAreNaturals DEF ReaderTypes, StreamEvent, MaxEvents
<1>10. Behind(c)'
  BY <1>1, <1>3, <1>6, <1>7, <1>8, <1>9 DEF Behind, KeepsUp, Reaches
<1>11. ASSUME NEW n \in Nat, Reaches(c, n)
       PROVE  \E d \in events'[r] : n <= d.sequence
  BY <1>1, <1>5, <1>7, <1>8, <1>11 DEF Reaches
<1>12. lastId'[c] = 0 \/ Reaches(c, lastId[c])'
  BY <1>1, <1>3, <1>9, <1>11 DEF KeepsUp, Reaches
<1>13. ASSUME at[c] = "yielding"
       PROVE  Ahead(c)'
  <2>1. \A b \in batch[c] : cursor[c] < b.sequence /\ \E d \in events'[r] : b.sequence <= d.sequence
    BY <1>9, <1>11, <1>13 DEF KeepsUp, Ahead
  <2>2. \A e \in events'[r] : cursor[c] < e.sequence =>
           e \in batch[c] \/ \A b \in batch[c] : b.sequence < e.sequence
    BY <1>1, <1>6, <1>7, <1>8, <1>9, <1>13 DEF KeepsUp, Ahead, Reaches
  <2>3. QED
    BY <1>1, <1>3, <1>13, <2>1, <2>2 DEF KeepsUp, Ahead, Reaches
<1>14. QED
  BY <1>3, <1>10, <1>12, <1>13 DEF KeepsUp

\* A listing takes everything past the cursor, in one transaction.
LEMMA ListKeepsUp ==
    ASSUME StoreTypeOK, LogsAreOrdered, ReaderTypes, NEW c \in Readers, List(c), KeepsUp(c)
    PROVE  KeepsUp(c)'
<1>1. PICK r \in Runs : r = run[c]
  BY DEF List, ReaderTypes
<1>2. PICK later : later = {e \in events[r] : e.sequence > cursor[c]}
  OBVIOUS
<1>3. /\ batch'[c] = later
      /\ UNCHANGED <<run, cursor, lastId, received, events>>
  BY <1>1, <1>2 DEF List, ReaderTypes, storeVars
<1>4. \A e \in events[r] : e.sequence \in Nat
  BY BoundsAreNaturals DEF StoreTypeOK, StreamEvent, MaxEvents
<1>5. cursor[c] \in Nat
  BY DEF ReaderTypes
<1>6. Ahead(c)'
  BY <1>1, <1>2, <1>3, <1>4, <1>5 DEF Ahead, Reaches, LogsAreOrdered, LogIsNumbered
<1>7. QED
  BY <1>3, <1>6 DEF KeepsUp, Behind, Reaches

\* The lowest number of the batch is the next one the log has past the cursor.
LEMMA YieldKeepsUp ==
    ASSUME StoreTypeOK, ReaderTypes, NEW c \in Readers, Yield(c), KeepsUp(c)
    PROVE  KeepsUp(c)'
<1>1. PICK r \in Runs : r = run[c]
  BY DEF Yield, ReaderTypes
<1>2. PICK e \in batch[c] :
          /\ \A f \in batch[c] : e.sequence <= f.sequence
          /\ e.sequence \in Nat
          /\ cursor' = [cursor EXCEPT ![c] = e.sequence]
          /\ lastId' = [lastId EXCEPT ![c] = e.sequence]
          /\ received' = [received EXCEPT ![c] = @ \cup {e}]
          /\ batch' = [batch EXCEPT ![c] = @ \ {e}]
  BY YieldsFirst
<1>3. /\ cursor'[c] = e.sequence /\ lastId'[c] = e.sequence
      /\ received'[c] = received[c] \cup {e} /\ batch'[c] = batch[c] \ {e}
      /\ run' = run /\ events' = events
  BY <1>2 DEF ReaderTypes, Yield, storeVars
<1>4. Ahead(c) /\ Behind(c) /\ cursor[c] = lastId[c]
  BY DEF Yield, KeepsUp, ReaderTypes
<1>5. \A f \in events[r] : f.sequence \in Nat
  BY BoundsAreNaturals DEF StoreTypeOK, StreamEvent, MaxEvents
<1>6. cursor[c] \in Nat /\ \A b \in batch[c] : b.sequence \in Nat
  BY BoundsAreNaturals DEF ReaderTypes, StreamEvent, MaxEvents
<1>7. \A f \in events[r] : f.sequence <= e.sequence => f \in received[c] \cup {e}
  BY <1>1, <1>2, <1>4, <1>5, <1>6 DEF Ahead, Behind
<1>8. Behind(c)'
  BY <1>1, <1>3, <1>7 DEF Behind
<1>9. Reaches(c, lastId[c])'
  BY <1>3, <1>4 DEF Ahead, Reaches
<1>10. Ahead(c)'
  <2>1. \A b \in batch[c] \ {e} : e.sequence < b.sequence
    BY <1>2, <1>4, <1>6 DEF Ahead
  <2>2. \A f \in events[r] : e.sequence < f.sequence =>
           f \in batch[c] \ {e} \/ \A b \in batch[c] \ {e} : b.sequence < f.sequence
    BY <1>1, <1>2, <1>4, <1>5, <1>6 DEF Ahead
  <2>3. QED
    BY <1>1, <1>3, <1>4, <2>1, <2>2 DEF Ahead, Reaches
<1>11. QED
  BY <1>8, <1>9, <1>10 DEF KeepsUp

\* Every step keeps every reader of a run within the retention up with it.
LEMMA ReadersKeepUpStep ==
    ASSUME StoreTypeOK, EndStaysReadable', LogsAreOrdered, ReaderTypes, ReadersKeepUp,
           [Next]_streamVars
    PROVE  ReadersKeepUp'
<1> SUFFICES ASSUME NEW c \in Readers, run'[c] # NoRun, WithinRetention(run[c])'
             PROVE  KeepsUp(c)'
  BY DEF ReadersKeepUp
<1>1. ASSUME run[c] # NoRun
      PROVE  run[c] \in Runs
  BY <1>1 DEF ReaderTypes
<1>2. ASSUME run[c] # NoRun, UNCHANGED storeVars, run'[c] = run[c]
      PROVE  KeepsUp(c)
  BY <1>2 DEF ReadersKeepUp, WithinRetention, Terminal, storeVars, runVars
<1>3. ASSUME UNCHANGED storeVars,
             UNCHANGED <<at[c], run[c], cursor[c], batch[c], lastId[c], received[c]>>
      PROVE  KeepsUp(c)'
  BY <1>2, <1>3 DEF KeepsUp, Behind, Ahead, Reaches, storeVars
<1>4. CASE Write
  <2>1. run' = run
    BY <1>4 DEF Write, readerVars
  <2>2. run[c] \in Runs /\ WithinRetention(run[c])
    <3>1. PICK r \in Runs : r = run[c] /\ r = run'[c]
      BY <1>1, <2>1
    <3>2. WithinRetention(r)'
      BY <3>1 DEF WithinRetention, Terminal
    <3>3. WithinRetention(r)
      BY <1>4, <3>2, WindowCloses DEF Write
    <3>4. QED
      BY <3>1, <3>3
  <2>3. KeepsUp(c)
    BY <2>1, <2>2 DEF ReadersKeepUp
  <2>4. QED
    BY <1>4, <2>2, <2>3, WritesKeepUp
<1>5. ASSUME NEW x \in Readers \ {c},
             ReaderStep(x) \/ Drop(x) \/ (\E r \in Runs : Connect(x, r))
      PROVE  KeepsUp(c)'
  BY <1>3, <1>5, OtherReadersWait
<1>6. ASSUME NEW r \in Runs, Connect(c, r)
      PROVE  KeepsUp(c)'
  <2>1. /\ run'[c] = r /\ lastId'[c] = 0 /\ at'[c] = "listing" /\ events' = events
    BY <1>6 DEF Connect, Goto, ReaderTypes, storeVars
  <2>2. \A e \in events[r] : ~ (e.sequence <= 0)
    BY BoundsAreNaturals DEF StoreTypeOK, StreamEvent, MaxEvents
  <2>3. QED
    BY <2>1, <2>2 DEF KeepsUp, Behind
<1>7. CASE Resume(c) \/ Check(c) \/ Drop(c)
  <2>1. /\ UNCHANGED <<storeVars, run, lastId, received>>
        /\ at'[c] # "yielding"
    BY <1>7 DEF Resume, Check, Drop, Goto, ReaderTypes
  <2>2. QED
    BY <1>2, <2>1 DEF KeepsUp, Behind, Reaches, storeVars
<1>8. CASE List(c) \/ Yield(c)
  <2>1. UNCHANGED <<storeVars, run>>
    BY <1>8 DEF List, Yield
  <2>2. QED
    BY <1>2, <1>8, <2>1, ListKeepsUp, YieldKeepsUp
<1>9. CASE UNCHANGED streamVars
  BY <1>3, <1>9 DEF streamVars, readerVars
<1>10. QED
  BY <1>4, <1>5, <1>6, <1>7, <1>8, <1>9 DEF Next, ReaderStep

\* A client whose run goes on, or ended within the retention, has every event
\* its Last-Event-ID has passed and the log still holds, over any number of
\* reconnections, prunes and late deltas.
THEOREM CursorsLeaveNoGap == Spec => []NoGapBehindCursor
<1>1. StoreTypeOK /\ ReaderTypes /\ [Next]_streamVars => ReaderTypes'
  BY ReaderTypesStep
<1>2. StoreTypeOK /\ LogAgreesWithStatus /\ LogsAreOrdered /\ [Next]_streamVars => LogsAreOrdered'
  BY ReadersOnlyRead, LogIsNumberedStep, EndIsYoungStep DEF LogsAreOrdered
<1>3. StoreTypeOK /\ EndStaysReadable' /\ LogsAreOrdered /\ ReaderTypes /\ ReadersKeepUp
        /\ [Next]_streamVars => ReadersKeepUp'
  BY ReadersKeepUpStep
<1>4. Init => ReadersKeepUp
  BY DEF Init, ReadersKeepUp
<1>5. ReadersKeepUp => NoGapBehindCursor
  BY DEF ReadersKeepUp, KeepsUp, Behind, NoGapBehindCursor
<1>6. QED
  BY <1>1, <1>2, <1>3, <1>4, <1>5, InitReaders, StreamUsesStore, StoreIsWellTyped,
     LogMatchesStatus, EndsAreReadable, PTL
  DEF Spec
=============================================================================
