--------------------------- MODULE PostgresProofs ----------------------------
(***************************************************************************)
(* The relational store statement by statement, for every number of        *)
(* connections, runs, sessions and keys: whatever the interleaving, its    *)
(* transactions are the atomic operations of RuntimeStore, no constraint   *)
(* violation reaches a client, a repeat is replayed, and only a repeat of  *)
(* a run that is being committed can deadlock.                             *)
(*                                                                         *)
(* The argument is two-phase locking: what a transaction has read of a row *)
(* stays true while it holds the row's lock (TxInv), because the others    *)
(* write only rows they hold (Frame).                                      *)
(***************************************************************************)
EXTENDS PostgresStore, RuntimeStoreProofs

-----------------------------------------------------------------------------
(* What a transaction knows. *)

Pc == {"idle", "key", "session", "key_again", "active", "insert", "inserted", "race",
       "replay", "conflict", "busy", "not_found", "refused", "run", "sequence", "write"}
Op == RunOps \cup SessionOps \cup {"none", "reserve", "interrupt"}

TxRow ==
    [pc : Pc, op : Op, run : Runs \cup {NoRun}, session : Sessions \cup {NoSession},
     param : Sessions \cup {NoSession}, key : Keys \cup {NoKey}, hash : Hashes \cup {NoRun},
     worker : Workers \cup {NoRun}, rows : SUBSET Runs, version : Nat, attempts : Nat,
     length : Nat, sequence : Nat]

PgTypes ==
    /\ tx \in [Txns -> TxRow]
    /\ lockedBy \in [Runs \cup Sessions -> Txns \cup {NoTxn}]

\* The rows a transaction holds are at most these.
HoldsOnly(t, rows) == \A row \in Runs \cup Sessions : lockedBy[row] = t => row \in rows

Repeats(k, h) == \E r \in Runs : Replays(k, h, r)

\* A reservation from its first look-up to its commit.
KnowsSession(t) ==
    /\ tx[t].session \in Sessions
    /\ lockedBy[tx[t].session] = t
    /\ IF tx[t].param = NoSession
       THEN ~ Exists(tx[t].session)
       ELSE tx[t].session = tx[t].param /\ Exists(tx[t].session)

Reserving(t) ==
    /\ tx[t].pc \notin {"idle", "run", "sequence", "write", "refused"}
    /\ tx[t].worker \in Workers
    /\ tx[t].hash \in Payloads \X {tx[t].param}
    /\ tx[t].pc \in {"key", "session", "race"} => HoldsOnly(t, {})
    /\ tx[t].pc \in {"key", "session"} => tx[t].session = NoSession
    /\ tx[t].pc \in {"key_again", "active", "insert", "inserted"} => KnowsSession(t)
    /\ tx[t].pc = "key_again" => HoldsOnly(t, {tx[t].session})
    /\ tx[t].pc = "active" /\ tx[t].param # NoSession => ~ Repeats(tx[t].key, tx[t].hash)
    /\ tx[t].pc \in {"insert", "inserted"} => ActiveRuns(tx[t].session) = {}
    /\ tx[t].pc = "inserted" =>
          /\ tx[t].run \in Runs
          /\ lockedBy[tx[t].run] = t
          /\ status[tx[t].run] = ABSENT
          /\ KeyHolders(tx[t].key) = {}
    /\ tx[t].pc = "race" => KeyHolders(tx[t].key) # {}
    /\ tx[t].pc = "replay" =>
          /\ Repeats(tx[t].key, tx[t].hash)
          /\ tx[t].param = NoSession /\ tx[t].session \in Sessions =>
                lockedBy[tx[t].session] = t /\ ~ Exists(tx[t].session)

\* An operation on one run: what it validated under the row's lock still holds.
Validated(t) ==
    /\ lockedBy[tx[t].run] = t
    /\ Permitted(tx[t].op, tx[t].run, tx[t].worker)
    /\ tx[t].session = request[tx[t].run].session
    /\ tx[t].op = "attempt" =>
          tx[t].attempts = attempts[tx[t].run] /\ attempts[tx[t].run] < MaxAttempts
    /\ tx[t].op = "delta" => NextSequence(tx[t].run) <= MaxDeltas

\* The session a transcript is changed of.
KnowsTranscript(t) ==
    /\ tx[t].session \in Sessions
    /\ lockedBy[tx[t].session] = t
    /\ Exists(tx[t].session)
    /\ tx[t].version = version[tx[t].session]
    /\ version[tx[t].session] < MaxVersion

KnowsLength(t) == tx[t].length = Len(transcript[tx[t].session])

OnRun(t) ==
    /\ tx[t].pc \in {"run", "session", "sequence", "write", "refused", "not_found"}
    /\ tx[t].worker \in Workers
    /\ tx[t].run \in Runs
    /\ status[tx[t].run] # ABSENT
    /\ tx[t].pc = "run" => HoldsOnly(t, {})
    /\ tx[t].pc \in {"session", "sequence", "write"} => Validated(t)
    /\ tx[t].pc = "session" => tx[t].op = "commit" /\ HoldsOnly(t, {tx[t].run})
    /\ tx[t].pc \in {"sequence", "write"} /\ tx[t].op = "commit" => KnowsTranscript(t)
    /\ tx[t].pc = "write" /\ tx[t].op # "attempt" =>
          tx[t].sequence = NextSequence(tx[t].run)
    /\ tx[t].pc = "write" /\ tx[t].op = "commit" => KnowsLength(t)

OnSession(t) ==
    /\ tx[t].pc \in {"session", "active", "sequence", "write", "busy", "not_found"}
    /\ tx[t].session \in Sessions
    /\ tx[t].pc = "session" => HoldsOnly(t, {})
    /\ tx[t].pc \in {"active", "sequence", "write"} => KnowsTranscript(t)
    /\ tx[t].pc \in {"sequence", "write"} => ActiveRuns(tx[t].session) = {}
    /\ tx[t].pc = "write" /\ tx[t].op = "append" => KnowsLength(t)

\* A shutdown or start-up: the rows it selected are still what it looked for.
Interrupting(t) ==
    /\ tx[t].pc = "write"
    /\ \A r \in tx[t].rows : lockedBy[r] = t
    /\ \E w \in Workers, sameWorker \in BOOLEAN : tx[t].rows \subseteq Matching(w, sameWorker)

Waiting(t) == tx[t] = Idle /\ HoldsOnly(t, {})

TxInv(t) ==
    /\ tx[t].op = "none" => Waiting(t)
    /\ tx[t].op = "reserve" => Reserving(t)
    /\ tx[t].op \in RunOps => OnRun(t)
    /\ tx[t].op \in SessionOps => OnSession(t)
    /\ tx[t].op = "interrupt" => Interrupting(t)

-----------------------------------------------------------------------------
(* What the rows have in common. *)

\* A run's session exists and its request hash tells which session was asked for.
RowsAreResolved ==
    \A r \in Runs : status[r] # ABSENT =>
        /\ request[r].session \in Sessions
        /\ Exists(request[r].session)
        /\ request[r].hash \in Payloads \X {NoSession, request[r].session}

\* An active run's log leaves room for the events its life still has.
LogsLeaveRoom ==
    \A r \in Runs :
        /\ status[r] \in {ABSENT, PENDING} => \A e \in events[r] : e.sequence <= MaxDeltas
        /\ status[r] = RUNNING => \A e \in events[r] : e.sequence <= MaxDeltas + 1

\* The unique key of agent_runs lets one transaction insert a key.
InsertsDiffer ==
    \A t, u \in Txns :
        /\ tx[t].pc = "inserted" /\ tx[u].pc = "inserted"
        /\ tx[t].key = tx[u].key /\ tx[t].key # NoKey
        => t = u

PgInv ==
    /\ StoreTypeOK
    /\ PgTypes
    /\ RowsAreResolved
    /\ LogsLeaveRoom
    /\ InsertsDiffer
    /\ \A t \in Txns : TxInv(t)

-----------------------------------------------------------------------------
(* What the others do. *)

RunStays(r) ==
    /\ status'[r] = status[r]
    /\ request'[r] = request[r]
    /\ owner'[r] = owner[r]
    /\ attempts'[r] = attempts[r]
    /\ events'[r] = events[r]

\* A step of u, or of nobody in the pool: it moves u's own operation and locks,
\* writes no row another transaction holds, keeps requests, revives no run, and
\* adds a run only under the lock of its session and the unique key.
Frame(u) ==
    /\ \A t \in Txns \ {u} :
          /\ tx'[t] = tx[t]
          /\ \A row \in Runs \cup Sessions : lockedBy'[row] = t <=> lockedBy[row] = t
    /\ \A r \in Runs : lockedBy[r] \in Txns \ {u} => RunStays(r)
    /\ \A s \in Sessions : lockedBy[s] \in Txns \ {u} =>
          version'[s] = version[s] /\ transcript'[s] = transcript[s]
    /\ \A s \in Sessions : Exists(s) => Exists(s)'
    /\ \A r \in Runs : status[r] # ABSENT =>
          /\ status'[r] # ABSENT
          /\ request'[r] = request[r]
          /\ Active(r)' => Active(r)
    /\ \A r \in Runs : status[r] = ABSENT /\ status'[r] # ABSENT =>
          /\ request'[r].session \in Sessions
          /\ version'[request'[r].session] > 0
          /\ lockedBy[request'[r].session] = u
          /\ request'[r].hash \in Payloads \X {NoSession, request'[r].session}
          /\ request'[r].key # NoKey => u \in Inserting(request'[r].key)

\* A key that was used stays used, by the same request.
LEMMA RepeatsStay ==
    ASSUME NEW u, Frame(u), NEW k, NEW h
    PROVE  /\ Repeats(k, h) => Repeats(k, h)'
           /\ KeyHolders(k) # {} => KeyHolders(k)' # {}
<1>1. ASSUME NEW r \in KeyHolders(k)
      PROVE  r \in KeyHolders(k)' /\ request'[r] = request[r]
  BY <1>1 DEF KeyHolders, Frame
<1>2. Repeats(k, h) => Repeats(k, h)'
  BY <1>1 DEF Repeats, Replays
<1>3. QED
  BY <1>1, <1>2

\* A key that is being inserted stays unused by the others.
LEMMA KeyStaysUnused ==
    ASSUME InsertsDiffer, NEW u, Frame(u), NEW t \in Txns \ {u}, tx[t].pc = "inserted",
           KeyHolders(tx[t].key) = {}
    PROVE  KeyHolders(tx[t].key)' = {}
<1>1. PICK k : k = tx[t].key
  OBVIOUS
<1>2. tx'[t].key = k
  BY <1>1 DEF Frame
<1>3. CASE k = NoKey
  BY <1>2, <1>3 DEF KeyHolders
<1>4. CASE k # NoKey
  <2>1. ASSUME NEW r \in Runs, status'[r] # ABSENT, request'[r].key = k
        PROVE  FALSE
    <3>1. status[r] = ABSENT
      BY <1>1, <1>4, <2>1 DEF Frame, KeyHolders
    <3>2. u \in Inserting(k)
      BY <1>4, <2>1, <3>1 DEF Frame
    <3>3. QED
      BY <1>1, <1>4, <3>2 DEF Inserting, InsertsDiffer
  <2>2. QED
    BY <1>2, <1>4, <2>1 DEF KeyHolders
<1>5. QED
  BY <1>3, <1>4

\* What a transaction knows of a session it holds.
LEMMA HeldSessionStays ==
    ASSUME NEW u, Frame(u), NEW t \in Txns \ {u}, NEW s \in Sessions, lockedBy[s] = t
    PROVE  /\ lockedBy'[s] = t
           /\ version'[s] = version[s] /\ transcript'[s] = transcript[s]
           /\ Exists(s)' <=> Exists(s)
           /\ ActiveRuns(s) = {} => ActiveRuns(s)' = {}
<1>1. /\ lockedBy'[s] = t
      /\ version'[s] = version[s] /\ transcript'[s] = transcript[s]
  BY DEF Frame
<1>2. ASSUME NEW r \in Runs, Active(r)', request'[r].session = s
      PROVE  Active(r) /\ request[r].session = s
  <2>1. status'[r] # ABSENT
    BY <1>2 DEF Active, ACTIVE_RUN_STATUSES, PENDING, RUNNING, ABSENT
  <2>2. status[r] # ABSENT
    BY <1>2, <2>1 DEF Frame
  <2>3. QED
    BY <1>2, <2>2 DEF Frame
<1>3. QED
  BY <1>1, <1>2 DEF Exists, ActiveRuns

\* A request for a session somebody holds is not made by the others.
LEMMA NoRepeatStays ==
    ASSUME NEW u, Frame(u), NEW t \in Txns \ {u}, NEW s \in Sessions, lockedBy[s] = t,
           NEW k, NEW h \in Payloads \X {s}, ~ Repeats(k, h)
    PROVE  ~ Repeats(k, h)'
<1> SUFFICES ASSUME NEW r \in Runs, Replays(k, h, r)'
             PROVE  FALSE
  BY DEF Repeats
<1>1. /\ status'[r] # ABSENT /\ request'[r].key = k /\ k # NoKey
      /\ request'[r].hash = h
  BY DEF Replays, KeyHolders
<1>2. CASE status[r] # ABSENT
  <2>1. request'[r] = request[r]
    BY <1>2 DEF Frame
  <2>2. Replays(k, h, r)
    BY <1>1, <1>2, <2>1 DEF Replays, KeyHolders
  <2>3. QED
    BY <2>2 DEF Repeats
<1>3. CASE status[r] = ABSENT
  <2>1. /\ request'[r].session \in Sessions
        /\ lockedBy[request'[r].session] = u
        /\ h \in Payloads \X {NoSession, request'[r].session}
    BY <1>1, <1>3 DEF Frame
  <2>2. s = NoSession \/ s = request'[r].session
    BY <2>1
  <2>3. QED
    BY <2>1, <2>2, NullsAreNotValues
<1>4. QED
  BY <1>2, <1>3

\* What a transaction knows of a run it holds.
LEMMA HeldRunStays ==
    ASSUME NEW u, Frame(u), NEW t \in Txns \ {u}, NEW r \in Runs, lockedBy[r] = t
    PROVE  /\ lockedBy'[r] = t
           /\ RunStays(r)
           /\ NextSequence(r)' = NextSequence(r)
           /\ \A op, w : Permitted(op, r, w) => Permitted(op, r, w)'
<1>1. lockedBy'[r] = t /\ RunStays(r)
  BY DEF Frame
<1>2. NextSequence(r)' = NextSequence(r)
  BY <1>1 DEF RunStays, NextSequence
<1>3. \A op, w : Permitted(op, r, w) => Permitted(op, r, w)'
  BY <1>1 DEF RunStays, Permitted, Active
<1>4. QED
  BY <1>1, <1>2, <1>3

\* The others leave a transaction what it knows.
LEMMA FrameKeeps ==
    ASSUME PgTypes, InsertsDiffer, NEW u, Frame(u), NEW t \in Txns \ {u}, TxInv(t)
    PROVE  TxInv(t)'
<1>1. tx'[t] = tx[t]
  BY DEF Frame
<1>2. tx[t] \in TxRow
  BY DEF PgTypes
<1>3. ASSUME NEW rows, HoldsOnly(t, rows)
      PROVE  HoldsOnly(t, rows)'
  BY <1>3 DEF HoldsOnly, Frame
<1>4. CASE tx[t].op = "none"
  <2>1. Waiting(t)
    BY <1>4 DEF TxInv
  <2>2. Waiting(t)'
    BY <1>1, <1>3, <2>1 DEF Waiting
  <2>3. QED
    BY <1>1, <1>4, <2>2 DEF TxInv, RunOps, SessionOps
<1>5. CASE tx[t].op = "reserve"
  <2>1. Reserving(t)
    BY <1>5 DEF TxInv
  <2>2. KnowsSession(t) => KnowsSession(t)'
    BY <1>1, HeldSessionStays DEF KnowsSession
  <2>3. tx[t].pc = "active" /\ tx[t].param # NoSession => ~ Repeats(tx[t].key, tx[t].hash)'
    <3>1. ASSUME tx[t].pc = "active", tx[t].param # NoSession
          PROVE  ~ Repeats(tx[t].key, tx[t].hash)'
      <4>1. PICK s \in Sessions, k \in Keys \cup {NoKey}, h \in Payloads \X {tx[t].param} :
               s = tx[t].param /\ k = tx[t].key /\ h = tx[t].hash
        BY <1>2, <2>1, <3>1 DEF Reserving, TxRow
      <4>2. lockedBy[s] = t /\ ~ Repeats(k, h)
        BY <2>1, <3>1, <4>1 DEF Reserving, KnowsSession
      <4>3. ~ Repeats(k, h)'
        BY <4>1, <4>2, NoRepeatStays
      <4>4. tx'[t].key = k /\ tx'[t].hash = h
        BY <1>1, <4>1
      <4>5. QED
        BY <4>3, <4>4
    <3>2. QED
      BY <3>1
  <2>4. tx[t].pc \in {"insert", "inserted"} => ActiveRuns(tx[t].session)' = {}
    <3>1. ASSUME tx[t].pc \in {"insert", "inserted"}
          PROVE  ActiveRuns(tx[t].session)' = {}
      <4>1. PICK s \in Sessions : s = tx[t].session
        BY <2>1, <3>1 DEF Reserving, KnowsSession
      <4>2. lockedBy[s] = t /\ ActiveRuns(s) = {}
        BY <2>1, <3>1, <4>1 DEF Reserving, KnowsSession
      <4>3. ActiveRuns(s)' = {}
        BY <4>2, HeldSessionStays
      <4>4. QED
        BY <1>1, <4>1, <4>3
    <3>2. QED
      BY <3>1
  <2>5. tx[t].pc = "inserted" =>
          /\ lockedBy'[tx[t].run] = t
          /\ status'[tx[t].run] = ABSENT
          /\ KeyHolders(tx[t].key)' = {}
    <3>1. ASSUME tx[t].pc = "inserted"
          PROVE  lockedBy'[tx[t].run] = t /\ status'[tx[t].run] = ABSENT
      <4>1. PICK r \in Runs : r = tx[t].run /\ lockedBy[r] = t /\ status[r] = ABSENT
        BY <2>1, <3>1 DEF Reserving
      <4>2. QED
        BY <4>1, HeldRunStays DEF RunStays
    <3>2. tx[t].pc = "inserted" => KeyHolders(tx[t].key)' = {}
      BY <2>1, KeyStaysUnused DEF Reserving
    <3>3. QED
      BY <3>1, <3>2
  <2>6. tx[t].pc = "race" => KeyHolders(tx[t].key)' # {}
    <3>1. PICK k : k = tx[t].key
      OBVIOUS
    <3>2. tx[t].pc = "race" => KeyHolders(k)' # {}
      BY <2>1, <3>1, RepeatsStay DEF Reserving
    <3>3. QED
      BY <1>1, <3>1, <3>2
  <2>7. tx[t].pc = "replay" => Repeats(tx[t].key, tx[t].hash)'
    <3>1. PICK k, h : k = tx[t].key /\ h = tx[t].hash
      OBVIOUS
    <3>2. tx[t].pc = "replay" => Repeats(k, h)'
      BY <2>1, <3>1, RepeatsStay DEF Reserving
    <3>3. QED
      BY <1>1, <3>1, <3>2
  <2>8. tx[t].pc = "replay" /\ tx[t].param = NoSession /\ tx[t].session \in Sessions =>
          lockedBy'[tx[t].session] = t /\ ~ Exists(tx[t].session)'
    <3>1. ASSUME tx[t].pc = "replay", tx[t].param = NoSession, tx[t].session \in Sessions
          PROVE  lockedBy'[tx[t].session] = t /\ ~ Exists(tx[t].session)'
      <4>1. PICK s \in Sessions : s = tx[t].session
        BY <3>1
      <4>2. lockedBy[s] = t /\ ~ Exists(s)
        BY <2>1, <3>1, <4>1 DEF Reserving
      <4>3. lockedBy'[s] = t /\ ~ Exists(s)'
        BY <4>2, HeldSessionStays
      <4>4. QED
        BY <1>1, <4>1, <4>3
    <3>2. QED
      BY <3>1
  <2>9. tx[t].pc \in {"key", "session", "race"} => HoldsOnly(t, {})'
    BY <1>3, <2>1 DEF Reserving
  <2>10. tx[t].pc = "key_again" => HoldsOnly(t, {tx[t].session})'
    <3>1. PICK rows : rows = {tx[t].session}
      OBVIOUS
    <3>2. tx[t].pc = "key_again" => HoldsOnly(t, rows)'
      BY <1>3, <2>1, <3>1 DEF Reserving
    <3>3. QED
      BY <1>1, <3>1, <3>2
  <2>11. Reserving(t)'
    BY <1>1, <2>1, <2>2, <2>3, <2>4, <2>5, <2>6, <2>7, <2>8, <2>9, <2>10 DEF Reserving
  <2>12. QED
    BY <1>1, <1>5, <2>11 DEF TxInv, RunOps, SessionOps
<1>6. KnowsTranscript(t) => KnowsTranscript(t)' /\ (KnowsLength(t) => KnowsLength(t)')
  BY <1>1, HeldSessionStays DEF KnowsTranscript, KnowsLength
<1>7. CASE tx[t].op \in RunOps
  <2>1. OnRun(t)
    BY <1>7 DEF TxInv
  <2>2. PICK r \in Runs : r = tx[t].run
    BY <2>1 DEF OnRun
  <2>3. status'[r] # ABSENT
    BY <2>1, <2>2 DEF OnRun, Frame
  <2>4. Validated(t) => Validated(t)' /\ NextSequence(r)' = NextSequence(r)
    BY <1>1, <2>2, HeldRunStays DEF Validated, RunStays
  <2>5. tx[t].pc = "run" => HoldsOnly(t, {})'
    BY <1>3, <2>1 DEF OnRun
  <2>6. tx[t].pc = "session" => HoldsOnly(t, {r})'
    BY <1>3, <2>1, <2>2 DEF OnRun
  <2>7. OnRun(t)'
    BY <1>1, <1>6, <2>1, <2>2, <2>3, <2>4, <2>5, <2>6 DEF OnRun
  <2>8. QED
    BY <1>1, <1>7, <2>7 DEF TxInv, RunOps, SessionOps
<1>8. CASE tx[t].op \in SessionOps
  <2>1. OnSession(t)
    BY <1>8 DEF TxInv
  <2>2. PICK s \in Sessions : s = tx[t].session
    BY <2>1 DEF OnSession
  <2>3. tx[t].pc \in {"sequence", "write"} => ActiveRuns(s)' = {}
    BY <2>1, <2>2, HeldSessionStays DEF OnSession, KnowsTranscript
  <2>4. tx[t].pc = "session" => HoldsOnly(t, {})'
    BY <1>3, <2>1 DEF OnSession
  <2>5. OnSession(t)'
    BY <1>1, <1>6, <2>1, <2>2, <2>3, <2>4 DEF OnSession
  <2>6. QED
    BY <1>1, <1>8, <2>5 DEF TxInv, RunOps, SessionOps
<1>9. CASE tx[t].op = "interrupt"
  <2>1. Interrupting(t)
    BY <1>9 DEF TxInv
  <2>2. PICK rows : rows = tx[t].rows /\ rows \in SUBSET Runs
    BY <1>2 DEF TxRow
  <2>3. \A r \in rows : lockedBy[r] = t /\ lockedBy'[r] = t /\ RunStays(r)
    BY <2>1, <2>2, HeldRunStays DEF Interrupting
  <2>4. \A w, sameWorker : rows \subseteq Matching(w, sameWorker) =>
            rows \subseteq Matching(w, sameWorker)'
    BY <2>3 DEF Matching, Active, RunStays
  <2>5. Interrupting(t)'
    BY <1>1, <2>1, <2>2, <2>3, <2>4 DEF Interrupting
  <2>6. QED
    BY <1>1, <1>9, <2>5 DEF TxInv, RunOps, SessionOps
<1>10. QED
  BY <1>2, <1>4, <1>5, <1>7, <1>8, <1>9 DEF TxRow, Op

-----------------------------------------------------------------------------
(* The steps of a transaction. *)

\* Locks are taken from nobody and given back.
LocksMove(t) ==
    /\ lockedBy' \in [Runs \cup Sessions -> Txns \cup {NoTxn}]
    /\ \A row \in Runs \cup Sessions :
          \/ lockedBy'[row] = lockedBy[row]
          \/ lockedBy[row] \in {t, NoTxn} /\ lockedBy'[row] \in {t, NoTxn}

\* What taking a lock does.
LEMMA LockIs ==
    ASSUME PgTypes, NEW t \in Txns, NEW rows \in SUBSET (Runs \cup Sessions),
           \A row \in rows : CanLock(t, row), Lock(t, rows)
    PROVE  /\ LocksMove(t)
           /\ \A row \in Runs \cup Sessions :
                 lockedBy'[row] = t <=> lockedBy[row] = t \/ row \in rows
BY DEF PgTypes, Lock, CanLock, LocksMove

\* What giving all locks back does.
LEMMA ReleaseIs ==
    ASSUME PgTypes, NEW t \in Txns, Release(t)
    PROVE  LocksMove(t) /\ HoldsOnly(t, {})'
BY NoTxnIsNotATxn DEF PgTypes, Release, LocksMove, HoldsOnly

\* A step that writes no row.
LEMMA QuietFrame ==
    ASSUME PgTypes, NEW t \in Txns, UNCHANGED storeVars, LocksMove(t),
           \A u \in Txns \ {t} : tx'[u] = tx[u]
    PROVE  Frame(t)
<1>1. UNCHANGED <<version, transcript, status, request, owner, attempts, events>>
  BY DEF storeVars, sessionVars, runVars
<1>2. \A u \in Txns \ {t} : \A row \in Runs \cup Sessions :
          lockedBy'[row] = u <=> lockedBy[row] = u
  BY NoTxnIsNotATxn DEF LocksMove, PgTypes
<1>3. QED
  BY <1>1, <1>2 DEF Frame, RunStays, Exists, Active

\* What a step of t owes to the invariant.
Good(t) ==
    /\ Frame(t)
    /\ PgTypes'
    /\ TxInv(t)'
    /\ tx'[t].pc = "inserted" /\ tx'[t].key # NoKey => Inserting(tx'[t].key) = {}

\* A connection without a transaction is a row like any other.
LEMMA IdleIsTyped == Idle \in TxRow
BY DEF Idle, TxRow, Pc, Op

\* A step that leaves the transaction.
LEMMA EndIsGood ==
    ASSUME PgTypes, NEW t \in Txns, EndTx(t), Frame(t)
    PROVE  Good(t)
<1>1. tx' = [tx EXCEPT ![t] = Idle] /\ Release(t)
  BY DEF EndTx
<1>2. PgTypes'
  BY <1>1, IdleIsTyped, ReleaseIs DEF PgTypes, LocksMove
<1>3. tx'[t] = Idle
  BY <1>1 DEF PgTypes
<1>4. Waiting(t)' /\ tx'[t].op = "none" /\ tx'[t].pc = "idle"
  BY <1>1, <1>3, ReleaseIs DEF Waiting, Idle
<1>5. TxInv(t)'
  BY <1>4 DEF TxInv, RunOps, SessionOps
<1>6. QED
  BY <1>2, <1>4, <1>5 DEF Good

\* A step that leaves the transaction and writes nothing.
LEMMA QuietEnd ==
    ASSUME PgTypes, NEW t \in Txns, EndTx(t), UNCHANGED storeVars
    PROVE  Good(t)
<1>1. LocksMove(t) /\ \A u \in Txns \ {t} : tx'[u] = tx[u]
  BY ReleaseIs DEF EndTx, PgTypes
<1>2. QED
  BY <1>1, QuietFrame, EndIsGood

\* A step that moves on inside the transaction and writes nothing.
LEMMA QuietStep ==
    ASSUME PgTypes, NEW t \in Txns, NEW x \in TxRow, tx' = [tx EXCEPT ![t] = x],
           UNCHANGED storeVars, LocksMove(t), x.pc # "inserted", TxInv(t)'
    PROVE  Good(t)
<1>1. tx'[t] = x /\ \A u \in Txns \ {t} : tx'[u] = tx[u]
  BY DEF PgTypes
<1>2. PgTypes'
  BY DEF PgTypes, LocksMove
<1>3. QED
  BY <1>1, <1>2, QuietFrame DEF Good

\* A step without a lock.
LEMMA SameLocks ==
    ASSUME PgTypes, NEW t \in Txns, lockedBy' = lockedBy
    PROVE  LocksMove(t) /\ \A rows : HoldsOnly(t, rows) <=> HoldsOnly(t, rows)'
BY DEF PgTypes, LocksMove, HoldsOnly

\* Nothing of the store has changed.
LEMMA SameStore ==
    ASSUME UNCHANGED storeVars
    PROVE  /\ UNCHANGED <<version, transcript, status, request, owner, attempts, events>>
           /\ \A s : Exists(s)' <=> Exists(s)
           /\ \A s : ActiveRuns(s)' = ActiveRuns(s)
           /\ \A k : KeyHolders(k)' = KeyHolders(k)
           /\ \A k, h : Repeats(k, h)' <=> Repeats(k, h)
           /\ \A r : NextSequence(r)' = NextSequence(r)
           /\ \A op, r, w : Permitted(op, r, w)' <=> Permitted(op, r, w)
           /\ \A w, b : Matching(w, b)' = Matching(w, b)
<1>1. UNCHANGED <<version, transcript, status, request, owner, attempts, events>>
  BY DEF storeVars, sessionVars, runVars
<1>2. /\ \A s : Exists(s)' <=> Exists(s)
      /\ \A s : ActiveRuns(s)' = ActiveRuns(s)
  BY <1>1 DEF Exists, ActiveRuns, Active
<1>3. \A k : KeyHolders(k)' = KeyHolders(k)
  BY <1>1 DEF KeyHolders
<1>4. \A k, h : Repeats(k, h)' <=> Repeats(k, h)
  BY <1>1, <1>3 DEF Repeats, Replays
<1>5. \A r : NextSequence(r)' = NextSequence(r)
  BY <1>1 DEF NextSequence
<1>6. \A op, r, w : Permitted(op, r, w)' <=> Permitted(op, r, w)
  BY <1>1 DEF Permitted, Active
<1>7. \A w, b : Matching(w, b)' = Matching(w, b)
  BY <1>1 DEF Matching, Active
<1>8. QED
  BY <1>1, <1>2, <1>3, <1>4, <1>5, <1>6, <1>7

\* Going on to another statement.
LEMMA GotoIs ==
    ASSUME PgTypes, NEW t \in Txns, NEW at \in Pc, Goto(t, at)
    PROVE  \E x \in TxRow : tx' = [tx EXCEPT ![t] = x] /\ x = [tx[t] EXCEPT !.pc = at]
<1>1. PICK x : x = [tx[t] EXCEPT !.pc = at]
  OBVIOUS
<1>2. x \in TxRow
  BY <1>1 DEF PgTypes, TxRow
<1>3. tx' = [tx EXCEPT ![t] = x]
  BY <1>1 DEF Goto, PgTypes
<1>4. QED
  BY <1>1, <1>2, <1>3

-----------------------------------------------------------------------------
(* reserve_run *)

\* A reservation starts without a lock.
LEMMA BeginReserveIsGood ==
    ASSUME PgTypes, NEW t \in Txns, TxInv(t), NEW param \in Sessions \cup {NoSession},
           NEW p \in Payloads, NEW k \in Keys \cup {NoKey}, NEW w \in Workers,
           BeginReserve(t, param, p, k, w)
    PROVE  Good(t)
<1>1. PICK x : x = [Idle EXCEPT !.pc = "key", !.op = "reserve", !.param = param, !.key = k,
                                !.hash = <<p, param>>, !.worker = w]
  OBVIOUS
<1>2. /\ x \in TxRow
      /\ x.pc = "key" /\ x.op = "reserve" /\ x.session = NoSession /\ x.worker = w
      /\ x.hash \in Payloads \X {x.param}
  BY <1>1, HashesAreRequests, IdleIsTyped, ZenonT(60) DEF TxRow, Idle, Pc, Op
<1>3. tx' = [tx EXCEPT ![t] = x] /\ tx'[t] = x /\ UNCHANGED <<storeVars, lockedBy>>
  BY <1>1 DEF BeginReserve, PgTypes
<1>4. HoldsOnly(t, {})'
  <2>1. tx[t].op = "none"
    BY DEF BeginReserve, Idle
  <2>2. HoldsOnly(t, {})
    BY <2>1 DEF TxInv, Waiting
  <2>3. QED
    BY <1>3, <2>2, SameLocks
<1>5. TxInv(t)'
  BY <1>2, <1>3, <1>4 DEF TxInv, Reserving, RunOps, SessionOps
<1>6. QED
  BY <1>2, <1>3, <1>5, SameLocks, QuietStep

\* A look-up finds the run of the key and holds it, or finds none.
LEMMA LookUpKeyIsGood ==
    ASSUME PgTypes, NEW t \in Txns, TxInv(t), LookUpKey(t)
    PROVE  Good(t)
<1>1. tx[t].op = "reserve" /\ tx[t].pc \in {"key", "key_again"} /\ UNCHANGED storeVars
  BY DEF LookUpKey, At
<1>2. Reserving(t)
  BY <1>1 DEF TxInv
<1>3. ASSUME NEW r \in KeyHolders(tx[t].key), CanLock(t, r), Lock(t, {r}),
             Goto(t, IF request[r].hash = tx[t].hash THEN "replay" ELSE "conflict")
      PROVE  Good(t)
  <2>1. PICK at \in {"replay", "conflict"} :
           Goto(t, at) /\ (at = "replay" => request[r].hash = tx[t].hash)
    BY <1>3
  <2>2. at \in Pc
    BY <2>1 DEF Pc
  <2>3. PICK x \in TxRow : tx' = [tx EXCEPT ![t] = x] /\ x = [tx[t] EXCEPT !.pc = at]
    BY <2>1, <2>2, GotoIs
  <2>4. /\ tx'[t] = x /\ x.pc = at /\ x.op = "reserve" /\ x.key = tx[t].key
        /\ x.hash = tx[t].hash /\ x.param = tx[t].param /\ x.session = tx[t].session
        /\ x.worker = tx[t].worker
    BY <1>1, <2>3 DEF PgTypes, TxRow
  <2>5. r \in Runs
    BY DEF KeyHolders
  <2>6. LocksMove(t) /\ \A row \in Runs \cup Sessions :
            lockedBy'[row] = t <=> lockedBy[row] = t \/ row \in {r}
    BY <1>3, <2>5, LockIs
  <2>7. at = "replay" => Repeats(tx[t].key, tx[t].hash)'
    <3>1. at = "replay" => Repeats(tx[t].key, tx[t].hash)
      BY <2>1, <2>5, <1>3 DEF Repeats, Replays
    <3>2. PICK k, h : k = tx[t].key /\ h = tx[t].hash
      OBVIOUS
    <3>3. at = "replay" => Repeats(k, h)'
      BY <1>1, <3>1, <3>2, SameStore
    <3>4. QED
      BY <2>4, <3>2, <3>3
  <2>8. x.param = NoSession /\ x.session \in Sessions =>
            lockedBy'[x.session] = t /\ ~ Exists(x.session)'
    BY <1>1, <1>2, <2>4, <2>6, NullsAreNotValues, SameStore DEF Reserving, KnowsSession
  <2>9. Reserving(t)'
    BY <1>2, <2>1, <2>4, <2>7, <2>8 DEF Reserving
  <2>10. TxInv(t)'
    BY <2>4, <2>9 DEF TxInv, RunOps, SessionOps
  <2>11. QED
    BY <1>1, <2>1, <2>3, <2>4, <2>6, <2>10, QuietStep
<1>4. ASSUME KeyHolders(tx[t].key) = {}, UNCHANGED lockedBy,
             Goto(t, IF tx[t].pc = "key" THEN "session" ELSE "active")
      PROVE  Good(t)
  <2>1. PICK at \in {"session", "active"} :
           Goto(t, at) /\ at = IF tx[t].pc = "key" THEN "session" ELSE "active"
    BY <1>4
  <2>2. at \in Pc
    BY <2>1 DEF Pc
  <2>3. PICK x \in TxRow : tx' = [tx EXCEPT ![t] = x] /\ x = [tx[t] EXCEPT !.pc = at]
    BY <2>1, <2>2, GotoIs
  <2>4. /\ tx'[t] = x /\ x.pc = at /\ x.op = "reserve" /\ x.key = tx[t].key
        /\ x.hash = tx[t].hash /\ x.param = tx[t].param /\ x.session = tx[t].session
        /\ x.worker = tx[t].worker
    BY <1>1, <2>3 DEF PgTypes, TxRow
  <2>5. at = "session" => HoldsOnly(t, {})'
    BY <1>1, <1>2, <1>4, <2>1, SameLocks DEF Reserving
  <2>6. at = "active" => KnowsSession(t)'
    BY <1>1, <1>2, <1>4, <2>1, <2>4, SameStore DEF Reserving, KnowsSession
  <2>7. ~ Repeats(tx[t].key, tx[t].hash)'
    <3>1. PICK k, h : k = tx[t].key /\ h = tx[t].hash
      OBVIOUS
    <3>2. ~ Repeats(k, h)
      BY <1>4, <3>1 DEF Repeats, Replays
    <3>3. ~ Repeats(k, h)'
      BY <1>1, <3>2, SameStore
    <3>4. QED
      BY <2>4, <3>1, <3>3
  <2>8. at = "session" => x.session = NoSession
    BY <1>1, <1>2, <2>1, <2>4 DEF Reserving
  <2>9. Reserving(t)'
    BY <1>2, <2>1, <2>4, <2>5, <2>6, <2>7, <2>8 DEF Reserving
  <2>10. TxInv(t)'
    BY <2>4, <2>9 DEF TxInv, RunOps, SessionOps
  <2>11. QED
    BY <1>1, <1>4, <2>1, <2>3, <2>4, <2>10, SameLocks, QuietStep
<1>5. QED
  BY <1>3, <1>4 DEF LookUpKey

\* A fresh session's row is held from its insert on.
LEMMA InsertSessionIsGood ==
    ASSUME PgTypes, NEW t \in Txns, TxInv(t), InsertSession(t)
    PROVE  Good(t)
<1>1. /\ tx[t].op = "reserve" /\ tx[t].pc = "session" /\ tx[t].param = NoSession
      /\ UNCHANGED storeVars
  BY DEF InsertSession, At
<1>2. Reserving(t)
  BY <1>1 DEF TxInv
<1>3. PICK s \in Sessions : /\ ~ Exists(s) /\ lockedBy[s] = NoTxn /\ Lock(t, {s})
                            /\ tx' = [tx EXCEPT ![t].pc = "key_again", ![t].session = s]
  BY DEF InsertSession
<1>4. PICK x : x = [tx[t] EXCEPT !.pc = "key_again", !.session = s]
  OBVIOUS
<1>5. /\ x \in TxRow /\ x.pc = "key_again" /\ x.session = s /\ x.op = "reserve"
      /\ x.hash = tx[t].hash /\ x.param = tx[t].param /\ x.worker = tx[t].worker
  <2>1. "key_again" \in Pc
    BY DEF Pc
  <2>2. PICK y \in TxRow : y = tx[t]
    BY DEF PgTypes
  <2>3. x = [y EXCEPT !.pc = "key_again", !.session = s]
    BY <1>4, <2>2
  <2>4. /\ x \in TxRow /\ x.pc = "key_again" /\ x.session = s /\ x.op = y.op
        /\ x.hash = y.hash /\ x.param = y.param /\ x.worker = y.worker
    BY <2>1, <2>3 DEF TxRow
  <2>5. QED
    BY <1>1, <2>2, <2>4
<1>6. tx' = [tx EXCEPT ![t] = x] /\ tx'[t] = x
  BY <1>3, <1>4 DEF PgTypes
<1>7. LocksMove(t) /\ \A row \in Runs \cup Sessions :
          lockedBy'[row] = t <=> lockedBy[row] = t \/ row \in {s}
  BY <1>3, LockIs DEF CanLock
<1>8. HoldsOnly(t, {s})'
  BY <1>1, <1>2, <1>7 DEF Reserving, HoldsOnly
<1>9. KnowsSession(t)'
  BY <1>1, <1>3, <1>5, <1>6, <1>7, SameStore DEF KnowsSession
<1>10. Reserving(t)'
  BY <1>2, <1>5, <1>6, <1>8, <1>9 DEF Reserving
<1>11. TxInv(t)'
  BY <1>5, <1>6, <1>10 DEF TxInv, RunOps, SessionOps
<1>12. QED
  BY <1>1, <1>5, <1>6, <1>7, <1>11, QuietStep

\* The insert of the run passed the unique constraints, or lost to its key: the
\* session's lock keeps its active runs away, so only the key can be taken.
LEMMA InsertRunIsGood ==
    ASSUME PgTypes, NEW t \in Txns, TxInv(t), InsertRun(t)
    PROVE  Good(t)
<1>1. /\ tx[t].op = "reserve" /\ tx[t].pc = "insert" /\ UNCHANGED storeVars
      /\ Inserting(tx[t].key) = {}
  BY DEF InsertRun, At, Abort
<1>2. Reserving(t) /\ KnowsSession(t) /\ ActiveRuns(tx[t].session) = {}
  BY <1>1 DEF TxInv, Reserving
<1>3. CASE KeyHolders(tx[t].key) # {} \/ ActiveRuns(tx[t].session) # {}
  <2>1. Goto(t, "race") /\ Release(t)
    BY <1>3 DEF InsertRun, Abort
  <2>2. KeyHolders(tx[t].key) # {}
    BY <1>2, <1>3
  <2>3. "race" \in Pc
    BY DEF Pc
  <2>4. PICK x \in TxRow : tx' = [tx EXCEPT ![t] = x] /\ x = [tx[t] EXCEPT !.pc = "race"]
    BY <2>1, <2>3, GotoIs
  <2>5. /\ tx'[t] = x /\ x.pc = "race" /\ x.op = "reserve" /\ x.key = tx[t].key
        /\ x.hash = tx[t].hash /\ x.param = tx[t].param /\ x.worker = tx[t].worker
    BY <1>1, <2>4 DEF PgTypes, TxRow
  <2>6. LocksMove(t) /\ HoldsOnly(t, {})'
    BY <2>1, ReleaseIs
  <2>7. KeyHolders(tx[t].key)' # {}
    <3>1. PICK k : k = tx[t].key
      OBVIOUS
    <3>2. KeyHolders(k)' # {}
      BY <1>1, <2>2, <3>1, SameStore
    <3>3. QED
      BY <2>5, <3>1, <3>2
  <2>8. Reserving(t)'
    BY <1>2, <2>5, <2>6, <2>7 DEF Reserving
  <2>9. TxInv(t)'
    BY <2>5, <2>8 DEF TxInv, RunOps, SessionOps
  <2>10. QED
    BY <1>1, <2>4, <2>5, <2>6, <2>9, QuietStep
<1>4. CASE KeyHolders(tx[t].key) = {} /\ ActiveRuns(tx[t].session) = {}
  <2>1. PICK r \in Runs : /\ status[r] = ABSENT /\ lockedBy[r] = NoTxn /\ Lock(t, {r})
                          /\ tx' = [tx EXCEPT ![t].pc = "inserted", ![t].run = r]
    BY <1>4 DEF InsertRun
  <2>2. PICK x : x = [tx[t] EXCEPT !.pc = "inserted", !.run = r]
    OBVIOUS
  <2>3. /\ x \in TxRow /\ x.pc = "inserted" /\ x.run = r /\ x.op = "reserve"
        /\ x.key = tx[t].key /\ x.hash = tx[t].hash /\ x.param = tx[t].param
        /\ x.session = tx[t].session /\ x.worker = tx[t].worker
    <3>1. "inserted" \in Pc
      BY DEF Pc
    <3>2. PICK y \in TxRow : y = tx[t]
      BY DEF PgTypes
    <3>3. x = [y EXCEPT !.pc = "inserted", !.run = r]
      BY <2>2, <3>2
    <3>4. /\ x \in TxRow /\ x.pc = "inserted" /\ x.run = r /\ x.op = y.op
          /\ x.key = y.key /\ x.hash = y.hash /\ x.param = y.param
          /\ x.session = y.session /\ x.worker = y.worker
      BY <3>1, <3>3 DEF TxRow
    <3>5. QED
      BY <1>1, <3>2, <3>4
  <2>4. tx' = [tx EXCEPT ![t] = x] /\ tx'[t] = x /\ \A u \in Txns \ {t} : tx'[u] = tx[u]
    BY <2>1, <2>2 DEF PgTypes
  <2>5. LocksMove(t) /\ \A row \in Runs \cup Sessions :
            lockedBy'[row] = t <=> lockedBy[row] = t \/ row \in {r}
    BY <2>1, LockIs DEF CanLock
  <2>6. KnowsSession(t)'
    BY <1>1, <1>2, <2>3, <2>4, <2>5, SameStore DEF KnowsSession
  <2>7. KeyHolders(tx[t].key)' = {} /\ ActiveRuns(tx[t].session)' = {}
    <3>1. PICK k, s : k = tx[t].key /\ s = tx[t].session
      OBVIOUS
    <3>2. KeyHolders(k)' = {} /\ ActiveRuns(s)' = {}
      BY <1>1, <1>4, <3>1, SameStore
    <3>3. QED
      BY <2>3, <2>4, <3>1, <3>2
  <2>8. status'[r] = ABSENT /\ lockedBy'[r] = t
    BY <1>1, <2>1, <2>5, SameStore
  <2>9. Reserving(t)'
    BY <1>2, <2>3, <2>4, <2>6, <2>7, <2>8 DEF Reserving
  <2>10. TxInv(t)'
    BY <2>3, <2>4, <2>9 DEF TxInv, RunOps, SessionOps
  <2>11. PgTypes' /\ Frame(t)
    BY <1>1, <2>3, <2>4, <2>5, QuietFrame DEF PgTypes, LocksMove
  <2>12. QED
    BY <1>1, <2>3, <2>4, <2>10, <2>11 DEF Good
<1>5. QED
  BY <1>3, <1>4

\* The reservation becomes visible: a run of a session and a key nobody else has.
LEMMA CommitReservationIsGood ==
    ASSUME StoreTypeOK, PgTypes, NEW t \in Txns, TxInv(t), CommitReservation(t)
    PROVE  Good(t)
<1>1. /\ tx[t].op = "reserve" /\ tx[t].pc = "inserted" /\ EndTx(t)
      /\ UNCHANGED <<transcript, attempts, completedAt, events, now>>
  BY DEF CommitReservation, At
<1>2. Reserving(t) /\ KnowsSession(t)
  BY <1>1 DEF TxInv, Reserving
<1>3. PICK r \in Runs, s \in Sessions : r = tx[t].run /\ s = tx[t].session
  BY <1>1, <1>2 DEF Reserving, KnowsSession
<1>4. /\ lockedBy[r] = t /\ lockedBy[s] = t /\ status[r] = ABSENT
      /\ tx[t].hash \in Payloads \X {NoSession, s}
      /\ tx[t].param # NoSession => Exists(s)
  BY <1>1, <1>2, <1>3 DEF Reserving, KnowsSession
<1>5. /\ version' = [version EXCEPT ![s] = IF tx[t].param = NoSession THEN 1 ELSE @]
      /\ status' = [status EXCEPT ![r] = PENDING]
      /\ request' = [request EXCEPT ![r] =
                       [session |-> s, key |-> tx[t].key, hash |-> tx[t].hash]]
      /\ owner' = [owner EXCEPT ![r] = tx[t].worker]
  BY <1>3 DEF CommitReservation
<1>6. /\ status'[r] = PENDING /\ request'[r].session = s
      /\ request'[r].key = tx[t].key /\ request'[r].hash = tx[t].hash
      /\ \A x \in Runs \ {r} : status'[x] = status[x] /\ request'[x] = request[x]
                               /\ owner'[x] = owner[x]
      /\ \A x \in Sessions \ {s} : version'[x] = version[x]
      /\ Exists(s)' /\ (Exists(s) => Exists(s)')
  <2>1. Exists(s)'
    BY <1>4, <1>5 DEF StoreTypeOK, Exists
  <2>2. QED
    BY <1>5, <2>1 DEF StoreTypeOK
<1>7. t \notin Txns \ {t}
  OBVIOUS
<1>8. /\ \A u \in Txns \ {t} : tx'[u] = tx[u]
      /\ \A u \in Txns \ {t} : \A row \in Runs \cup Sessions :
            lockedBy'[row] = u <=> lockedBy[row] = u
  BY <1>1, ReleaseIs, NoTxnIsNotATxn DEF EndTx, PgTypes, LocksMove
<1>9. \A x \in Runs : lockedBy[x] \in Txns \ {t} => RunStays(x)
  BY <1>1, <1>4, <1>6 DEF RunStays
<1>10. tx[t].key # NoKey => t \in Inserting(tx[t].key)
  BY <1>1 DEF Inserting
<1>11. \A x \in Sessions : Exists(x) => Exists(x)'
  BY <1>6 DEF Exists
<1>12. \A x \in Runs : status[x] # ABSENT =>
          status'[x] # ABSENT /\ request'[x] = request[x] /\ (Active(x)' => Active(x))
  BY <1>4, <1>6 DEF Active
<1>13. Frame(t)
  <2>1. \A x \in Sessions : lockedBy[x] \in Txns \ {t} =>
            version'[x] = version[x] /\ transcript'[x] = transcript[x]
    BY <1>1, <1>4, <1>6
  <2>2. ASSUME NEW x \in Runs, status[x] = ABSENT, status'[x] # ABSENT
        PROVE  /\ request'[x].session \in Sessions
               /\ version'[request'[x].session] > 0
               /\ lockedBy[request'[x].session] = t
               /\ request'[x].hash \in Payloads \X {NoSession, request'[x].session}
               /\ request'[x].key # NoKey => t \in Inserting(request'[x].key)
    <3>1. x = r
      BY <1>6, <2>2
    <3>2. request'[x].session = s /\ request'[x].key = tx[t].key /\ request'[x].hash = tx[t].hash
      BY <1>6, <3>1
    <3>3. version'[request'[x].session] > 0
      BY <1>6, <3>2 DEF Exists
    <3>4. request'[x].hash \in Payloads \X {NoSession, request'[x].session}
      BY <1>4, <3>2
    <3>5. request'[x].key # NoKey => t \in Inserting(request'[x].key)
      BY <1>10, <3>2 DEF Inserting
    <3>6. QED
      BY <1>4, <3>2, <3>3, <3>4, <3>5
  <2>3. QED
    BY <1>8, <1>9, <1>11, <1>12, <2>1, <2>2 DEF Frame
<1>14. QED
  BY <1>1, <1>13, EndIsGood

\* The block left by a replay may commit a fresh session.
LEMMA CommitReplayIsGood ==
    ASSUME StoreTypeOK, PgTypes, NEW t \in Txns, TxInv(t), CommitReplay(t)
    PROVE  Good(t)
<1>1. /\ tx[t].op = "reserve" /\ tx[t].pc = "replay" /\ EndTx(t)
      /\ UNCHANGED <<transcript, runVars, events, now>>
  BY DEF CommitReplay, At
<1>2. \A s \in Sessions :
          /\ version'[s] = version[s] \/ (lockedBy[s] = t /\ ~ Exists(s))
          /\ Exists(s) => Exists(s)'
  <2>1. Reserving(t)
    BY <1>1 DEF TxInv
  <2>2. \A s \in Sessions : version'[s] =
           IF s = tx[t].session /\ tx[t].param = NoSession THEN 1 ELSE version[s]
    BY DEF CommitReplay
  <2>3. QED
    BY <1>1, <2>1, <2>2 DEF Reserving, Exists
<1>3. /\ \A u \in Txns \ {t} : tx'[u] = tx[u]
      /\ \A u \in Txns \ {t} : \A row \in Runs \cup Sessions :
            lockedBy'[row] = u <=> lockedBy[row] = u
  BY <1>1, ReleaseIs, NoTxnIsNotATxn DEF EndTx, PgTypes, LocksMove
<1>4. UNCHANGED <<status, request, owner, attempts, events, transcript>>
  BY <1>1 DEF runVars
<1>5. Frame(t)
  BY <1>2, <1>3, <1>4 DEF Frame, RunStays, Active
<1>6. QED
  BY <1>1, <1>5, EndIsGood

\* A lost race is resolved by the key: the session's active runs are not asked.
LEMMA ResolveRaceIsGood ==
    ASSUME PgTypes, NEW t \in Txns, TxInv(t), ResolveRace(t)
    PROVE  Good(t)
<1>1. tx[t].op = "reserve" /\ tx[t].pc = "race" /\ UNCHANGED <<storeVars, lockedBy>>
  BY DEF ResolveRace, At
<1>2. Reserving(t)
  BY <1>1 DEF TxInv
<1>3. KeyHolders(tx[t].key) # {} /\ HoldsOnly(t, {})
  BY <1>1, <1>2 DEF Reserving
<1>4. CASE tx' = [tx EXCEPT ![t] = Idle]
  <2>1. tx'[t] = Idle
    BY <1>4 DEF PgTypes
  <2>2. Waiting(t)' /\ Idle.op = "none" /\ Idle.pc = "idle"
    BY <1>1, <1>3, <2>1, SameLocks DEF Waiting, Idle
  <2>3. TxInv(t)'
    BY <2>1, <2>2 DEF TxInv, RunOps, SessionOps
  <2>4. QED
    BY <1>1, <1>4, <2>2, <2>3, IdleIsTyped, SameLocks, QuietStep
<1>5. CASE Goto(t, "conflict")
  <2>1. "conflict" \in Pc
    BY DEF Pc
  <2>2. PICK x \in TxRow : tx' = [tx EXCEPT ![t] = x] /\ x = [tx[t] EXCEPT !.pc = "conflict"]
    BY <1>5, <2>1, GotoIs
  <2>3. /\ tx'[t] = x /\ x.pc = "conflict" /\ x.op = "reserve"
        /\ x.hash = tx[t].hash /\ x.param = tx[t].param /\ x.worker = tx[t].worker
    BY <1>1, <2>2 DEF PgTypes, TxRow
  <2>4. Reserving(t)'
    BY <1>2, <2>3 DEF Reserving
  <2>5. TxInv(t)'
    BY <2>3, <2>4 DEF TxInv, RunOps, SessionOps
  <2>6. QED
    BY <1>1, <2>2, <2>3, <2>5, SameLocks, QuietStep
<1>6. QED
  BY <1>3, <1>4, <1>5 DEF ResolveRace

-----------------------------------------------------------------------------
(* The other operations. *)

\* An abandoned block and a deadlock's victim write nothing.
LEMMA LeaveIsGood ==
    ASSUME PgTypes, NEW t \in Txns, Leave(t) \/ AbortVictim(t)
    PROVE  Good(t)
BY QuietEnd DEF Leave, AbortVictim, EndTx

\* An operation on a run starts without a lock.
LEMMA BeginRunOpIsGood ==
    ASSUME PgTypes, NEW t \in Txns, TxInv(t), NEW op \in RunOps, NEW r \in Runs,
           NEW w \in Workers, BeginRunOp(t, op, r, w)
    PROVE  Good(t)
<1>1. PICK x : x = [Idle EXCEPT !.pc = "run", !.op = op, !.run = r, !.worker = w]
  OBVIOUS
<1>2. x \in TxRow /\ x.pc = "run" /\ x.op = op /\ x.run = r /\ x.worker = w
  <2>1. "run" \in Pc /\ op \in Op
    BY DEF Pc, Op
  <2>2. Idle \in TxRow /\ x = [Idle EXCEPT !.pc = "run", !.op = op, !.run = r, !.worker = w]
    BY <1>1, IdleIsTyped
  <2>3. QED
    BY <2>1, <2>2 DEF TxRow
<1>3. /\ tx' = [tx EXCEPT ![t] = x] /\ tx'[t] = x /\ UNCHANGED <<storeVars, lockedBy>>
      /\ status[r] # ABSENT
  BY <1>1 DEF BeginRunOp, PgTypes
<1>4. HoldsOnly(t, {})'
  <2>1. tx[t].op = "none"
    BY DEF BeginRunOp, Idle
  <2>2. HoldsOnly(t, {})
    BY <2>1 DEF TxInv, Waiting
  <2>3. QED
    BY <1>3, <2>2, SameLocks
<1>5. status'[r] # ABSENT
  BY <1>3, SameStore
<1>6. OnRun(t)'
  BY <1>2, <1>3, <1>4, <1>5 DEF OnRun
<1>7. TxInv(t)'
  BY <1>2, <1>3, <1>6 DEF TxInv, RunOps, SessionOps
<1>8. QED
  BY <1>2, <1>3, <1>7, SameLocks, QuietStep

\* An operation on a transcript starts without a lock.
LEMMA BeginSessionOpIsGood ==
    ASSUME PgTypes, NEW t \in Txns, TxInv(t), NEW op \in SessionOps, NEW s \in Sessions,
           BeginSessionOp(t, op, s)
    PROVE  Good(t)
<1>1. PICK x : x = [Idle EXCEPT !.pc = "session", !.op = op, !.session = s]
  OBVIOUS
<1>2. x \in TxRow /\ x.pc = "session" /\ x.op = op /\ x.session = s
  <2>1. "session" \in Pc /\ op \in Op
    BY DEF Pc, Op
  <2>2. Idle \in TxRow /\ x = [Idle EXCEPT !.pc = "session", !.op = op, !.session = s]
    BY <1>1, IdleIsTyped
  <2>3. QED
    BY <2>1, <2>2 DEF TxRow
<1>3. tx' = [tx EXCEPT ![t] = x] /\ tx'[t] = x /\ UNCHANGED <<storeVars, lockedBy>>
  BY <1>1 DEF BeginSessionOp, PgTypes
<1>4. HoldsOnly(t, {})'
  <2>1. tx[t].op = "none"
    BY DEF BeginSessionOp, Idle
  <2>2. HoldsOnly(t, {})
    BY <2>1 DEF TxInv, Waiting
  <2>3. QED
    BY <1>3, <2>2, SameLocks
<1>5. OnSession(t)'
  BY <1>2, <1>3, <1>4 DEF OnSession
<1>6. TxInv(t)'
  BY <1>2, <1>3, <1>5 DEF TxInv, RunOps, SessionOps
<1>7. QED
  BY <1>2, <1>3, <1>6, SameLocks, QuietStep

\* What an operation validates under the run's lock.
LEMMA LockRunIsGood ==
    ASSUME StoreTypeOK, PgTypes, NEW t \in Txns, TxInv(t), LockRun(t)
    PROVE  Good(t)
<1>1. tx[t].op \in RunOps /\ tx[t].pc = "run" /\ UNCHANGED storeVars
  BY DEF LockRun, At
<1>2. OnRun(t)
  BY <1>1 DEF TxInv
<1>3. PICK r \in Runs, op \in RunOps, w \in Workers :
         r = tx[t].run /\ op = tx[t].op /\ w = tx[t].worker
  BY <1>1, <1>2 DEF OnRun
<1>4. PICK at \in {"refused", "session", "write", "sequence"} :
         /\ at = IF Permitted(op, r, w) THEN AfterRun(op) ELSE "refused"
         /\ at # "refused" => Permitted(op, r, w)
         /\ at = "session" => op = "commit"
         /\ at = "write" => op = "attempt"
         /\ at = "sequence" => op # "commit"
  <2>1. /\ op = "commit" => AfterRun(op) = "session"
        /\ op = "attempt" => AfterRun(op) = "write"
        /\ op # "commit" /\ op # "attempt" => AfterRun(op) = "sequence"
    BY DEF AfterRun
  <2>2. QED
    BY <2>1
<1>5. PICK x : x = [tx[t] EXCEPT !.attempts = attempts[r], !.session = request[r].session,
                                 !.pc = at]
  OBVIOUS
<1>6. /\ CanLock(t, r) /\ Lock(t, {r}) /\ tx' = [tx EXCEPT ![t] = x]
      /\ op = "attempt" => attempts[r] < MaxAttempts
      /\ op = "delta" => NextSequence(r) <= MaxDeltas
  BY <1>3, <1>4, <1>5 DEF LockRun, PgTypes
<1>7. /\ x \in TxRow /\ x.pc = at /\ x.op = op /\ x.run = r /\ x.worker = w
      /\ x.session = request[r].session /\ x.attempts = attempts[r]
  <2>1. at \in Pc
    <3>1. "refused" \in Pc /\ "session" \in Pc /\ "write" \in Pc /\ "sequence" \in Pc
      BY DEF Pc
    <3>2. QED
      BY <1>4, <3>1
  <2>2. attempts[r] \in Nat
    BY BoundsAreNaturals DEF StoreTypeOK
  <2>3. request[r].session \in Sessions \cup {NoSession}
    BY DEF StoreTypeOK, Request, NoRequest
  <2>4. PICK a \in Nat, s \in Sessions \cup {NoSession}, y \in TxRow :
           a = attempts[r] /\ s = request[r].session /\ y = tx[t]
    BY <2>2, <2>3 DEF PgTypes
  <2>5. x = [y EXCEPT !.attempts = a, !.session = s, !.pc = at]
    BY <1>5, <2>4
  <2>6. /\ x \in TxRow /\ x.pc = at /\ x.op = y.op /\ x.run = y.run /\ x.worker = y.worker
        /\ x.session = s /\ x.attempts = a
    BY <2>1, <2>4, <2>5 DEF TxRow
  <2>7. QED
    BY <1>3, <2>4, <2>6
<1>8. tx'[t] = x
  BY <1>6 DEF PgTypes
<1>9. LocksMove(t) /\ \A row \in Runs \cup Sessions :
          lockedBy'[row] = t <=> lockedBy[row] = t \/ row \in {r}
  BY <1>6, LockIs
<1>10. HoldsOnly(t, {r})'
  BY <1>1, <1>2, <1>9 DEF OnRun, HoldsOnly
<1>11. status'[r] # ABSENT
  BY <1>1, <1>2, <1>3, SameStore DEF OnRun
<1>12. at # "refused" => Validated(t)'
  <2>1. lockedBy'[r] = t
    BY <1>9
  <2>2. Permitted(op, r, w)' <=> Permitted(op, r, w)
    BY <1>1, SameStore
  <2>3. request'[r] = request[r] /\ attempts'[r] = attempts[r]
        /\ NextSequence(r)' = NextSequence(r)
    BY <1>1, SameStore
  <2>4. QED
    BY <1>4, <1>6, <1>7, <1>8, <2>1, <2>2, <2>3 DEF Validated
<1>13. OnRun(t)'
  BY <1>4, <1>7, <1>8, <1>10, <1>11, <1>12 DEF OnRun
<1>14. TxInv(t)'
  BY <1>7, <1>8, <1>13 DEF TxInv, RunOps, SessionOps
<1>15. QED
  BY <1>1, <1>4, <1>6, <1>7, <1>9, <1>14, QuietStep

\* What the next statements may rely on once the session is locked.
LEMMA LockSessionIsGood ==
    ASSUME StoreTypeOK, PgTypes, NEW t \in Txns, TxInv(t), LockSession(t)
    PROVE  Good(t)
<1>1. /\ tx[t].op \in {"reserve", "commit"} \cup SessionOps /\ tx[t].pc = "session"
      /\ Wanted(t) # NoSession /\ UNCHANGED storeVars
  BY DEF LockSession, At
<1>2. PICK s \in Sessions, op \in Op : s = Wanted(t) /\ op = tx[t].op
  BY <1>1 DEF Wanted, PgTypes, TxRow
<1>3. /\ op = "reserve" => Reserving(t) /\ s = tx[t].param
      /\ op = "commit" => OnRun(t) /\ s = tx[t].session
      /\ op \in SessionOps => OnSession(t) /\ s = tx[t].session
      /\ op \in {"reserve", "commit"} \cup SessionOps
  BY <1>1, <1>2 DEF TxInv, RunOps, SessionOps, Wanted
<1>4. CASE ~ Exists(s) /\ Goto(t, "not_found") /\ UNCHANGED lockedBy
  <2>1. "not_found" \in Pc
    BY DEF Pc
  <2>2. PICK x \in TxRow : /\ tx' = [tx EXCEPT ![t] = x]
                           /\ x = [tx[t] EXCEPT !.pc = "not_found"]
    BY <1>4, <2>1, GotoIs
  <2>3. /\ tx'[t] = x /\ x.pc = "not_found" /\ x.op = op /\ x.run = tx[t].run
        /\ x.hash = tx[t].hash /\ x.param = tx[t].param /\ x.worker = tx[t].worker
        /\ x.session = tx[t].session
    BY <1>2, <2>2 DEF PgTypes, TxRow
  <2>4. op = "reserve" => Reserving(t)'
    BY <1>3, <2>3 DEF Reserving
  <2>5. op = "commit" => OnRun(t)'
    <3>1. \A r : status[r] # ABSENT => status'[r] # ABSENT
      BY <1>1, SameStore
    <3>2. QED
      BY <1>3, <2>3, <3>1 DEF OnRun
  <2>6. op \in SessionOps => OnSession(t)'
    BY <1>3, <2>3 DEF OnSession
  <2>7. TxInv(t)'
    BY <1>3, <2>3, <2>4, <2>5, <2>6 DEF TxInv, RunOps, SessionOps
  <2>8. QED
    BY <1>1, <1>4, <2>2, <2>3, <2>7, SameLocks, QuietStep
<1>5. CASE /\ Exists(s) /\ CanLock(t, s) /\ Lock(t, {s})
           /\ op # "reserve" => version[s] < MaxVersion
           /\ tx' = [tx EXCEPT ![t].session = s, ![t].version = version[s],
                               ![t].pc = AfterSession(op)]
  <2>1. PICK at, v : /\ at = AfterSession(op) /\ v = version[s]
                     /\ at \in {"key_again", "sequence", "active"} /\ v \in Nat
                     /\ at = "key_again" <=> op = "reserve"
                     /\ at = "sequence" <=> op = "commit"
    <3>1. /\ op = "reserve" => AfterSession(op) = "key_again"
          /\ op = "commit" => AfterSession(op) = "sequence"
          /\ op # "reserve" /\ op # "commit" => AfterSession(op) = "active"
      BY DEF AfterSession
    <3>2. /\ AfterSession(op) \in {"key_again", "sequence", "active"}
          /\ AfterSession(op) = "key_again" <=> op = "reserve"
          /\ AfterSession(op) = "sequence" <=> op = "commit"
      BY <3>1
    <3>3. version[s] \in Nat
      BY BoundsAreNaturals DEF StoreTypeOK
    <3>4. QED
      BY <3>2, <3>3
  <2>2. PICK y, x : /\ y = tx[t] /\ y \in TxRow
                    /\ x = [y EXCEPT !.session = s, !.version = v, !.pc = at]
    BY DEF PgTypes
  <2>3. /\ x \in TxRow /\ x.pc = at /\ x.op = y.op /\ x.run = y.run /\ x.worker = y.worker
        /\ x.session = s /\ x.version = v /\ x.hash = y.hash /\ x.param = y.param
        /\ x.key = y.key
    <3>1. "key_again" \in Pc /\ "sequence" \in Pc /\ "active" \in Pc
      BY DEF Pc
    <3>2. at \in Pc
      BY <2>1, <3>1
    <3>3. QED
      BY <2>1, <2>2, <3>2 DEF TxRow
  <2>4. tx' = [tx EXCEPT ![t] = x] /\ tx'[t] = x
    BY <1>5, <2>1, <2>2 DEF PgTypes
  <2>5. LocksMove(t) /\ \A row \in Runs \cup Sessions :
            lockedBy'[row] = t <=> lockedBy[row] = t \/ row \in {s}
    BY <1>5, LockIs
  <2>6. Exists(s)' /\ version'[s] = version[s]
    BY <1>1, <1>5, SameStore
  <2>7. op = "reserve" => Reserving(t)'
    <3>1. ASSUME op = "reserve"
          PROVE  Reserving(t)'
      <4>1. HoldsOnly(t, {s})'
        BY <1>1, <1>3, <2>5, <3>1 DEF Reserving, HoldsOnly
      <4>2. KnowsSession(t)'
        <5>1. x.param = s /\ s # NoSession
          BY <1>2, <1>3, <2>2, <2>3, <3>1, NullsAreNotValues
        <5>2. QED
          BY <2>3, <2>4, <2>5, <2>6, <5>1 DEF KnowsSession
      <4>3. QED
        BY <1>3, <2>1, <2>2, <2>3, <2>4, <3>1, <4>1, <4>2 DEF Reserving
    <3>2. QED
      BY <3>1
  <2>8. op # "reserve" => KnowsTranscript(t)'
    BY <1>5, <2>1, <2>3, <2>4, <2>5, <2>6 DEF KnowsTranscript
  <2>9. op = "commit" => OnRun(t)'
    <3>1. ASSUME op = "commit"
          PROVE  OnRun(t)'
      <4>1. PICK r \in Runs : r = tx[t].run /\ Validated(t) /\ status[r] # ABSENT
        BY <1>1, <1>3, <3>1 DEF OnRun
      <4>2. status'[r] # ABSENT /\ request'[r] = request[r]
        BY <1>1, <4>1, SameStore
      <4>3. Permitted(op, r, tx[t].worker)'
        <5>1. PICK w : w = tx[t].worker
          OBVIOUS
        <5>2. Permitted(op, r, w)'
          BY <1>1, <1>2, <4>1, <5>1, SameStore DEF Validated
        <5>3. QED
          BY <2>2, <2>3, <2>4, <5>1, <5>2
      <4>4. Validated(t)'
        BY <1>2, <1>3, <2>2, <2>3, <2>4, <2>5, <3>1, <4>1, <4>2, <4>3 DEF Validated
      <4>5. QED
        BY <1>3, <2>1, <2>2, <2>3, <2>4, <2>8, <3>1, <4>1, <4>2, <4>4 DEF OnRun
    <3>2. QED
      BY <3>1
  <2>10. op \in SessionOps => OnSession(t)'
    BY <1>3, <2>1, <2>3, <2>4, <2>8 DEF OnSession, SessionOps
  <2>11. TxInv(t)'
    BY <1>2, <1>3, <2>2, <2>3, <2>4, <2>7, <2>9, <2>10 DEF TxInv, RunOps, SessionOps
  <2>12. QED
    BY <1>1, <2>1, <2>3, <2>4, <2>5, <2>11, QuietStep
<1>6. QED
  BY <1>2, <1>4, <1>5 DEF LockSession

\* The kinds of operations are different.
LEMMA SessionOpsAreNotReserve == "reserve" \notin SessionOps /\ "reserve" \notin RunOps
BY DEF SessionOps, RunOps

\* The session's lock keeps the answer to the query true.
LEMMA QueryActiveIsGood ==
    ASSUME PgTypes, NEW t \in Txns, TxInv(t), QueryActive(t)
    PROVE  Good(t)
<1>1. /\ tx[t].op \in {"reserve"} \cup SessionOps /\ tx[t].pc = "active"
      /\ UNCHANGED <<storeVars, lockedBy>>
  BY DEF QueryActive, At
<1>2. PICK op \in Op : op = tx[t].op
  BY DEF PgTypes, TxRow
<1>3. /\ op = "reserve" => Reserving(t) /\ KnowsSession(t)
      /\ op \in SessionOps => OnSession(t) /\ KnowsTranscript(t)
      /\ op \in {"reserve"} \cup SessionOps
  BY <1>1, <1>2 DEF TxInv, RunOps, SessionOps, Reserving, OnSession
<1>4. PICK s \in Sessions : s = tx[t].session
  BY <1>3 DEF KnowsSession, KnowsTranscript
<1>5. PICK at \in {"busy", "insert", "sequence"} :
         /\ Goto(t, at)
         /\ at # "busy" => ActiveRuns(s) = {}
         /\ at = "insert" => op = "reserve"
         /\ at = "sequence" => op \in SessionOps
  BY <1>2, <1>3, <1>4 DEF QueryActive
<1>6. at \in Pc
  <2>1. "busy" \in Pc /\ "insert" \in Pc /\ "sequence" \in Pc
    BY DEF Pc
  <2>2. QED
    BY <1>5, <2>1
<1>7. PICK x \in TxRow : tx' = [tx EXCEPT ![t] = x] /\ x = [tx[t] EXCEPT !.pc = at]
  BY <1>5, <1>6, GotoIs
<1>8. /\ tx'[t] = x /\ x.pc = at /\ x.op = op /\ x.run = tx[t].run
      /\ x.hash = tx[t].hash /\ x.param = tx[t].param /\ x.worker = tx[t].worker
      /\ x.session = s /\ x.version = tx[t].version
  BY <1>2, <1>4, <1>7 DEF PgTypes, TxRow
<1>9. /\ lockedBy'[s] = lockedBy[s] /\ version'[s] = version[s]
      /\ Exists(s)' <=> Exists(s)
      /\ ActiveRuns(s)' = ActiveRuns(s)
  BY <1>1, SameStore
<1>10. op = "reserve" => Reserving(t)'
  <2>1. op = "reserve" => KnowsSession(t)'
    BY <1>3, <1>4, <1>8, <1>9 DEF KnowsSession
  <2>2. op = "reserve" /\ at = "insert" => ActiveRuns(tx[t].session)' = {}
    BY <1>5, <1>8, <1>9
  <2>3. QED
    BY <1>3, <1>5, <1>8, <2>1, <2>2, SessionOpsAreNotReserve DEF Reserving
<1>11. op \in SessionOps => OnSession(t)'
  <2>1. op \in SessionOps => KnowsTranscript(t)'
    BY <1>3, <1>4, <1>8, <1>9 DEF KnowsTranscript
  <2>2. op \in SessionOps /\ at = "sequence" => ActiveRuns(tx[t].session)' = {}
    BY <1>5, <1>8, <1>9
  <2>3. QED
    BY <1>3, <1>5, <1>8, <2>1, <2>2, SessionOpsAreNotReserve DEF OnSession
<1>12. TxInv(t)'
  BY <1>3, <1>8, <1>10, <1>11 DEF TxInv, RunOps, SessionOps
<1>13. QED
  BY <1>1, <1>5, <1>7, <1>8, <1>12, SameLocks, QuietStep

\* What is computed from the rows under their locks is what the flush will find.
LEMMA ReadSequencesIsGood ==
    ASSUME StoreTypeOK, PgTypes, NEW t \in Txns, TxInv(t), ReadSequences(t)
    PROVE  Good(t)
<1>1. /\ tx[t].op \in RunOps \cup SessionOps /\ tx[t].pc = "sequence"
      /\ UNCHANGED <<storeVars, lockedBy>>
  BY DEF ReadSequences, At
<1>2. PICK op \in Op : op = tx[t].op
  BY DEF PgTypes, TxRow
<1>3. /\ op \in RunOps => OnRun(t) /\ Validated(t)
      /\ op \in SessionOps => OnSession(t) /\ KnowsTranscript(t)
      /\ op = "commit" => KnowsTranscript(t)
      /\ op \in RunOps \cup SessionOps
  BY <1>1, <1>2 DEF TxInv, RunOps, OnRun, OnSession
<1>4. PICK y, r, s : y = tx[t] /\ y \in TxRow /\ r = y.run /\ s = y.session
  BY DEF PgTypes
<1>5. op \in RunOps => r \in Runs
  BY <1>3, <1>4 DEF OnRun
<1>6. op \in {"commit", "append"} => s \in Sessions
  BY <1>3, <1>4 DEF KnowsTranscript, SessionOps
<1>7. PICK n \in Nat, q \in Nat :
         /\ n = IF op \in {"commit", "append"} THEN Len(transcript[s]) ELSE 0
         /\ q = IF op \in RunOps THEN NextSequence(r) ELSE 0
  <2>1. op \in {"commit", "append"} => Len(transcript[s]) \in Nat
    BY <1>6 DEF StoreTypeOK
  <2>2. op \in RunOps => NextSequence(r) \in Nat
    BY <1>5, NextSequenceIsFresh
  <2>3. QED
    BY <2>1, <2>2
<1>8. PICK x : x = [y EXCEPT !.length = n, !.sequence = q, !.pc = "write"]
  OBVIOUS
<1>9. /\ x \in TxRow /\ x.pc = "write" /\ x.op = y.op /\ x.run = y.run /\ x.worker = y.worker
      /\ x.session = y.session /\ x.version = y.version /\ x.attempts = y.attempts
      /\ x.length = n /\ x.sequence = q
  <2>1. "write" \in Pc
    BY DEF Pc
  <2>2. n \in Nat /\ q \in Nat /\ y \in TxRow
    BY <1>4, <1>7
  <2>3. QED
    BY <1>8, <2>1, <2>2 DEF TxRow
<1>10. tx' = [tx EXCEPT ![t] = x]
  <2>1. tx' = [tx EXCEPT ![t].length = n, ![t].sequence = q, ![t].pc = "write"]
    BY <1>2, <1>4, <1>7 DEF ReadSequences
  <2>2. QED
    BY <1>4, <1>8, <2>1 DEF PgTypes
<1>11. tx'[t] = x
  BY <1>10 DEF PgTypes
<1>12. UNCHANGED <<version, transcript, status, request, attempts, lockedBy>>
  BY <1>1, SameStore
<1>13. op = "commit" \/ op \in SessionOps => KnowsTranscript(t)'
  BY <1>3, <1>4, <1>9, <1>11, <1>12 DEF KnowsTranscript, Exists
<1>14. op \in RunOps => OnRun(t)'
  <2>1. ASSUME op \in RunOps
        PROVE  OnRun(t)'
    <3>1. Permitted(op, r, tx[t].worker)'
      <4>1. PICK w : w = tx[t].worker
        OBVIOUS
      <4>2. Permitted(op, r, w)'
        BY <1>1, <1>2, <1>3, <1>4, <2>1, <4>1, SameStore DEF Validated
      <4>3. QED
        BY <1>4, <1>9, <1>11, <4>1, <4>2
    <3>2. NextSequence(r)' = NextSequence(r)
      BY <1>1, SameStore
    <3>3. Validated(t)'
      BY <1>2, <1>3, <1>4, <1>9, <1>11, <1>12, <2>1, <3>1, <3>2 DEF Validated
    <3>4. op = "commit" => KnowsLength(t)'
      BY <1>4, <1>7, <1>9, <1>11, <1>12 DEF KnowsLength
    <3>5. QED
      BY <1>2, <1>3, <1>4, <1>5, <1>7, <1>9, <1>11, <1>12, <1>13, <2>1, <3>2, <3>3, <3>4
         DEF OnRun
  <2>2. QED
    BY <2>1
<1>15. op \in SessionOps => OnSession(t)'
  <2>1. ASSUME op \in SessionOps
        PROVE  OnSession(t)'
    <3>1. op = "append" => KnowsLength(t)'
      BY <1>4, <1>7, <1>9, <1>11, <1>12 DEF KnowsLength
    <3>2. ActiveRuns(tx[t].session)' = {}
      <4>1. ActiveRuns(s) = {}
        BY <1>1, <1>3, <1>4, <2>1 DEF OnSession
      <4>2. ActiveRuns(s)' = {}
        BY <1>1, <4>1, SameStore
      <4>3. QED
        BY <1>4, <1>9, <1>11, <4>2
    <3>3. QED
      BY <1>2, <1>3, <1>4, <1>9, <1>11, <1>13, <2>1, <3>1, <3>2 DEF OnSession
  <2>2. QED
    BY <2>1
<1>16. TxInv(t)'
  BY <1>2, <1>3, <1>4, <1>9, <1>11, <1>14, <1>15 DEF TxInv, RunOps, SessionOps
<1>17. QED
  BY <1>1, <1>9, <1>10, <1>16, SameLocks, QuietStep

\* The rows a shutdown or start-up selects are nobody else's.
LEMMA SelectMatchingIsGood ==
    ASSUME PgTypes, NEW t \in Txns, NEW w \in Workers, NEW sameWorker \in BOOLEAN,
           SelectMatching(t, w, sameWorker)
    PROVE  Good(t)
<1>1. PICK rows \in SUBSET Runs : rows = {r \in Matching(w, sameWorker) : lockedBy[r] = NoTxn}
  BY DEF Matching
<1>2. PICK x : x = [Idle EXCEPT !.pc = "write", !.op = "interrupt", !.rows = rows]
  OBVIOUS
<1>3. x \in TxRow /\ x.pc = "write" /\ x.op = "interrupt" /\ x.rows = rows
  <2>1. "write" \in Pc /\ "interrupt" \in Op
    BY DEF Pc, Op
  <2>2. QED
    BY <1>2, <2>1, IdleIsTyped DEF TxRow
<1>4. /\ Lock(t, rows) /\ tx' = [tx EXCEPT ![t] = x] /\ tx'[t] = x /\ UNCHANGED storeVars
  BY <1>1, <1>2 DEF SelectMatching, PgTypes
<1>5. LocksMove(t) /\ \A row \in Runs \cup Sessions :
          lockedBy'[row] = t <=> lockedBy[row] = t \/ row \in rows
  BY <1>1, <1>4, LockIs DEF CanLock
<1>6. Interrupting(t)'
  <2>1. rows \subseteq Matching(w, sameWorker)'
    BY <1>1, <1>4, SameStore
  <2>2. QED
    BY <1>3, <1>4, <1>5, <2>1 DEF Interrupting
<1>7. TxInv(t)'
  BY <1>3, <1>4, <1>6 DEF TxInv, RunOps, SessionOps
<1>8. QED
  BY <1>3, <1>4, <1>5, <1>7, QuietStep

\* create_session writes the row of a session nobody holds.
LEMMA InsertNewSessionFrame ==
    ASSUME PgTypes, InsertNewSession
    PROVE  Frame(NoTxn)
<1>1. PICK s \in Sessions : /\ lockedBy[s] = NoTxn /\ CreateSession(s)
                            /\ UNCHANGED <<tx, lockedBy>>
  BY DEF InsertNewSession
<1>2. /\ version' = [version EXCEPT ![s] = 1]
      /\ UNCHANGED <<transcript, status, request, owner, attempts, events>>
  BY <1>1 DEF CreateSession, runVars
<1>3. \A x \in Sessions : Exists(x) => Exists(x)'
  BY <1>1, <1>2 DEF CreateSession, Exists
<1>4. \A x \in Sessions : lockedBy[x] \in Txns => version'[x] = version[x]
  BY <1>1, <1>2, NoTxnIsNotATxn
<1>5. QED
  BY <1>1, <1>2, <1>3, <1>4 DEF Frame, RunStays, Active

-----------------------------------------------------------------------------
(* The flush of an operation is the atomic operation. *)

\* The next sequence is the successor of one that was used.
LEMMA NextSequenceFollows ==
    ASSUME StoreTypeOK, NEW r \in Runs, NEW n \in Nat, \A e \in events[r] : e.sequence <= n
    PROVE  NextSequence(r) <= n + 1
<1> DEFINE Used == {0} \cup {e.sequence : e \in events[r]}
<1>1. MaxEvents \in Nat
  BY BoundsAreNaturals DEF MaxEvents
<1>2. \A e \in events[r] : e.sequence \in 1 .. MaxEvents
  BY DEF StoreTypeOK, StreamEvent
<1>3. Used \in SUBSET (0 .. MaxEvents) /\ Used # {}
  BY <1>1, <1>2
<1>4. Max(Used) \in Used
  BY <1>1, <1>3, MaxOfBounded, Zenon
<1>5. NextSequence(r) = Max(Used) + 1
  BY DEF NextSequence
<1>6. PICK m : m = Max(Used)
  OBVIOUS
<1>7. m \in Nat /\ m <= n
  <2>1. \A x \in Used : x \in Nat /\ x <= n
    BY <1>1, <1>2
  <2>2. QED
    BY <1>4, <1>6, <2>1, Zenon
<1> HIDE DEF Used
<1>8. QED
  BY <1>5, <1>6, <1>7

\* An active run's log has room for the next event.
LEMMA RoomForEvents ==
    ASSUME StoreTypeOK, LogsLeaveRoom, NEW r \in Runs, Active(r)
    PROVE  /\ NextSequence(r) <= MaxEvents
           /\ status[r] = PENDING => NextSequence(r) <= MaxDeltas + 1
<1>1. MaxDeltas \in Nat /\ NextSequence(r) \in Nat
  BY BoundsAreNaturals, NextSequenceIsFresh
<1>2. status[r] = PENDING => NextSequence(r) <= MaxDeltas + 1
  BY <1>1, NextSequenceFollows DEF LogsLeaveRoom
<1>3. status[r] = RUNNING => NextSequence(r) <= (MaxDeltas + 1) + 1
  BY <1>1, NextSequenceFollows DEF LogsLeaveRoom
<1>4. QED
  BY <1>1, <1>2, <1>3 DEF Active, ACTIVE_RUN_STATUSES, MaxEvents

\* No flush meets a row with the sequence it computed.
LEMMA SequencesAreFree ==
    ASSUME StoreTypeOK, PgTypes, NEW t \in Txns, TxInv(t), Write(t)
    PROVE  ~ Duplicate(t)
<1>1. tx[t].op \in RunOps \cup SessionOps /\ tx[t].pc = "write"
  BY DEF Write, At
<1>2. CASE tx[t].op \in RunOps \ {"attempt"} /\ \E e \in events[tx[t].run] : e.sequence = tx[t].sequence
  <2>1. PICK r \in Runs : r = tx[t].run /\ tx[t].sequence = NextSequence(r)
    BY <1>1, <1>2 DEF TxInv, OnRun
  <2>2. PICK e \in events[r] : e.sequence = NextSequence(r)
    BY <1>2, <2>1
  <2>3. e.sequence < NextSequence(r) /\ NextSequence(r) \in Nat
    BY NextSequenceIsFresh
  <2>4. QED
    BY <2>2, <2>3
<1>3. CASE tx[t].op \in {"commit", "append"} /\ Len(transcript[tx[t].session]) > tx[t].length
  <2>1. KnowsLength(t) /\ tx[t].length \in Nat
    <3>1. tx[t].length \in Nat
      BY DEF PgTypes, TxRow
    <3>2. tx[t].op = "commit" => KnowsLength(t)
      BY <1>1 DEF TxInv, OnRun, RunOps
    <3>3. tx[t].op = "append" => KnowsLength(t)
      BY <1>1 DEF TxInv, OnSession, SessionOps
    <3>4. QED
      BY <1>3, <3>1, <3>2, <3>3
  <2>2. QED
    BY <1>3, <2>1 DEF KnowsLength
<1>4. QED
  BY <1>2, <1>3 DEF Duplicate

\* An operation on a run, seen from the committed rows.
LEMMA RunWrites ==
    ASSUME StoreTypeOK, PgTypes, LogsLeaveRoom, NEW t \in Txns, TxInv(t), Write(t),
           NEW r \in Runs, NEW w \in Workers, NEW op \in RunOps,
           r = tx[t].run, w = tx[t].worker, op = tx[t].op
    PROVE  \/ MarkRunRunning(r, w) \/ CancelRun(r, w) \/ FailRun(r) \/ IncrementRunAttempt(r)
           \/ AppendStreamEvent(r, RESPONSE_DELTA)
           \/ CommitRunSuccess(r) /\ lockedBy[request[r].session] = t
<1>1. OnRun(t) /\ tx[t].pc = "write"
  BY DEF TxInv, Write, At
<1>2. Validated(t) /\ Permitted(op, r, w) /\ status[r] # ABSENT
  BY <1>1 DEF OnRun, Validated
<1>3. WriteTranscript(t) /\ WriteRun(t) /\ UNCHANGED <<request, now>>
  BY SequencesAreFree DEF Write
<1>4. op # "attempt" => tx[t].sequence = NextSequence(r)
  BY <1>1 DEF OnRun
<1>5. Active(r) => NextSequence(r) <= MaxEvents
  BY RoomForEvents
<1>6. op # "commit" => UNCHANGED sessionVars
  BY <1>3 DEF WriteTranscript, RunOps, SessionOps, sessionVars
<1>7. CASE op = "mark"
  <2>1. ValidRunTransition(status[r], RUNNING) /\ Active(r)
    BY <1>2, <1>7, TransitionsLeaveActive DEF Permitted, Target, Active
  <2>2. \A stamp : EventOf(t, stamp) = AppendedEvent(r, RUN_STARTED, stamp)
    BY <1>4, <1>7 DEF EventOf, AppendedEvent
  <2>3. /\ status' = [status EXCEPT ![r] = RUNNING]
        /\ owner' = [owner EXCEPT ![r] = w]
        /\ \E stamp \in Timestamps : events' = [events EXCEPT ![r] = @ \cup {EventOf(t, stamp)}]
        /\ UNCHANGED <<completedAt, attempts>>
    BY <1>3, <1>7 DEF WriteRun, Target, SessionOps
  <2>4. MarkRunRunning(r, w)
    BY <1>3, <1>5, <1>6, <1>7, <2>1, <2>2, <2>3 DEF MarkRunRunning, Publish
  <2>5. QED
    BY <2>4
<1>8. CASE op = "attempt"
  <2>1. status[r] = RUNNING \/ ValidRunTransition(status[r], RUNNING)
    BY <1>2, <1>8 DEF Permitted
  <2>2. /\ attempts' = [attempts EXCEPT ![r] = tx[t].attempts + 1]
        /\ UNCHANGED <<status, owner, completedAt, events>>
    BY <1>3, <1>8 DEF WriteRun, SessionOps
  <2>3. tx[t].attempts = attempts[r] /\ attempts[r] < MaxAttempts
    BY <1>2, <1>8 DEF Validated
  <2>4. IncrementRunAttempt(r)
    BY <1>3, <1>6, <1>8, <2>1, <2>2, <2>3 DEF IncrementRunAttempt
  <2>5. QED
    BY <2>4
<1>9. CASE op = "delta"
  <2>1. NextSequence(r) <= MaxDeltas /\ NextSequence(r) <= MaxEvents
    <3>1. NextSequence(r) <= MaxDeltas
      BY <1>2, <1>9 DEF Validated
    <3>2. QED
      BY <3>1, NextSequenceIsFresh, BoundsAreNaturals DEF MaxEvents
  <2>2. \A stamp : EventOf(t, stamp) = AppendedEvent(r, RESPONSE_DELTA, stamp)
    BY <1>4, <1>9 DEF EventOf, AppendedEvent
  <2>3. /\ \E stamp \in Timestamps : events' = [events EXCEPT ![r] = @ \cup {EventOf(t, stamp)}]
        /\ UNCHANGED <<status, owner, completedAt, attempts>>
    BY <1>3, <1>9 DEF WriteRun, SessionOps
  <2>4. AppendStreamEvent(r, RESPONSE_DELTA)
    BY <1>2, <1>3, <1>6, <1>9, <2>1, <2>2, <2>3 DEF AppendStreamEvent, Publish, runVars
  <2>5. QED
    BY <2>4
<1>10. CASE op \in {"commit", "fail", "cancel"}
  <2>1. PICK target \in {COMPLETED, FAILED, CANCELLED} :
           /\ target = Target(op)
           /\ op = "commit" => target = COMPLETED
           /\ op = "fail" => target = FAILED
           /\ op = "cancel" => target = CANCELLED
    BY <1>10 DEF Target
  <2>2. Active(r) /\ ValidRunTransition(status[r], target) /\ (op = "cancel" => owner[r] = w)
    <3>1. op # "cancel" => ValidRunTransition(status[r], target)
      BY <1>2, <1>10, <2>1 DEF Permitted
    <3>2. op = "cancel" => Active(r) /\ owner[r] = w
      BY <1>2 DEF Permitted
    <3>3. Active(r) => ValidRunTransition(status[r], CANCELLED)
      BY DEF Active, ValidRunTransition, ALLOWED_RUN_TRANSITIONS, ACTIVE_RUN_STATUSES
    <3>4. QED
      BY <2>1, <3>1, <3>2, <3>3, TransitionsLeaveActive DEF Active
  <2>3. \A stamp : EventOf(t, stamp) = AppendedEvent(r, AnnouncedBy(target), stamp)
    BY <1>4, <1>10, <2>1 DEF EventOf, AppendedEvent
  <2>4. /\ status' = [status EXCEPT ![r] = target]
        /\ \E done \in Timestamps : completedAt' = [completedAt EXCEPT ![r] = done]
        /\ \E stamp \in Timestamps : events' = [events EXCEPT ![r] = @ \cup {EventOf(t, stamp)}]
        /\ UNCHANGED <<owner, attempts>>
    BY <1>3, <1>10, <2>1 DEF WriteRun, SessionOps
  <2>5. Finish(r, target)
    BY <1>3, <1>5, <2>2, <2>3, <2>4 DEF Finish, Publish
  <2>6. CASE op = "commit"
    <3>1. KnowsTranscript(t)
      BY <1>1, <2>6 DEF OnRun
    <3>2. PICK s \in Sessions : s = request[r].session /\ s = tx[t].session
      BY <1>2, <3>1 DEF Validated, KnowsTranscript
    <3>3. lockedBy[s] = t /\ tx[t].version = version[s] /\ version[s] < MaxVersion
      BY <3>1, <3>2 DEF KnowsTranscript
    <3>4. /\ version' = [version EXCEPT ![s] = @ + 1]
          /\ transcript' = [transcript EXCEPT ![s] =
               @ \o <<[role |-> "user", run |-> r], [role |-> "assistant", run |-> r]>>]
      <4>1. Added(t) = <<[role |-> "user", run |-> r], [role |-> "assistant", run |-> r]>>
        BY <2>6 DEF Added
      <4>2. QED
        BY <1>3, <2>6, <3>2, <3>3, <4>1 DEF WriteTranscript, StoreTypeOK
    <3>5. CommitRunSuccess(r)
      BY <2>1, <2>5, <2>6, <3>2, <3>3, <3>4 DEF CommitRunSuccess
    <3>6. QED
      BY <3>2, <3>3, <3>5
  <2>7. CASE op = "fail"
    BY <1>6, <2>1, <2>2, <2>5, <2>7 DEF FailRun
  <2>8. CASE op = "cancel"
    BY <1>6, <2>1, <2>2, <2>5, <2>8 DEF CancelRun
  <2>9. QED
    BY <1>10, <2>6, <2>7, <2>8
<1>11. QED
  BY <1>7, <1>8, <1>9, <1>10 DEF RunOps

\* An operation on a transcript, seen from the committed rows.
LEMMA SessionWrites ==
    ASSUME StoreTypeOK, PgTypes, NEW t \in Txns, TxInv(t), Write(t),
           NEW s \in Sessions, NEW op \in SessionOps, s = tx[t].session, op = tx[t].op
    PROVE  AppendMessage(s, "user") \/ ClearSession(s)
<1>1. OnSession(t) /\ tx[t].pc = "write"
  BY DEF TxInv, Write, At
<1>2. WriteTranscript(t) /\ WriteRun(t) /\ UNCHANGED <<request, now>>
  BY SequencesAreFree DEF Write
<1>3. MayRewrite(s) /\ tx[t].version = version[s]
  BY <1>1 DEF OnSession, KnowsTranscript, MayRewrite
<1>4. UNCHANGED <<runVars, events, now>>
  BY <1>2 DEF WriteRun, SessionOps, runVars
<1>5. version' = [version EXCEPT ![s] = @ + 1]
  BY <1>2, <1>3 DEF WriteTranscript, SessionOps, StoreTypeOK
<1>6. CASE op = "append"
  <2>1. Added(t) = <<[role |-> "user", run |-> NoRun]>>
    BY <1>6 DEF Added
  <2>2. transcript' = [transcript EXCEPT ![s] = @ \o <<[role |-> "user", run |-> NoRun]>>]
    BY <1>2, <1>6, <2>1 DEF WriteTranscript, SessionOps
  <2>3. transcript[s] \o <<[role |-> "user", run |-> NoRun]>> =
           Append(transcript[s], [role |-> "user", run |-> NoRun])
    BY DEF StoreTypeOK
  <2>4. transcript' = [transcript EXCEPT ![s] = Append(@, [role |-> "user", run |-> NoRun])]
    BY <2>2, <2>3
  <2>5. QED
    BY <1>3, <1>4, <1>5, <2>4 DEF AppendMessage
<1>7. CASE op = "clear"
  <2>1. transcript' = [transcript EXCEPT ![s] = <<>>]
    BY <1>2, <1>7 DEF WriteTranscript, SessionOps
  <2>2. QED
    BY <1>3, <1>4, <1>5, <2>1 DEF ClearSession
<1>8. QED
  BY <1>6, <1>7 DEF SessionOps

\* An operation on a run that is not a commit.
PlainRunAction(r, w) ==
    \/ MarkRunRunning(r, w) \/ CancelRun(r, w) \/ FailRun(r) \/ IncrementRunAttempt(r)
    \/ AppendStreamEvent(r, RESPONSE_DELTA)

\* An operation on a run spares the other runs.
LEMMA RunActionSpares ==
    ASSUME StoreTypeOK, NEW r \in Runs, NEW w \in Workers,
           PlainRunAction(r, w) \/ CommitRunSuccess(r)
    PROVE  /\ \A x \in Runs \ {r} : RunStays(x)
           /\ request' = request
           /\ status[r] # ABSENT /\ status'[r] # ABSENT /\ (Active(r)' => Active(r))
<1>1. ASSUME NEW target, Finish(r, target)
      PROVE  /\ \A x \in Runs \ {r} : RunStays(x)
             /\ request' = request
             /\ status[r] # ABSENT /\ status'[r] # ABSENT /\ (Active(r)' => Active(r))
  <2>1. ValidRunTransition(status[r], target) /\ status'[r] = target
    BY <1>1 DEF Finish, StoreTypeOK
  <2>2. status[r] # ABSENT /\ status'[r] # ABSENT /\ Active(r)
    BY <2>1, TransitionsLeaveActive DEF Active
  <2>3. \A x \in Runs \ {r} : RunStays(x)
    BY <1>1 DEF Finish, Publish, StoreTypeOK, RunStays
  <2>4. QED
    BY <1>1, <2>2, <2>3 DEF Finish
<1>2. CASE MarkRunRunning(r, w)
  <2>1. ValidRunTransition(status[r], RUNNING) /\ status'[r] = RUNNING
    BY <1>2 DEF MarkRunRunning, StoreTypeOK
  <2>2. status[r] # ABSENT /\ status'[r] # ABSENT /\ Active(r)
    BY <2>1, TransitionsLeaveActive DEF Active
  <2>3. \A x \in Runs \ {r} : RunStays(x)
    BY <1>2 DEF MarkRunRunning, Publish, StoreTypeOK, RunStays
  <2>4. QED
    BY <1>2, <2>2, <2>3 DEF MarkRunRunning
<1>3. CASE IncrementRunAttempt(r)
  <2>1. status[r] # ABSENT
    BY <1>3, TransitionsLeaveActive DEF IncrementRunAttempt, RUNNING, ABSENT
  <2>2. \A x \in Runs \ {r} : RunStays(x)
    BY <1>3 DEF IncrementRunAttempt, StoreTypeOK, RunStays
  <2>3. status' = status /\ request' = request
    BY <1>3 DEF IncrementRunAttempt
  <2>4. QED
    BY <2>1, <2>2, <2>3 DEF Active
<1>4. CASE AppendStreamEvent(r, RESPONSE_DELTA)
  <2>1. UNCHANGED <<status, request, owner, attempts>> /\ status[r] # ABSENT
    BY <1>4 DEF AppendStreamEvent, runVars
  <2>2. \A x \in Runs \ {r} : RunStays(x)
    BY <1>4, <2>1 DEF AppendStreamEvent, Publish, StoreTypeOK, RunStays
  <2>3. QED
    BY <2>1, <2>2 DEF Active
<1>5. CASE CancelRun(r, w) \/ FailRun(r) \/ CommitRunSuccess(r)
  <2>1. \E target : Finish(r, target)
    BY <1>5 DEF CancelRun, FailRun, CommitRunSuccess
  <2>2. QED
    BY <1>1, <2>1
<1>6. QED
  BY <1>2, <1>3, <1>4, <1>5 DEF PlainRunAction

\* Which sessions an operation on a run writes.
LEMMA RunActionSessions ==
    ASSUME StoreTypeOK, NEW r \in Runs, NEW w \in Workers
    PROVE  /\ PlainRunAction(r, w) => UNCHANGED <<version, transcript>>
           /\ CommitRunSuccess(r) =>
                 \A s \in Sessions :
                    /\ s # request[r].session =>
                          version'[s] = version[s] /\ transcript'[s] = transcript[s]
                    /\ Exists(s) => Exists(s)'
<1>1. PlainRunAction(r, w) => UNCHANGED <<version, transcript>>
  BY DEF PlainRunAction, MarkRunRunning, CancelRun, FailRun, IncrementRunAttempt,
         AppendStreamEvent, sessionVars
<1>2. ASSUME CommitRunSuccess(r), NEW s \in Sessions
      PROVE  /\ s # request[r].session =>
                   version'[s] = version[s] /\ transcript'[s] = transcript[s]
             /\ Exists(s) => Exists(s)'
  BY <1>2, BoundsAreNaturals DEF CommitRunSuccess, StoreTypeOK, Exists
<1>3. QED
  BY <1>1, <1>2

\* A transaction that writes rows it holds, and ends.
LEMMA RowFrame ==
    ASSUME PgTypes, NEW t \in Txns, NEW rows \in SUBSET Runs,
           \A r \in rows : lockedBy[r] = t, EndTx(t),
           \A x \in Runs \ rows : RunStays(x),
           request' = request,
           \A x \in rows : status[x] # ABSENT /\ status'[x] # ABSENT /\ (Active(x)' => Active(x)),
           \A s \in Sessions : lockedBy[s] # t =>
                version'[s] = version[s] /\ transcript'[s] = transcript[s],
           \A s \in Sessions : Exists(s) => Exists(s)'
    PROVE  Good(t)
<1>1. /\ \A u \in Txns \ {t} : tx'[u] = tx[u]
      /\ \A u \in Txns \ {t} : \A row \in Runs \cup Sessions :
            lockedBy'[row] = u <=> lockedBy[row] = u
  BY ReleaseIs, NoTxnIsNotATxn DEF EndTx, PgTypes, LocksMove
<1>2. \A r \in Runs : lockedBy[r] \in Txns \ {t} => RunStays(r)
  OBVIOUS
<1>3. \A r \in Runs : status[r] # ABSENT =>
          status'[r] # ABSENT /\ request'[r] = request[r] /\ (Active(r)' => Active(r))
  BY DEF RunStays, Active
<1>4. \A r \in Runs : status[r] = ABSENT => status'[r] = ABSENT
  BY DEF RunStays
<1>5. Frame(t)
  BY <1>1, <1>2, <1>3, <1>4 DEF Frame
<1>6. QED
  BY <1>5, EndIsGood

\* The flush of an operation on a run or a transcript.
LEMMA WriteIsGood ==
    ASSUME StoreTypeOK, PgTypes, LogsLeaveRoom, NEW t \in Txns, TxInv(t), Write(t)
    PROVE  Good(t) /\ (SessionStep \/ RunStep)
<1>1. EndTx(t) /\ request' = request
  BY SequencesAreFree DEF Write
<1>2. CASE tx[t].op \in RunOps
  <2>1. PICK r \in Runs, w \in Workers, op \in RunOps :
           r = tx[t].run /\ w = tx[t].worker /\ op = tx[t].op
    BY <1>2 DEF TxInv, OnRun
  <2>2. PlainRunAction(r, w) \/ (CommitRunSuccess(r) /\ lockedBy[request[r].session] = t)
    BY <2>1, RunWrites DEF PlainRunAction
  <2>3. lockedBy[r] = t
    BY <1>2, <2>1 DEF TxInv, OnRun, Validated, Write, At
  <2>4. /\ \A x \in Runs \ {r} : RunStays(x)
        /\ status[r] # ABSENT /\ status'[r] # ABSENT /\ (Active(r)' => Active(r))
    BY <2>2, RunActionSpares
  <2>5. \A s \in Sessions :
           /\ lockedBy[s] # t => version'[s] = version[s] /\ transcript'[s] = transcript[s]
           /\ Exists(s) => Exists(s)'
    <3>1. CASE PlainRunAction(r, w)
      BY <3>1, RunActionSessions DEF Exists
    <3>2. CASE CommitRunSuccess(r) /\ lockedBy[request[r].session] = t
      BY <3>2, RunActionSessions
    <3>3. QED
      BY <2>2, <3>1, <3>2
  <2>6. Good(t)
    <3>1. PICK rows \in SUBSET Runs : rows = {r}
      OBVIOUS
    <3>2. QED
      BY <1>1, <2>3, <2>4, <2>5, <3>1, RowFrame
  <2>7. RunStep
    BY <2>2 DEF RunStep, PlainRunAction
  <2>8. QED
    BY <2>6, <2>7
<1>3. CASE tx[t].op \in SessionOps
  <2>1. PICK s \in Sessions, op \in SessionOps : s = tx[t].session /\ op = tx[t].op
    BY <1>3 DEF TxInv, OnSession
  <2>2. AppendMessage(s, "user") \/ ClearSession(s)
    BY <2>1, SessionWrites
  <2>3. lockedBy[s] = t
    BY <1>3, <2>1 DEF TxInv, OnSession, KnowsTranscript, Write, At
  <2>4. /\ UNCHANGED <<status, request, owner, attempts, events>>
        /\ \A x \in Sessions : x # s =>
              version'[x] = version[x] /\ transcript'[x] = transcript[x]
        /\ \A x \in Sessions : Exists(x) => Exists(x)'
    <3>1. UNCHANGED <<status, request, owner, attempts, events>>
      BY <2>2 DEF AppendMessage, ClearSession, runVars
    <3>2. \A x \in Sessions : x # s =>
              version'[x] = version[x] /\ transcript'[x] = transcript[x]
      BY <2>2 DEF AppendMessage, ClearSession, StoreTypeOK
    <3>3. \A x \in Sessions : Exists(x) => Exists(x)'
      <4>1. version' = [version EXCEPT ![s] = @ + 1]
        BY <2>2 DEF AppendMessage, ClearSession
      <4>2. \A x \in Sessions : version[x] \in Nat
        BY BoundsAreNaturals DEF StoreTypeOK
      <4>3. QED
        BY <4>1, <4>2 DEF StoreTypeOK, Exists
    <3>4. QED
      BY <3>1, <3>2, <3>3
  <2>5. \A x \in Runs : RunStays(x)
    BY <2>4 DEF RunStays
  <2>6. Good(t)
    <3>1. PICK rows \in SUBSET Runs : rows = {}
      OBVIOUS
    <3>2. \A x \in Sessions : lockedBy[x] # t =>
              version'[x] = version[x] /\ transcript'[x] = transcript[x]
      BY <2>3, <2>4
    <3>3. QED
      BY <1>1, <2>4, <2>5, <3>1, <3>2, RowFrame
  <2>7. SessionStep
    BY <2>2 DEF SessionStep, Role
  <2>8. QED
    BY <2>6, <2>7
<1>4. QED
  BY <1>2, <1>3 DEF Write, At

\* The rows of a shutdown or start-up are interrupted as one.
LEMMA WriteInterruptedIsGood ==
    ASSUME StoreTypeOK, PgTypes, LogsLeaveRoom, NEW t \in Txns, TxInv(t), WriteInterrupted(t)
    PROVE  Good(t) /\ MaintenanceStep
<1>1. /\ tx[t].op = "interrupt" /\ EndTx(t) /\ UNCHANGED <<sessionVars, request, owner, attempts, now>>
  BY DEF WriteInterrupted, At
<1>2. Interrupting(t)
  BY <1>1 DEF TxInv
<1>3. PICK rows \in SUBSET Runs : rows = tx[t].rows
  BY DEF PgTypes, TxRow
<1>4. \A r \in rows : lockedBy[r] = t
  BY <1>2, <1>3 DEF Interrupting
<1>5. PICK w \in Workers, sameWorker \in BOOLEAN : rows \subseteq Matching(w, sameWorker)
  BY <1>2, <1>3 DEF Interrupting
<1>6. PICK done \in [rows -> Timestamps], stamp \in Timestamps :
         /\ status' = [r \in Runs |-> IF r \in rows THEN INTERRUPTED ELSE status[r]]
         /\ completedAt' = [r \in Runs |-> IF r \in rows THEN done[r] ELSE completedAt[r]]
         /\ events' = [r \in Runs |->
                         IF r \in rows
                         THEN events[r] \cup {AppendedEvent(r, RUN_INTERRUPTED, stamp)}
                         ELSE events[r]]
  <2>1. PICK done \in [rows -> Timestamps] :
           completedAt' = [r \in Runs |-> IF r \in rows THEN done[r] ELSE completedAt[r]]
    BY <1>3, Zenon DEF WriteInterrupted
  <2>2. PICK stamp \in Timestamps :
           events' = [r \in Runs |->
                        IF r \in rows
                        THEN events[r] \cup {AppendedEvent(r, RUN_INTERRUPTED, stamp)}
                        ELSE events[r]]
    BY <1>3, Zenon DEF WriteInterrupted
  <2>3. status' = [r \in Runs |-> IF r \in rows THEN INTERRUPTED ELSE status[r]]
    BY <1>3 DEF WriteInterrupted
  <2>4. QED
    BY <2>1, <2>2, <2>3, Zenon
<1>7. \A r \in rows : Active(r)
  BY <1>5 DEF Matching
<1>8. InterruptMatching(w, sameWorker, Runs \ rows)
  <2>1. Matching(w, sameWorker) \ (Runs \ rows) = rows
    BY <1>5 DEF Matching
  <2>2. \A r \in rows : NextSequence(r) <= MaxEvents
    BY <1>7, RoomForEvents
  <2>3. UNCHANGED <<sessionVars, request, owner, attempts, now>>
    BY <1>1
  <2>4. QED
    BY <1>6, <2>1, <2>2, <2>3, Zenon DEF InterruptMatching
<1>9. MaintenanceStep
  BY <1>8 DEF MaintenanceStep, InterruptWorkerRuns, ReconcileOrphanedRuns
<1>10. Good(t)
  <2>1. \A x \in Runs \ rows : RunStays(x)
    BY <1>1, <1>6 DEF RunStays
  <2>2. \A x \in rows : status[x] # ABSENT /\ status'[x] # ABSENT /\ (Active(x)' => Active(x))
    BY <1>6, <1>7 DEF Active, ACTIVE_RUN_STATUSES, ABSENT, INTERRUPTED, PENDING, RUNNING
  <2>3. UNCHANGED <<version, transcript>> /\ \A s \in Sessions : Exists(s) => Exists(s)'
    BY <1>1 DEF sessionVars, Exists
  <2>4. QED
    BY <1>1, <1>4, <2>1, <2>2, <2>3, RowFrame
<1>11. QED
  BY <1>9, <1>10

-----------------------------------------------------------------------------
(* The steps keep the invariant and are steps of the atomic store. *)

\* Only a run that can still publish counts, and it publishes in the table's order.
LEMMA RoomStep ==
    ASSUME StoreTypeOK, LogsLeaveRoom, StoreNext
    PROVE  LogsLeaveRoom'
<1> SUFFICES ASSUME NEW r \in Runs
             PROVE  /\ status'[r] \in {ABSENT, PENDING} =>
                          \A e \in events'[r] : e.sequence <= MaxDeltas
                    /\ status'[r] = RUNNING =>
                          \A e \in events'[r] : e.sequence <= MaxDeltas + 1
  BY DEF LogsLeaveRoom
<1> DEFINE Room == /\ status'[r] \in {ABSENT, PENDING} =>
                          \A e \in events'[r] : e.sequence <= MaxDeltas
                   /\ status'[r] = RUNNING =>
                          \A e \in events'[r] : e.sequence <= MaxDeltas + 1
<1> SUFFICES Room
  OBVIOUS
<1>1. ASSUME status'[r] = status[r], events'[r] \subseteq events[r]
      PROVE  Room
  BY <1>1 DEF LogsLeaveRoom
<1>2. ASSUME status'[r] \in TERMINAL_RUN_STATUSES
      PROVE  Room
  BY <1>2 DEF TERMINAL_RUN_STATUSES, COMPLETED, FAILED, CANCELLED, INTERRUPTED,
              ABSENT, PENDING, RUNNING
<1>3. ASSUME NEW x \in Runs, NEW target \in TERMINAL_RUN_STATUSES, Finish(x, target)
      PROVE  Room
  <2>1. CASE x = r
    BY <1>2, <1>3, <2>1 DEF Finish, StoreTypeOK
  <2>2. CASE x # r
    BY <1>1, <1>3, <2>2 DEF Finish, Publish, StoreTypeOK
  <2>3. QED
    BY <2>1, <2>2
<1>4. CASE SessionStep
  BY <1>1, <1>4 DEF SessionStep, CreateSession, AppendMessage, ClearSession, runVars
<1>5. CASE ReservationStep
  <2>1. ASSUME NEW x \in Runs, NEW param, NEW s, NEW k, NEW h, NEW w,
               ReserveRun(x, param, s, k, h, w)
        PROVE  Room
    <3>1. events' = events
      BY <2>1 DEF ReserveRun
    <3>2. CASE x = r
      <4>1. status[r] = ABSENT /\ status'[r] = PENDING
        BY <2>1, <3>2 DEF ReserveRun, StoreTypeOK
      <4>2. QED
        BY <3>1, <4>1 DEF LogsLeaveRoom, PENDING, RUNNING
    <3>3. CASE x # r
      BY <1>1, <2>1, <3>1, <3>3 DEF ReserveRun, StoreTypeOK
    <3>4. QED
      BY <3>2, <3>3
  <2>2. ASSUME NEW s, NEW k, NEW h, ReplayLeavingSession(s, k, h)
        PROVE  Room
    BY <1>1, <2>2 DEF ReplayLeavingSession, CreateSession, runVars
  <2>3. QED
    BY <1>5, <2>1, <2>2 DEF ReservationStep
<1>6. CASE RunStep
  <2>1. PICK x \in Runs : \/ \E w \in Workers : MarkRunRunning(x, w) \/ CancelRun(x, w)
                          \/ IncrementRunAttempt(x)
                          \/ AppendStreamEvent(x, RESPONSE_DELTA)
                          \/ CommitRunSuccess(x)
                          \/ FailRun(x)
    BY <1>6 DEF RunStep
  <2>2. ASSUME NEW w, MarkRunRunning(x, w)
        PROVE  Room
    <3>1. CASE x = r
      <4>1. status[r] = PENDING /\ status'[r] = RUNNING /\ Active(r)
        BY <2>2, <3>1 DEF MarkRunRunning, StoreTypeOK, Active, ValidRunTransition,
           ALLOWED_RUN_TRANSITIONS, ACTIVE_RUN_STATUSES, PENDING, RUNNING, COMPLETED,
           FAILED, CANCELLED, INTERRUPTED
      <4>2. NextSequence(r) <= MaxDeltas + 1
        BY <4>1, RoomForEvents
      <4>3. PICK stamp \in Timestamps : events'[r] = events[r] \cup {AppendedEvent(r, RUN_STARTED, stamp)}
        BY <2>2, <3>1 DEF MarkRunRunning, Publish, StoreTypeOK
      <4>4. AppendedEvent(r, RUN_STARTED, stamp).sequence = NextSequence(r)
        BY DEF AppendedEvent
      <4>5. \A e \in events[r] : e.sequence <= MaxDeltas + 1
        <5>1. \A e \in events[r] : e.sequence \in Nat
          BY BoundsAreNaturals DEF StoreTypeOK, StreamEvent, MaxEvents
        <5>2. \A e \in events[r] : e.sequence <= MaxDeltas
          BY <4>1 DEF LogsLeaveRoom
        <5>3. QED
          BY <5>1, <5>2, BoundsAreNaturals
      <4>6. QED
        BY <4>1, <4>2, <4>3, <4>4, <4>5 DEF ABSENT, PENDING, RUNNING
    <3>2. CASE x # r
      BY <1>1, <2>2, <3>2 DEF MarkRunRunning, Publish, StoreTypeOK
    <3>3. QED
      BY <3>1, <3>2
  <2>3. CASE IncrementRunAttempt(x)
    BY <1>1, <2>3 DEF IncrementRunAttempt
  <2>4. CASE AppendStreamEvent(x, RESPONSE_DELTA)
    <3>1. status' = status
      BY <2>4 DEF AppendStreamEvent, runVars
    <3>2. CASE x = r
      <4>1. NextSequence(r) \in Nat /\ NextSequence(r) <= MaxDeltas /\ MaxDeltas \in Nat
        BY <2>4, <3>2, NextSequenceIsFresh, BoundsAreNaturals DEF AppendStreamEvent
      <4>2. PICK stamp \in Timestamps : events'[r] = events[r] \cup {AppendedEvent(r, RESPONSE_DELTA, stamp)}
        BY <2>4, <3>2 DEF AppendStreamEvent, Publish, StoreTypeOK
      <4>3. AppendedEvent(r, RESPONSE_DELTA, stamp).sequence = NextSequence(r)
        BY DEF AppendedEvent
      <4>4. QED
        BY <3>1, <4>1, <4>2, <4>3 DEF LogsLeaveRoom
    <3>3. CASE x # r
      BY <1>1, <2>4, <3>1, <3>3 DEF AppendStreamEvent, Publish, StoreTypeOK
    <3>4. QED
      BY <3>2, <3>3
  <2>5. ASSUME NEW w, CancelRun(x, w) \/ CommitRunSuccess(x) \/ FailRun(x)
        PROVE  Room
    <3>1. \E target \in TERMINAL_RUN_STATUSES : Finish(x, target)
      BY <2>5 DEF CancelRun, CommitRunSuccess, FailRun, TERMINAL_RUN_STATUSES
    <3>2. QED
      BY <1>3, <3>1
  <2>6. QED
    BY <2>1, <2>2, <2>3, <2>4, <2>5
<1>7. CASE MaintenanceStep
  <2>1. ASSUME NEW w, NEW sameWorker, NEW locked, InterruptMatching(w, sameWorker, locked)
        PROVE  Room
    <3>1. CASE r \in Matching(w, sameWorker) \ locked
      BY <1>2, <2>1, <3>1 DEF InterruptMatching, TERMINAL_RUN_STATUSES
    <3>2. CASE r \notin Matching(w, sameWorker) \ locked
      BY <1>1, <2>1, <3>2 DEF InterruptMatching
    <3>3. QED
      BY <3>1, <3>2
  <2>2. CASE PruneStreamEvents
    BY <1>1, <2>2 DEF PruneStreamEvents, runVars
  <2>3. CASE Tick
    BY <1>1, <2>3 DEF Tick, runVars
  <2>4. QED
    BY <1>7, <2>1, <2>2, <2>3 DEF MaintenanceStep, InterruptWorkerRuns, ReconcileOrphanedRuns
<1>8. QED
  BY <1>4, <1>5, <1>6, <1>7 DEF StoreNext

\* A reservation commits what reserve_run decides at once.
LEMMA CommitReservationIsAtomic ==
    ASSUME StoreTypeOK, PgTypes, NEW t \in Txns, TxInv(t), CommitReservation(t)
    PROVE  ReservationStep
<1>1. tx[t].op = "reserve" /\ tx[t].pc = "inserted"
  BY DEF CommitReservation, At
<1>2. Reserving(t) /\ KnowsSession(t)
  BY <1>1 DEF TxInv, Reserving
<1>3. PICK r \in Runs, s \in Sessions, w \in Workers, k \in Keys \cup {NoKey} :
         r = tx[t].run /\ s = tx[t].session /\ w = tx[t].worker /\ k = tx[t].key
  BY <1>1, <1>2 DEF Reserving, KnowsSession, PgTypes, TxRow
<1>4. PICK param, h : param = tx[t].param /\ h = tx[t].hash
  OBVIOUS
<1>5. /\ status[r] = ABSENT /\ KeyHolders(k) = {} /\ ActiveRuns(s) = {}
      /\ IF param = NoSession THEN ~ Exists(s) ELSE s = param /\ Exists(s)
      /\ h \in Payloads \X {param}
  BY <1>1, <1>2, <1>3, <1>4 DEF Reserving, KnowsSession
<1>6. param \in {NoSession, s}
  BY <1>5
<1>7. h \in Hashes
  BY <1>3, <1>5, <1>6, HashesAreRequests
<1>8. ReserveRun(r, param, s, k, h, w)
  BY <1>3, <1>4, <1>5 DEF CommitReservation, ReserveRun, Resolves
<1>9. QED
  BY <1>6, <1>7, <1>8 DEF ReservationStep

\* A replay leaves a fresh session behind, or nothing.
LEMMA CommitReplayIsAtomic ==
    ASSUME StoreTypeOK, PgTypes, NEW t \in Txns, TxInv(t), CommitReplay(t)
    PROVE  ReservationStep \/ UNCHANGED storeVars
<1>1. /\ tx[t].op = "reserve" /\ tx[t].pc = "replay"
      /\ UNCHANGED <<transcript, runVars, events, now>>
  BY DEF CommitReplay, At
<1>2. Reserving(t)
  BY <1>1 DEF TxInv
<1>3. version' = [s \in Sessions |->
                    IF s = tx[t].session /\ tx[t].param = NoSession THEN 1 ELSE version[s]]
  BY DEF CommitReplay
<1>4. CASE tx[t].param = NoSession /\ tx[t].session \in Sessions
  <2>1. PICK s \in Sessions, k \in Keys \cup {NoKey}, h \in {tx[t].hash} :
           s = tx[t].session /\ k = tx[t].key
    BY <1>4 DEF PgTypes, TxRow
  <2>2. h \in Hashes
    BY <1>2, <1>4, <2>1, HashesAreRequests DEF Reserving
  <2>3. ~ Exists(s) /\ Repeats(k, h)
    BY <1>1, <1>2, <1>4, <2>1 DEF Reserving
  <2>4. version' = [version EXCEPT ![s] = 1]
    BY <1>3, <1>4, <2>1 DEF StoreTypeOK
  <2>5. CreateSession(s)
    BY <1>1, <2>3, <2>4 DEF CreateSession
  <2>6. \E r \in KeyHolders(k) : Replays(k, h, r)
    BY <2>3 DEF Repeats, Replays
  <2>7. ReplayLeavingSession(s, k, h)
    BY <2>5, <2>6 DEF ReplayLeavingSession
  <2>8. QED
    BY <2>1, <2>2, <2>7 DEF ReservationStep
<1>5. CASE ~ (tx[t].param = NoSession /\ tx[t].session \in Sessions)
  <2>1. version' = version
    BY <1>3, <1>5 DEF StoreTypeOK
  <2>2. QED
    BY <1>1, <2>1 DEF storeVars, sessionVars
<1>6. QED
  BY <1>4, <1>5

\* Every statement of a connection, begin, refusal and abort included.
ConnectionStep(t) == BeginStep(t) \/ TxStep(t) \/ AbortVictim(t)

\* A statement keeps the frame, and is an atomic operation or changes no row.
LEMMA ConnectionStepIsGood ==
    ASSUME PgInv, NEW t \in Txns, ConnectionStep(t)
    PROVE  Good(t) /\ (StoreNext \/ UNCHANGED storeVars)
<1>1. StoreTypeOK /\ PgTypes /\ LogsLeaveRoom /\ TxInv(t)
  BY DEF PgInv
<1>2. CASE Leave(t) \/ AbortVictim(t)
  BY <1>1, <1>2, LeaveIsGood DEF Leave, AbortVictim
<1>3. CASE BeginStep(t)
  <2>1. UNCHANGED storeVars
    BY <1>3 DEF BeginStep, BeginReserve, BeginRunOp, BeginSessionOp, SelectMatching
  <2>2. CASE \E param \in Sessions \cup {NoSession}, p \in Payloads,
               k \in Keys \cup {NoKey}, w \in Workers : BeginReserve(t, param, p, k, w)
    BY <1>1, <2>1, <2>2, BeginReserveIsGood
  <2>3. CASE \E op \in RunOps, r \in Runs, w \in Workers : BeginRunOp(t, op, r, w)
    BY <1>1, <2>1, <2>3, BeginRunOpIsGood
  <2>4. CASE \E op \in SessionOps, s \in Sessions : BeginSessionOp(t, op, s)
    BY <1>1, <2>1, <2>4, BeginSessionOpIsGood
  <2>5. CASE \E w \in Workers, sameWorker \in BOOLEAN : SelectMatching(t, w, sameWorker)
    BY <1>1, <2>1, <2>5, SelectMatchingIsGood
  <2>6. QED
    BY <1>3, <2>2, <2>3, <2>4, <2>5 DEF BeginStep
<1>4. CASE LookUpKey(t) \/ InsertSession(t) \/ InsertRun(t) \/ ResolveRace(t)
  <2>1. UNCHANGED storeVars
    BY <1>4 DEF LookUpKey, InsertSession, InsertRun, Abort, ResolveRace
  <2>2. QED
    BY <1>1, <1>4, <2>1, LookUpKeyIsGood, InsertSessionIsGood, InsertRunIsGood,
       ResolveRaceIsGood
<1>5. CASE LockRun(t) \/ LockSession(t) \/ QueryActive(t) \/ ReadSequences(t)
  <2>1. UNCHANGED storeVars
    BY <1>5 DEF LockRun, LockSession, QueryActive, ReadSequences
  <2>2. QED
    BY <1>1, <1>5, <2>1, LockRunIsGood, LockSessionIsGood, QueryActiveIsGood,
       ReadSequencesIsGood
<1>6. CASE CommitReservation(t) \/ CommitReplay(t)
  BY <1>1, <1>6, CommitReservationIsGood, CommitReservationIsAtomic, CommitReplayIsGood,
     CommitReplayIsAtomic DEF StoreNext
<1>7. CASE Write(t) \/ WriteInterrupted(t)
  BY <1>1, <1>7, WriteIsGood, WriteInterruptedIsGood DEF StoreNext
<1>8. QED
  BY <1>2, <1>3, <1>4, <1>5, <1>6, <1>7 DEF ConnectionStep, TxStep, ReserveStep

\* A run that is added is resolved, and sessions stay.
LEMMA RowsStayResolved ==
    ASSUME RowsAreResolved, NEW u, Frame(u)
    PROVE  RowsAreResolved'
<1> SUFFICES ASSUME NEW r \in Runs, status'[r] # ABSENT
             PROVE  /\ request'[r].session \in Sessions
                    /\ version'[request'[r].session] > 0
                    /\ request'[r].hash \in Payloads \X {NoSession, request'[r].session}
  BY DEF RowsAreResolved, Exists
<1>1. CASE status[r] = ABSENT
  BY <1>1 DEF Frame
<1>2. CASE status[r] # ABSENT
  <2>1. request'[r] = request[r]
    BY <1>2 DEF Frame
  <2>2. PICK s \in Sessions : /\ s = request[r].session /\ Exists(s)
                              /\ request[r].hash \in Payloads \X {NoSession, s}
    BY <1>2 DEF RowsAreResolved
  <2>3. Exists(s)'
    BY <2>2 DEF Frame
  <2>4. QED
    BY <2>1, <2>2, <2>3 DEF Exists
<1>3. QED
  BY <1>1, <1>2

\* A key is inserted once at a time.
LEMMA InsertsStayDifferent ==
    ASSUME InsertsDiffer, NEW v \in Txns, Good(v)
    PROVE  InsertsDiffer'
<1> SUFFICES ASSUME NEW t \in Txns, NEW u \in Txns, t # u,
                    tx'[t].pc = "inserted", tx'[u].pc = "inserted",
                    tx'[t].key = tx'[u].key, tx'[t].key # NoKey
             PROVE  FALSE
  BY DEF InsertsDiffer
<1>1. \A x \in Txns \ {v} : tx'[x] = tx[x]
  BY DEF Good, Frame
<1>2. CASE t = v
  BY <1>1, <1>2 DEF Good, Inserting
<1>3. CASE u = v
  BY <1>1, <1>3 DEF Good, Inserting
<1>4. CASE t # v /\ u # v
  BY <1>1, <1>4 DEF InsertsDiffer
<1>5. QED
  BY <1>2, <1>3, <1>4

\* The invariant is inductive, and a statement is a step of the atomic store.
LEMMA PgStep ==
    PgInv /\ [PgNext]_pgVars => PgInv' /\ [StoreNext]_storeVars
<1> SUFFICES ASSUME PgInv, [PgNext]_pgVars
             PROVE  PgInv' /\ [StoreNext]_storeVars
  OBVIOUS
<1>1. /\ StoreTypeOK /\ PgTypes /\ RowsAreResolved /\ LogsLeaveRoom /\ InsertsDiffer
      /\ \A t \in Txns : TxInv(t)
  BY DEF PgInv
<1>2. ASSUME NEW v \in Txns, ConnectionStep(v)
      PROVE  PgInv' /\ [StoreNext]_storeVars
  <2>1. Good(v) /\ (StoreNext \/ UNCHANGED storeVars)
    BY <1>2, ConnectionStepIsGood
  <2>2. Frame(v) /\ PgTypes' /\ TxInv(v)'
    BY <2>1 DEF Good
  <2>3. \A t \in Txns \ {v} : TxInv(t)'
    BY <1>1, <2>2, FrameKeeps
  <2>4. StoreTypeOK'
    BY <1>1, <2>1, TypeStep
  <2>5. LogsLeaveRoom'
    <3>1. CASE StoreNext
      BY <1>1, <3>1, RoomStep
    <3>2. CASE UNCHANGED storeVars
      BY <1>1, <3>2, SameStore DEF LogsLeaveRoom
    <3>3. QED
      BY <2>1, <3>1, <3>2
  <2>6. RowsAreResolved' /\ InsertsDiffer'
    BY <1>1, <2>1, <2>2, RowsStayResolved, InsertsStayDifferent
  <2>7. QED
    BY <2>1, <2>2, <2>3, <2>4, <2>5, <2>6 DEF PgInv
<1>3. CASE InsertNewSession
  <2>1. Frame(NoTxn) /\ UNCHANGED <<tx, lockedBy>>
    BY <1>1, <1>3, InsertNewSessionFrame DEF InsertNewSession
  <2>2. StoreNext
    BY <1>3 DEF InsertNewSession, StoreNext, SessionStep
  <2>3. \A t \in Txns : TxInv(t)'
    BY <1>1, <2>1, FrameKeeps, NoTxnIsNotATxn
  <2>4. StoreTypeOK' /\ LogsLeaveRoom' /\ RowsAreResolved'
    BY <1>1, <2>1, <2>2, TypeStep, RoomStep, RowsStayResolved
  <2>5. PgTypes' /\ InsertsDiffer'
    BY <1>1, <2>1 DEF PgTypes, InsertsDiffer
  <2>6. QED
    BY <2>2, <2>3, <2>4, <2>5 DEF PgInv
<1>4. CASE UNCHANGED pgVars
  <2>1. UNCHANGED storeVars /\ tx' = tx /\ lockedBy' = lockedBy
    BY <1>4 DEF pgVars
  <2>2. PgTypes' /\ InsertsDiffer'
    BY <1>1, <2>1 DEF PgTypes, InsertsDiffer
  <2>3. Frame(NoTxn)
    BY <2>1, SameStore, NoTxnIsNotATxn DEF Frame, RunStays, Active
  <2>4. \A t \in Txns : TxInv(t)'
    BY <1>1, <2>3, FrameKeeps, NoTxnIsNotATxn
  <2>5. StoreTypeOK' /\ LogsLeaveRoom' /\ RowsAreResolved'
    BY <1>1, <2>1, <2>3, TypeStep, SameStore, RowsStayResolved DEF LogsLeaveRoom
  <2>6. QED
    BY <2>1, <2>2, <2>4, <2>5 DEF PgInv
<1>5. QED
  BY <1>2, <1>3, <1>4 DEF PgNext, ConnectionStep

\* Nothing is held and nothing is written at first.
LEMMA PgInitInv == PgInit => PgInv
<1> SUFFICES ASSUME PgInit
             PROVE  PgInv
  OBVIOUS
<1>1. /\ StoreInit /\ tx = [t \in Txns |-> Idle]
      /\ lockedBy = [row \in Runs \cup Sessions |-> NoTxn]
  BY DEF PgInit
<1>2. StoreTypeOK
  BY <1>1, InitType
<1>3. PgTypes
  BY <1>1, IdleIsTyped DEF PgTypes
<1>4. RowsAreResolved /\ LogsLeaveRoom
  BY <1>1 DEF StoreInit, RowsAreResolved, LogsLeaveRoom
<1>5. \A t \in Txns : tx[t] = Idle /\ tx[t].op = "none" /\ tx[t].pc = "idle"
  BY <1>1 DEF Idle
<1>6. InsertsDiffer
  BY <1>5 DEF InsertsDiffer
<1>7. ASSUME NEW t \in Txns
      PROVE  TxInv(t)
  <2>1. HoldsOnly(t, {})
    BY <1>1, NoTxnIsNotATxn DEF HoldsOnly
  <2>2. QED
    BY <1>5, <2>1 DEF TxInv, Waiting, RunOps, SessionOps
<1>8. QED
  BY <1>2, <1>3, <1>4, <1>6, <1>7 DEF PgInv

\* What every transaction knows of the rows it holds is true, always.
THEOREM LocksProtect == PgSpec => []PgInv
<1>1. QED
  BY PgInitInv, PgStep, PTL DEF PgSpec

\* Statement by statement, under row locks and unique constraints, the
\* relational store is the atomic one: no interleaving loses an update or lets a
\* second active run, a second holder of a key or a second end of a run through.
THEOREM StatementsAreAtomic == PgSpec => ImplementsStore
<1>1. PgInit => StoreInit
  BY DEF PgInit
<1>2. QED
  BY <1>1, LocksProtect, PgStep, PTL DEF PgSpec, ImplementsStore, StoreSpec

-----------------------------------------------------------------------------
(* What clients are told. *)

\* The flush never fails on a sequence and a lost reservation race is always
\* resolved: no constraint violation is reported as an unavailable database.
THEOREM RacesResolved == PgSpec => []RacesAreResolved
<1>1. PgInv => RacesAreResolved
  <2>1. "unavailable" \notin Pc
    BY DEF Pc
  <2>2. QED
    BY <2>1 DEF PgInv, PgTypes, TxRow, RacesAreResolved
<1>2. QED
  BY <1>1, LocksProtect, PTL

\* The statements that refuse a reservation.
LEMMA RefusalsAre ==
    ASSUME PgTypes, NEW t \in Txns, ConnectionStep(t), tx'[t].op = "reserve",
           tx'[t].pc \in {"busy", "not_found"}, tx[t].pc # tx'[t].pc
    PROVE  QueryActive(t) \/ LockSession(t) \/ ResolveRace(t)
<1>1. tx[t] \in TxRow
  BY DEF PgTypes
<1>2. ASSUME tx' = [tx EXCEPT ![t] = Idle]
      PROVE  FALSE
  BY <1>2 DEF PgTypes, Idle
<1>3. ~ (Leave(t) \/ AbortVictim(t) \/ CommitReservation(t) \/ CommitReplay(t)
         \/ WriteInterrupted(t))
  BY <1>2 DEF Leave, AbortVictim, CommitReservation, CommitReplay, WriteInterrupted, EndTx
<1>4. ~ BeginStep(t)
  <2>1. ASSUME NEW param, NEW p, NEW k, NEW w, BeginReserve(t, param, p, k, w)
        PROVE  tx'[t].pc = "key"
    BY <2>1 DEF BeginReserve, PgTypes, Idle
  <2>2. ASSUME NEW op, NEW r, NEW w, BeginRunOp(t, op, r, w)
        PROVE  tx'[t].pc = "run"
    BY <2>2 DEF BeginRunOp, PgTypes, Idle
  <2>3. ASSUME NEW op, NEW s, BeginSessionOp(t, op, s)
        PROVE  tx'[t].pc = "session"
    BY <2>3 DEF BeginSessionOp, PgTypes, Idle
  <2>4. ASSUME NEW w, NEW sameWorker, SelectMatching(t, w, sameWorker)
        PROVE  tx'[t].pc = "write"
    BY <2>4 DEF SelectMatching, PgTypes, Idle
  <2>5. QED
    BY <2>1, <2>2, <2>3, <2>4 DEF BeginStep
<1>5. ~ LookUpKey(t)
  BY ZenonT(60) DEF LookUpKey, Goto, PgTypes, TxRow
<1>6. ~ (InsertSession(t) \/ InsertRun(t))
  <2>1. ASSUME NEW s, tx' = [tx EXCEPT ![t].pc = "key_again", ![t].session = s]
        PROVE  FALSE
    BY <1>1, <2>1 DEF PgTypes, TxRow
  <2>2. ASSUME NEW r, tx' = [tx EXCEPT ![t].pc = "inserted", ![t].run = r]
        PROVE  FALSE
    BY <1>1, <2>2 DEF PgTypes, TxRow
  <2>3. ~ Goto(t, "race")
    BY <1>1 DEF Goto, PgTypes, TxRow
  <2>4. QED
    BY <2>1, <2>2, <2>3 DEF InsertSession, InsertRun, Abort
<1>7. ~ (LockRun(t) \/ ReadSequences(t))
  BY <1>1, SessionOpsAreNotReserve DEF LockRun, ReadSequences, At, PgTypes, TxRow
<1>8. ~ Write(t)
  <2>1. ASSUME Write(t)
        PROVE  FALSE
    <3>1. tx[t].op # "reserve"
      BY <2>1, SessionOpsAreNotReserve DEF Write, At
    <3>2. tx'[t].op \in {tx[t].op, "none"}
      BY <2>1 DEF Write, Abort, Goto, EndTx, PgTypes, TxRow, Idle
    <3>3. QED
      BY <3>1, <3>2
  <2>2. QED
    BY <2>1
<1>9. QED
  BY <1>3, <1>4, <1>5, <1>6, <1>7, <1>8 DEF ConnectionStep, TxStep, ReserveStep

\* A repeat of a run that exists is never answered with busy or unknown session.
LEMMA RepeatStep ==
    ASSUME PgInv, [PgNext]_pgVars, NEW t \in Txns, tx'[t].op = "reserve",
           tx'[t].pc \in {"busy", "not_found"}, tx[t].pc # tx'[t].pc
    PROVE  ~ Repeats(tx[t].key, tx[t].hash)
<1>1. StoreTypeOK /\ PgTypes /\ RowsAreResolved /\ TxInv(t)
  BY DEF PgInv
<1>2. ConnectionStep(t)
  <2>1. ~ InsertNewSession /\ ~ UNCHANGED pgVars
    BY DEF InsertNewSession, pgVars
  <2>2. PICK v \in Txns : ConnectionStep(v)
    BY <2>1 DEF PgNext, ConnectionStep
  <2>3. CASE v = t
    BY <2>2, <2>3
  <2>4. CASE v # t
    <3>1. Frame(v)
      BY <2>2, ConnectionStepIsGood DEF Good
    <3>2. QED
      BY <2>4, <3>1 DEF Frame
  <2>5. QED
    BY <2>3, <2>4
<1>3. QueryActive(t) \/ LockSession(t) \/ ResolveRace(t)
  BY <1>1, <1>2, RefusalsAre
<1>4. tx[t].op = "reserve"
  <2>1. tx'[t].op \in {tx[t].op, "none"}
    BY <1>1, <1>3 DEF QueryActive, LockSession, ResolveRace, Goto, PgTypes, TxRow, Idle
  <2>2. QED
    BY <2>1
<1>5. Reserving(t)
  BY <1>1, <1>4 DEF TxInv
<1>6. CASE QueryActive(t)
  <2>1. tx[t].pc = "active" /\ ActiveRuns(tx[t].session) # {}
    <3>1. tx[t].pc = "active"
      BY <1>6 DEF QueryActive, At
    <3>2. ActiveRuns(tx[t].session) = {} => tx'[t].pc = "insert"
      BY <1>1, <1>4, <1>6 DEF QueryActive, Goto, PgTypes, TxRow
    <3>3. QED
      BY <3>1, <3>2
  <2>2. PICK r \in Runs : Active(r) /\ request[r].session = tx[t].session
    BY <2>1 DEF ActiveRuns
  <2>3. Exists(tx[t].session)
    BY <1>1, <2>2 DEF RowsAreResolved, Active, ACTIVE_RUN_STATUSES, PENDING, RUNNING, ABSENT
  <2>4. tx[t].param # NoSession
    BY <1>5, <2>1, <2>3 DEF Reserving, KnowsSession
  <2>5. QED
    BY <1>5, <2>1, <2>4 DEF Reserving
<1>7. CASE LockSession(t)
  <2>1. PICK s \in Sessions : s = tx[t].param /\ ~ Exists(s)
    <3>1. tx[t].param # NoSession /\ tx[t].param \in Sessions
      BY <1>1, <1>4, <1>7 DEF LockSession, Wanted, PgTypes, TxRow
    <3>2. Exists(tx[t].param) => tx'[t].pc = "key_again"
      BY <1>1, <1>4, <1>7 DEF LockSession, Wanted, AfterSession, PgTypes, TxRow
    <3>3. QED
      BY <3>1, <3>2
  <2>2. ASSUME NEW r \in Runs, Replays(tx[t].key, tx[t].hash, r)
        PROVE  FALSE
    <3>1. /\ request[r].session \in Sessions /\ Exists(request[r].session)
          /\ tx[t].hash \in Payloads \X {NoSession, request[r].session}
      BY <1>1, <2>2 DEF RowsAreResolved, Replays, KeyHolders
    <3>2. tx[t].hash \in Payloads \X {s}
      BY <1>5, <2>1 DEF Reserving
    <3>3. s = NoSession \/ s = request[r].session
      BY <3>1, <3>2
    <3>4. QED
      BY <2>1, <3>1, <3>3, NullsAreNotValues
  <2>3. QED
    BY <2>2 DEF Repeats
<1>8. CASE ResolveRace(t)
  <2>1. KeyHolders(tx[t].key) # {}
    BY <1>5, <1>8 DEF ResolveRace, At, Reserving
  <2>2. tx'[t].pc \in {"idle", "conflict"}
    BY <1>1, <1>8, <2>1 DEF ResolveRace, Goto, PgTypes, TxRow, Idle
  <2>3. QED
    BY <2>2
<1>9. QED
  BY <1>3, <1>6, <1>7, <1>8

\* Whoever repeats a request gets its run back: the second look-up under the
\* session's lock comes before the query that would refuse it.
THEOREM RepeatsAreReplayed == PgSpec => RepeatIsReplayed
<1>1. PgInv /\ [PgNext]_pgVars =>
        [\A t \in Txns :
          /\ tx'[t].op = "reserve" /\ tx'[t].pc \in {"busy", "not_found"}
          /\ tx[t].pc # tx'[t].pc
          => ~ \E r \in Runs : Replays(tx[t].key, tx[t].hash, r)]_pgVars
  BY RepeatStep DEF Repeats
<1>2. QED
  BY <1>1, LocksProtect, PTL DEF PgSpec, RepeatIsReplayed

\* What a transaction that waits for a lock can hold: a reservation before its
\* second look-up its session, a commit before its session its run.
LEMMA WaitersHold ==
    ASSUME PgInv, NEW t \in Txns, Requested(t) # {}, NEW row \in Runs \cup Sessions,
           lockedBy[row] = t
    PROVE  \/ /\ tx[t].op = "reserve" /\ tx[t].pc = "key_again"
              /\ row = tx[t].session /\ row \in Sessions
           \/ /\ tx[t].op = "commit" /\ tx[t].pc = "session"
              /\ row = tx[t].run /\ row \in Runs /\ tx[t].session \in Sessions
<1>1. PgTypes /\ TxInv(t) /\ RowsAreResolved
  BY DEF PgInv
<1>2. tx[t].pc \in {"key", "key_again", "run", "session"}
  BY DEF Requested
<1>3. tx[t].op \in Op
  BY <1>1 DEF PgTypes, TxRow
<1>4. CASE tx[t].op = "none" \/ tx[t].op = "interrupt"
  BY <1>1, <1>2, <1>4 DEF TxInv, Waiting, Idle, Interrupting
<1>5. CASE tx[t].op = "reserve"
  <2>1. Reserving(t)
    BY <1>1, <1>5 DEF TxInv
  <2>2. tx[t].pc = "key_again" /\ HoldsOnly(t, {tx[t].session}) /\ tx[t].session \in Sessions
    BY <1>2, <2>1 DEF Reserving, HoldsOnly, KnowsSession
  <2>3. QED
    BY <1>5, <2>2 DEF HoldsOnly
<1>6. CASE tx[t].op \in RunOps
  <2>1. OnRun(t)
    BY <1>1, <1>6 DEF TxInv
  <2>2. tx[t].pc = "session" /\ tx[t].op = "commit" /\ HoldsOnly(t, {tx[t].run})
    BY <1>2, <2>1 DEF OnRun, HoldsOnly
  <2>3. tx[t].run \in Runs /\ tx[t].session \in Sessions
    BY <1>1, <2>1, <2>2 DEF OnRun, Validated, RowsAreResolved
  <2>4. QED
    BY <2>2, <2>3 DEF HoldsOnly
<1>7. CASE tx[t].op \in SessionOps
  BY <1>1, <1>2, <1>7 DEF TxInv, OnSession, HoldsOnly
<1>8. QED
  BY <1>3, <1>4, <1>5, <1>6, <1>7 DEF Op

\* Two rows of different tables close a cycle only through a key.
LEMMA OnlyRepeatsDeadlock == PgInv => DeadlockNeedsARepeat
<1> SUFFICES ASSUME PgInv, NEW S \in SUBSET Txns, Deadlocked(S)
             PROVE  \E t, u \in S :
                /\ tx[t].op = "reserve" /\ tx[t].pc = "key_again" /\ tx[t].key # NoKey
                /\ tx[u].op = "commit" /\ request[tx[u].run].key = tx[t].key
  BY DEF DeadlockNeedsARepeat
<1>1. \A t \in S : \E u, v \in S : WaitsFor(t, u) /\ WaitsFor(v, t)
  BY DEF Deadlocked
<1>2. \A t \in S : tx[t].pc # "inserted"
  <2>1. ASSUME NEW t \in S, tx[t].pc = "inserted"
        PROVE  FALSE
    <3>1. PICK u \in S : WaitsFor(t, u)
      BY <1>1
    <3>2. Requested(t) = {}
      BY <2>1 DEF Requested
    <3>3. QED
      BY <2>1, <3>1, <3>2 DEF WaitsFor
  <2>2. QED
    BY <2>1
<1>3. ASSUME NEW t \in S, NEW u \in S, WaitsFor(t, u)
      PROVE  \E row \in Requested(t) : lockedBy[row] = u
  BY <1>2, <1>3 DEF WaitsFor, Inserting
<1>4. \A t \in S : Requested(t) \subseteq Runs \cup Sessions
  <2>1. ASSUME NEW t \in S
        PROVE  Requested(t) \subseteq Runs \cup Sessions
    <3>1. tx[t] \in TxRow /\ TxInv(t)
      BY DEF PgInv, PgTypes
    <3>2. CASE tx[t].pc \in {"key", "key_again"}
      BY <3>2 DEF Requested, KeyHolders
    <3>3. CASE tx[t].pc = "run"
      <4>1. tx[t].op \in RunOps
        BY <3>1, <3>3 DEF TxInv, TxRow, Op, Waiting, Idle, Reserving, OnSession, Interrupting
      <4>2. tx[t].run \in Runs
        BY <3>1, <4>1 DEF TxInv, OnRun
      <4>3. QED
        BY <3>3, <4>2 DEF Requested
    <3>4. CASE tx[t].pc = "session"
      BY <3>1, <3>4 DEF Requested, Wanted, TxRow
    <3>5. CASE tx[t].pc \notin {"key", "key_again", "run", "session"}
      BY <3>5 DEF Requested
    <3>6. QED
      BY <3>2, <3>3, <3>4, <3>5
  <2>2. QED
    BY <2>1
<1> DEFINE Repeating(t)  == tx[t].op = "reserve" /\ tx[t].pc = "key_again"
           Committing(t) == tx[t].op = "commit" /\ tx[t].pc = "session"
<1>5. ASSUME NEW t \in S, NEW u \in S, WaitsFor(t, u)
      PROVE  \E row \in Requested(t) :
                \/ Repeating(u) /\ row = tx[u].session /\ row \in Sessions
                \/ Committing(u) /\ row = tx[u].run /\ row \in Runs /\ tx[u].session \in Sessions
  <2>1. PICK row \in Requested(t) : lockedBy[row] = u /\ row \in Runs \cup Sessions
    BY <1>3, <1>4, <1>5
  <2>2. Requested(u) # {}
    BY <1>1, <1>3
  <2>3. QED
    BY <2>1, <2>2, WaitersHold
<1>6. \A t \in S : Repeating(t) => Requested(t) = KeyHolders(tx[t].key)
  BY DEF Requested
<1>7. \A t \in S : Committing(t) => Requested(t) \subseteq {tx[t].session}
  BY DEF Requested, Wanted
<1>8. ASSUME NEW t \in S, NEW u \in S, WaitsFor(t, u), Repeating(t)
      PROVE  \E v, x \in S :
                /\ tx[v].op = "reserve" /\ tx[v].pc = "key_again" /\ tx[v].key # NoKey
                /\ tx[x].op = "commit" /\ request[tx[x].run].key = tx[v].key
  <2>1. PICK row \in KeyHolders(tx[t].key) :
            \/ Repeating(u) /\ row = tx[u].session /\ row \in Sessions
            \/ Committing(u) /\ row = tx[u].run /\ row \in Runs /\ tx[u].session \in Sessions
    BY <1>5, <1>6, <1>8
  <2>2. row \in Runs /\ tx[t].key # NoKey /\ request[row].key = tx[t].key
    BY <2>1 DEF KeyHolders
  <2>3. Committing(u) /\ row = tx[u].run
    BY <2>1, <2>2, RowsOfTwoTables
  <2>4. QED
    BY <1>8, <2>2, <2>3
<1>9. PICK t \in S : TRUE
  BY DEF Deadlocked
<1>10. PICK u, v \in S : WaitsFor(t, u) /\ WaitsFor(v, t)
  BY <1>1
<1>11. Repeating(t) \/ Committing(t)
  BY <1>5, <1>10
<1>12. CASE Repeating(t)
  BY <1>8, <1>10, <1>12
<1>13. CASE Committing(t)
  <2>1. PICK row \in Requested(v) : row = tx[t].run /\ row \in Runs
    BY <1>5, <1>10, <1>13
  <2>2. PICK w \in S : WaitsFor(w, v)
    BY <1>1
  <2>3. Repeating(v) \/ (Committing(v) /\ tx[v].session \in Sessions)
    BY <1>5, <2>2
  <2>4. ~ (Committing(v) /\ tx[v].session \in Sessions)
    BY <1>7, <2>1, RowsOfTwoTables
  <2>5. QED
    BY <1>8, <1>10, <2>3, <2>4
<1>14. QED
  BY <1>11, <1>12, <1>13

\* Only a reservation that repeats the key of a run being committed can be part
\* of a deadlock, so a client that is told so finds its run when it tries again.
THEOREM DeadlocksAreRepeats == PgSpec => []DeadlockNeedsARepeat
<1>1. QED
  BY OnlyRepeatsDeadlock, LocksProtect, PTL
=============================================================================
