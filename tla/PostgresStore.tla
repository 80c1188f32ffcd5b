---------------------------- MODULE PostgresStore ----------------------------
(***************************************************************************)
(* The operations of database/store.py statement by statement, under the   *)
(* READ COMMITTED isolation and the row locks of PostgreSQL.  The store    *)
(* variables are the committed rows.  A transaction loads attributes under *)
(* SELECT ... FOR UPDATE, computes what to write from what it loaded, and  *)
(* its writes become visible when it commits; unique constraints are       *)
(* enforced by waiting for a transaction that holds the same value.        *)
(*                                                                         *)
(* ImplementsStore shows that this is the atomic RuntimeStore.  The clock  *)
(* and prune_stream_events stay there: its DELETE waits for no row lock.   *)
(***************************************************************************)
EXTENDS RuntimeStore

CONSTANTS
    Txns,       \* the connections of the pool
    NoTxn,      \* nobody holds the row
    Payloads    \* what a request hash tells apart besides the session_id

ASSUME NoTxnIsNotATxn == NoTxn \notin Txns
ASSUME HashesAreRequests ==
    Payloads \X (Sessions \cup {NoSession}) \subseteq Hashes
ASSUME RowsOfTwoTables == Runs \cap Sessions = {}

VARIABLES
    tx,         \* the operation a connection executes
    lockedBy    \* the connection that holds the lock of a run or session row

pgVars == <<storeVars, tx, lockedBy>>

\* The operations on one run, and those on one session's transcript.
RunOps     == {"mark", "attempt", "delta", "commit", "fail", "cancel"}
SessionOps == {"append", "clear"}

Idle == [pc |-> "idle", op |-> "none", run |-> NoRun, session |-> NoSession,
         param |-> NoSession, key |-> NoKey, hash |-> NoRun, worker |-> NoRun,
         rows |-> {}, version |-> 0, attempts |-> 0, length |-> 0, sequence |-> 0]

PgInit ==
    /\ StoreInit
    /\ tx = [t \in Txns |-> Idle]
    /\ lockedBy = [row \in Runs \cup Sessions |-> NoTxn]

-----------------------------------------------------------------------------
(* Locks and the ends of a transaction. *)

At(t, op, at)   == tx[t].pc = at /\ tx[t].op \in op
CanLock(t, row) == lockedBy[row] \in {NoTxn, t}
Lock(t, rows)   ==
    lockedBy' = [row \in DOMAIN lockedBy |-> IF row \in rows THEN t ELSE lockedBy[row]]
Release(t)      ==
    lockedBy' = [row \in DOMAIN lockedBy |->
                    IF lockedBy[row] = t THEN NoTxn ELSE lockedBy[row]]

Goto(t, at) == tx' = [tx EXCEPT ![t].pc = at]

\* The server aborts the transaction: its locks are free at once.
Abort(t, at) == Goto(t, at) /\ Release(t) /\ UNCHANGED storeVars

\* COMMIT of what the enclosing action writes.
EndTx(t) == tx' = [tx EXCEPT ![t] = Idle] /\ Release(t)

\* The block is left by an exception or without a write.
Leave(t) ==
    /\ tx[t].pc \in {"busy", "not_found", "conflict", "refused", "unavailable"}
    /\ EndTx(t)
    /\ UNCHANGED storeVars

-----------------------------------------------------------------------------
(* reserve_run *)

BeginReserve(t, param, payload, k, w) ==
    /\ tx[t] = Idle
    /\ tx' = [tx EXCEPT ![t] = [Idle EXCEPT
                 !.pc = "key", !.op = "reserve", !.param = param, !.key = k,
                 !.hash = <<payload, param>>, !.worker = w]]
    /\ UNCHANGED <<storeVars, lockedBy>>

\* Mutant of LookUpKey: the second look-up is left out.
LookUpKeyOnce(t) ==
    \/ /\ At(t, {"reserve"}, "key")
       /\ \/ \E r \in KeyHolders(tx[t].key) :
                /\ CanLock(t, r)
                /\ Lock(t, {r})
                /\ Goto(t, IF request[r].hash = tx[t].hash THEN "replay" ELSE "conflict")
          \/ KeyHolders(tx[t].key) = {} /\ Goto(t, "session") /\ UNCHANGED lockedBy
       /\ UNCHANGED storeVars
    \/ At(t, {"reserve"}, "key_again") /\ Goto(t, "active") /\ UNCHANGED <<storeVars, lockedBy>>

\* _idempotent_run(lock=True), before and again after the session's lock.
LookUpKey(t) ==
    /\ At(t, {"reserve"}, "key") \/ At(t, {"reserve"}, "key_again")
    /\ \/ \E r \in KeyHolders(tx[t].key) :
             /\ CanLock(t, r)
             /\ Lock(t, {r})
             /\ Goto(t, IF request[r].hash = tx[t].hash THEN "replay" ELSE "conflict")
       \/ /\ KeyHolders(tx[t].key) = {}
          /\ Goto(t, IF tx[t].pc = "key" THEN "session" ELSE "active")
          /\ UNCHANGED lockedBy
    /\ UNCHANGED storeVars

\* Without a session_id the row of a fresh identifier is inserted and so held.
InsertSession(t) ==
    /\ At(t, {"reserve"}, "session")
    /\ tx[t].param = NoSession
    /\ \E s \in Sessions :
          /\ ~ Exists(s)
          /\ lockedBy[s] = NoTxn
          /\ Lock(t, {s})
          /\ tx' = [tx EXCEPT ![t].pc = "key_again", ![t].session = s]
    /\ UNCHANGED storeVars

\* The insert of agent_runs waits for another insert of its key to commit or
\* abort; then the unique key and the unique active run of a session apply.
Inserting(k) == {u \in Txns : tx[u].pc = "inserted" /\ tx[u].key = k /\ k # NoKey}

InsertRun(t) ==
    /\ At(t, {"reserve"}, "insert")
    /\ Inserting(tx[t].key) = {}
    /\ IF KeyHolders(tx[t].key) # {} \/ ActiveRuns(tx[t].session) # {}
       THEN Abort(t, "race")
       ELSE \E r \in Runs :
               /\ status[r] = ABSENT
               /\ lockedBy[r] = NoTxn
               /\ Lock(t, {r})
               /\ tx' = [tx EXCEPT ![t].pc = "inserted", ![t].run = r]
               /\ UNCHANGED storeVars

CommitReservation(t) ==
    /\ At(t, {"reserve"}, "inserted")
    /\ LET r == tx[t].run
           s == tx[t].session
       IN  /\ version' = [version EXCEPT ![s] = IF tx[t].param = NoSession THEN 1 ELSE @]
           /\ status' = [status EXCEPT ![r] = PENDING]
           /\ request' = [request EXCEPT ![r] =
                            [session |-> s, key |-> tx[t].key, hash |-> tx[t].hash]]
           /\ owner' = [owner EXCEPT ![r] = tx[t].worker]
    /\ EndTx(t)
    /\ UNCHANGED <<transcript, attempts, completedAt, events, now>>

\* return from inside the block: what was inserted so far is committed.
CommitReplay(t) ==
    /\ At(t, {"reserve"}, "replay")
    /\ version' = [s \in Sessions |->
                     IF s = tx[t].session /\ tx[t].param = NoSession THEN 1 ELSE version[s]]
    /\ EndTx(t)
    /\ UNCHANGED <<transcript, runVars, events, now>>

\* Mutant of ResolveRace: only the session is asked, not the key.
ResolveRaceBySession(t) ==
    /\ At(t, {"reserve"}, "race")
    /\ \/ ActiveRuns(tx[t].session) # {} /\ Goto(t, "busy")
       \/ ActiveRuns(tx[t].session) = {} /\ Goto(t, "unavailable")
    /\ UNCHANGED <<storeVars, lockedBy>>

\* _resolve_reservation_race, after the rollback and without locks.
ResolveRace(t) ==
    /\ At(t, {"reserve"}, "race")
    /\ \/ \E r \in KeyHolders(tx[t].key) :
             \/ /\ request[r].hash = tx[t].hash
                /\ tx' = [tx EXCEPT ![t] = Idle]
             \/ request[r].hash # tx[t].hash /\ Goto(t, "conflict")
       \/ /\ KeyHolders(tx[t].key) = {}
          /\ Goto(t, IF ActiveRuns(tx[t].session) # {} THEN "busy" ELSE "unavailable")
    /\ UNCHANGED <<storeVars, lockedBy>>

-----------------------------------------------------------------------------
(* The operations on one run: lock it, validate, read the next sequence,   *)
(* write.  commit_run_success locks the session between the two.           *)

BeginRunOp(t, op, r, w) ==
    /\ tx[t] = Idle
    /\ status[r] # ABSENT
    /\ tx' = [tx EXCEPT ![t] =
                 [Idle EXCEPT !.pc = "run", !.op = op, !.run = r, !.worker = w]]
    /\ UNCHANGED <<storeVars, lockedBy>>

Target(op) == CASE op = "mark"   -> RUNNING
                [] op = "commit" -> COMPLETED
                [] op = "fail"   -> FAILED
                [] op = "cancel" -> CANCELLED

\* What the operation requires of the row it has just locked.
Permitted(op, r, w) ==
    CASE op = "delta"   -> TRUE
      [] op = "attempt" -> status[r] = RUNNING \/ ValidRunTransition(status[r], RUNNING)
      [] op = "cancel"  -> Active(r) /\ owner[r] = w
      [] OTHER          -> ValidRunTransition(status[r], Target(op))

\* Where a permitted operation goes on.
AfterRun(op) == CASE op = "commit"  -> "session"
                  [] op = "attempt" -> "write"
                  [] OTHER          -> "sequence"

\* Mutant of LockRun: the row is read without FOR UPDATE.
ReadRun(t) ==
    /\ At(t, RunOps, "run")
    /\ LET r  == tx[t].run
           op == tx[t].op
       IN  tx' = [tx EXCEPT
                 ![t].attempts = attempts[r],
                 ![t].session  = request[r].session,
                 ![t].pc       = IF Permitted(op, r, tx[t].worker)
                                 THEN AfterRun(op) ELSE "refused"]
    /\ UNCHANGED <<storeVars, lockedBy>>

LockRun(t) ==
    /\ At(t, RunOps, "run")
    /\ LET r  == tx[t].run
           op == tx[t].op
       IN  /\ CanLock(t, r)
           /\ op = "attempt" => attempts[r] < MaxAttempts
           /\ op = "delta" => NextSequence(r) <= MaxDeltas
           /\ Lock(t, {r})
           /\ tx' = [tx EXCEPT
                 ![t].attempts = attempts[r],
                 ![t].session  = request[r].session,
                 ![t].pc       = IF Permitted(op, r, tx[t].worker)
                                 THEN AfterRun(op) ELSE "refused"]
    /\ UNCHANGED storeVars

BeginSessionOp(t, op, s) ==
    /\ tx[t] = Idle
    /\ tx' = [tx EXCEPT ![t] = [Idle EXCEPT !.pc = "session", !.op = op, !.session = s]]
    /\ UNCHANGED <<storeVars, lockedBy>>

\* _locked_session, of reserve_run, append_message, clear_session and
\* commit_run_success.
Wanted(t) == IF tx[t].op = "reserve" THEN tx[t].param ELSE tx[t].session

AfterSession(op) == CASE op = "reserve" -> "key_again"
                      [] op = "commit"  -> "sequence"
                      [] OTHER          -> "active"

LockSession(t) ==
    /\ At(t, {"reserve", "commit"} \cup SessionOps, "session")
    /\ Wanted(t) # NoSession
    /\ LET s == Wanted(t)
       IN  \/ ~ Exists(s) /\ Goto(t, "not_found") /\ UNCHANGED lockedBy
           \/ /\ Exists(s)
              /\ CanLock(t, s)
              /\ tx[t].op # "reserve" => version[s] < MaxVersion
              /\ Lock(t, {s})
              /\ tx' = [tx EXCEPT ![t].session = s, ![t].version = version[s],
                                  ![t].pc = AfterSession(tx[t].op)]
    /\ UNCHANGED storeVars

\* _active_run: a plain read of the committed rows.
QueryActive(t) ==
    /\ At(t, {"reserve"} \cup SessionOps, "active")
    /\ Goto(t, IF ActiveRuns(tx[t].session) # {} THEN "busy"
               ELSE IF tx[t].op = "reserve" THEN "insert" ELSE "sequence")
    /\ UNCHANGED <<storeVars, lockedBy>>

\* _next_message_sequence and the maximum _append_event asks for.
ReadSequences(t) ==
    /\ At(t, RunOps \cup SessionOps, "sequence")
    /\ LET r == tx[t].run
           s == tx[t].session
       IN  tx' = [tx EXCEPT
              ![t].length   = IF tx[t].op \in {"commit", "append"}
                              THEN Len(transcript[s]) ELSE 0,
              ![t].sequence = IF tx[t].op \in RunOps THEN NextSequence(r) ELSE 0,
              ![t].pc       = "write"]
    /\ UNCHANGED <<storeVars, lockedBy>>

-----------------------------------------------------------------------------
(* The flush and the COMMIT of an operation on a run or a transcript. *)

\* uq_agent_stream_events_run_sequence, uq_agent_messages_session_sequence
Duplicate(t) ==
    \/ /\ tx[t].op \in RunOps \ {"attempt"}
       /\ \E e \in events[tx[t].run] : e.sequence = tx[t].sequence
    \/ /\ tx[t].op \in {"commit", "append"}
       /\ Len(transcript[tx[t].session]) > tx[t].length

Added(t) == CASE tx[t].op = "commit" -> <<[role |-> "user", run |-> tx[t].run],
                                          [role |-> "assistant", run |-> tx[t].run]>>
              [] tx[t].op = "append" -> <<[role |-> "user", run |-> NoRun]>>

EventOf(t, at) ==
    [sequence  |-> tx[t].sequence, createdAt |-> at,
     type      |-> CASE tx[t].op = "mark"  -> RUN_STARTED
                     [] tx[t].op = "delta" -> RESPONSE_DELTA
                     [] OTHER              -> AnnouncedBy(Target(tx[t].op))]

WriteTranscript(t) ==
    LET s == tx[t].session
    IN  IF tx[t].op \in {"commit"} \cup SessionOps
        THEN /\ version' = [version EXCEPT ![s] = tx[t].version + 1]
             /\ transcript' = [transcript EXCEPT ![s] =
                                  IF tx[t].op = "clear" THEN <<>> ELSE @ \o Added(t)]
        ELSE UNCHANGED <<version, transcript>>

WriteRun(t) ==
    LET r  == tx[t].run
        op == tx[t].op
    IN  /\ status' = IF op \in {"delta", "attempt"} \cup SessionOps THEN status
                     ELSE [status EXCEPT ![r] = Target(op)]
        /\ \E done \in Timestamps :
              completedAt' = IF op \in {"commit", "fail", "cancel"}
                             THEN [completedAt EXCEPT ![r] = done] ELSE completedAt
        /\ owner' = IF op = "mark" THEN [owner EXCEPT ![r] = tx[t].worker] ELSE owner
        /\ attempts' = IF op = "attempt" THEN [attempts EXCEPT ![r] = tx[t].attempts + 1]
                       ELSE attempts
        /\ \E at \in Timestamps :
              events' = IF op \in {"attempt"} \cup SessionOps THEN events
                        ELSE [events EXCEPT ![r] = @ \cup {EventOf(t, at)}]

Write(t) ==
    /\ At(t, RunOps \cup SessionOps, "write")
    /\ IF Duplicate(t)
       THEN Abort(t, "unavailable")
       ELSE WriteTranscript(t) /\ WriteRun(t) /\ EndTx(t) /\ UNCHANGED <<request, now>>

-----------------------------------------------------------------------------
(* _interrupt_matching: lock what nobody holds, then write all of it. *)

SelectMatching(t, w, sameWorker) ==
    LET rows == {r \in Matching(w, sameWorker) : lockedBy[r] = NoTxn}
    IN  /\ tx[t] = Idle
        /\ rows # {}
        /\ Lock(t, rows)
        /\ tx' = [tx EXCEPT ![t] = [Idle EXCEPT !.pc = "write", !.op = "interrupt",
                                                !.rows = rows]]
        /\ UNCHANGED storeVars

WriteInterrupted(t) ==
    /\ At(t, {"interrupt"}, "write")
    /\ status' = [r \in Runs |-> IF r \in tx[t].rows THEN INTERRUPTED ELSE status[r]]
    /\ \E done \in [tx[t].rows -> Timestamps] :
          completedAt' = [r \in Runs |-> IF r \in tx[t].rows THEN done[r] ELSE completedAt[r]]
    /\ \E at \in Timestamps :
          events' = [r \in Runs |->
                       IF r \in tx[t].rows
                       THEN events[r] \cup {AppendedEvent(r, RUN_INTERRUPTED, at)}
                       ELSE events[r]]
    /\ EndTx(t)
    /\ UNCHANGED <<sessionVars, request, owner, attempts, now>>

-----------------------------------------------------------------------------
(* Waiting. *)

\* The rows whose lock a statement of t asks for.
Requested(t) ==
    CASE tx[t].pc \in {"key", "key_again"} -> KeyHolders(tx[t].key)
      [] tx[t].pc = "run"                  -> {tx[t].run}
      [] tx[t].pc = "session" /\ Wanted(t) # NoSession -> {Wanted(t)}
      [] OTHER                             -> {}

WaitsFor(t, u) ==
    /\ t # u
    /\ \/ \E row \in Requested(t) : lockedBy[row] = u
       \/ tx[t].pc = "insert" /\ u \in Inserting(tx[t].key)

\* Nobody waits for two others, so everyone in such a set is on a cycle.
Deadlocked(S) ==
    /\ S # {}
    /\ \A t \in S : \E u, v \in S : WaitsFor(t, u) /\ WaitsFor(v, t)

\* The deadlock detector aborts one of them: DatabaseUnavailableError.
AbortVictim(t) ==
    /\ \E S \in SUBSET Txns : t \in S /\ Deadlocked(S)
    /\ tx' = [tx EXCEPT ![t] = Idle]
    /\ Release(t)
    /\ UNCHANGED storeVars

-----------------------------------------------------------------------------

ReserveStep(t) ==
    \/ LookUpKey(t) \/ InsertSession(t) \/ InsertRun(t) \/ CommitReservation(t)
    \/ CommitReplay(t) \/ ResolveRace(t)

TxStep(t) ==
    \/ ReserveStep(t) \/ LockRun(t) \/ LockSession(t) \/ QueryActive(t)
    \/ ReadSequences(t) \/ Write(t) \/ WriteInterrupted(t) \/ Leave(t)

BeginStep(t) ==
    \/ \E param \in Sessions \cup {NoSession}, p \in Payloads, k \in Keys \cup {NoKey},
          w \in Workers : BeginReserve(t, param, p, k, w)
    \/ \E op \in RunOps, r \in Runs, w \in Workers : BeginRunOp(t, op, r, w)
    \/ \E op \in SessionOps, s \in Sessions : BeginSessionOp(t, op, s)
    \/ \E w \in Workers, sameWorker \in BOOLEAN : SelectMatching(t, w, sameWorker)

\* create_session is a single insert.
InsertNewSession ==
    \E s \in Sessions : lockedBy[s] = NoTxn /\ CreateSession(s) /\ UNCHANGED <<tx, lockedBy>>

PgNext ==
    \/ InsertNewSession
    \/ \E t \in Txns : BeginStep(t) \/ TxStep(t) \/ AbortVictim(t)

PgSpec == PgInit /\ [][PgNext]_pgVars

-----------------------------------------------------------------------------
(* Safety. *)

\* Every interleaving of statements is a sequence of the atomic operations the
\* Supervisor relies on: locks, re-reads and unique constraints lose no update
\* and let no second active run, holder of a key or end of a run through.
ImplementsStore == StoreSpec

\* A repeated request is replayed, never refused as busy or unknown: whoever
\* waited for the first one's session lock looks its key up again.
RepeatIsReplayed ==
    [][\A t \in Txns :
          /\ tx'[t].op = "reserve" /\ tx'[t].pc \in {"busy", "not_found"}
          /\ tx[t].pc # tx'[t].pc
          => ~ \E r \in Runs : Replays(tx[t].key, tx[t].hash, r)]_pgVars

\* No constraint violation reaches a client as DatabaseUnavailableError: the
\* sequences computed under the row locks are fresh, and a lost reservation
\* race always turns into a replay, a conflict or a busy session.
RacesAreResolved == \A t \in Txns : tx[t].pc # "unavailable"

\* commit_run_success locks run then session, reserve_run session then run:
\* transactions that wait for each other always include a reservation which
\* repeats the key of a run that is being committed.
DeadlockNeedsARepeat ==
    \A S \in SUBSET Txns :
        Deadlocked(S) =>
            \E t, u \in S :
                /\ tx[t].op = "reserve" /\ tx[t].pc = "key_again" /\ tx[t].key # NoKey
                /\ tx[u].op = "commit" /\ request[tx[u].run].key = tx[t].key
=============================================================================
