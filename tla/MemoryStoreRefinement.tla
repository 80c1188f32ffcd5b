----------------------- MODULE MemoryStoreRefinement -------------------------
(***************************************************************************)
(* What the in-memory store has in common with the relational one: both    *)
(* implement the client contract, and until a log is pruned the in-memory  *)
(* store takes only steps the relational store can take.                   *)
(***************************************************************************)
EXTENDS MemoryStore

Known(r)      == r \in DOMAIN runs
Column(field, default) ==
    [r \in Runs |-> IF Known(r) THEN runs[r][field] ELSE default]

VersionOf(s)    == IF s \in DOMAIN sessions THEN sessions[s] ELSE 0
TranscriptOf(s) == IF s \in DOMAIN messages THEN messages[s] ELSE <<>>
RequestOf(r)    ==
    IF Known(r) THEN [session |-> runs[r].session, key |-> runs[r].key, hash |-> runs[r].hash]
                ELSE [session |-> NoSession, key |-> NoKey, hash |-> NoRun]
EventsOf(r)     == IF Known(r) THEN {log[r][i] : i \in DOMAIN log[r]} ELSE {}

\* The in-memory store reads the one clock of its process, and waits for nobody
\* between two readings.
Relational == INSTANCE RuntimeStore WITH
    Lag         <- 0,
    version     <- [s \in Sessions |-> VersionOf(s)],
    transcript  <- [s \in Sessions |-> TranscriptOf(s)],
    status      <- Column("status", ABSENT),
    request     <- [r \in Runs |-> RequestOf(r)],
    owner       <- Column("owner", NoRun),
    attempts    <- Column("attempts", 0),
    completedAt <- Column("completedAt", 0),
    events      <- [r \in Runs |-> EventsOf(r)],
    now         <- now

PhaseOf(r) == IF Active(r) THEN "active" ELSE runs[r].status
TurnsOf(s) == {TranscriptOf(s)[i].run : i \in DOMAIN TranscriptOf(s)} \ {NoRun}

Contract == INSTANCE RunContract WITH
    phase <- [r \in Runs |-> IF Known(r) THEN PhaseOf(r) ELSE ABSENT],
    on    <- Column("session", NoSession),
    bound <- [k \in Keys |-> IF k \in DOMAIN idempotency THEN {idempotency[k]} ELSE {}],
    turns <- [s \in Sessions |-> TurnsOf(s)]

\* The in-memory store keeps the promise the relational store is shown to
\* keep, for ever and whatever is pruned: serial turns, one run per key, one
\* outcome per run.
ImplementsContract == Contract!Spec

\* Every log is whole: nothing has been pruned from it.
Unpruned == \A r \in DOMAIN log : \A i \in DOMAIN log[r] : log[r][i].sequence = i

\* Code tested against the in-memory store sees only behaviour the relational
\* store has: every step from a state with whole logs is one of its
\* transactions.
MatchesRelationalStore ==
    [][Unpruned => Relational!StoreNext \/ UNCHANGED Relational!storeVars]_vars
=============================================================================
