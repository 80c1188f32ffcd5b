SPECIFICATION PgSpec
CONSTANTS
    Runs = {r1, r2}
    Sessions = {s1, s2}
    Keys = {k1}
    Payloads = {p1}
    Hashes <- MCHashes
    Workers = {w1}
    Txns = {t1, t2}
    NoTxn = NoTxn
    NoKey = NoKey
    NoSession = NoSession
    NoRun = NoRun
    Retention = 1
    MaxDeltas = 2
    MaxAttempts = 1
    MaxVersion = 2
    MaxTime = 0
    Lag = 0
CONSTRAINT OneRunOrReservations
SYMMETRY Symmetry
INVARIANTS
    RacesAreResolved
    DeadlockNeedsARepeat
PROPERTIES
    RepeatIsReplayed
    ImplementsStore
CHECK_DEADLOCK FALSE
