SPECIFICATION StoreSpec
CONSTANTS
    Runs = {r1, r2}
    Sessions = {s1, s2}
    Keys = {k1}
    Hashes = {h1}
    Workers = {w1, w2}
    NoKey = NoKey
    NoSession = NoSession
    NoRun = NoRun
    Retention = 2
    MaxDeltas = 3
    MaxAttempts = 1
    MaxVersion = 3
    MaxTime = 3
    Lag = 1
CONSTRAINT CompetitionOrTime
SYMMETRY Symmetry
INVARIANTS
    StoreTypeOK
    OneActiveRunPerSession
    KeyNamesOneRun
    LogAgreesWithStatus
    OnlyCompletedTurns
    EndStaysReadable
PROPERTIES
    TerminalRunsAreFrozen
    ActiveRunOwnsTranscript
    LogIsAppendOnly
    ImplementsContract
CHECK_DEADLOCK FALSE
