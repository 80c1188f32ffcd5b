SPECIFICATION Spec
CONSTANTS
    Runs = {r1, r2}
    Sessions = {s1}
    Keys = {k1}
    Payloads = {p1}
    Hashes <- MCHashes
    Workers = {w1, w2}
    Cancels = {c1}
    NoKey = NoKey
    NoSession = NoSession
    NoRun = NoRun
    Retention = 1
    MaxDeltas = 3
    MaxAttempts = 3
    RetryLimit = 2
    MaxVersion = 3
    MaxTime = 0
    Lag = 0
    Outages = TRUE
    Crashes = TRUE
    Shutdowns = TRUE
CHECK_DEADLOCK FALSE
CONSTRAINT OneCallOrFaultsAlone
SYMMETRY Symmetry
INVARIANTS
    TypeOK
    ActiveRunHasAnOwner
    CancelStopsProvider
    OneExecutionPerKey
    SuccessIsDurable
    GaugeCoversTasks
PROPERTIES
    DeadRunsAreNotResumed
    KeepsAttemptContract
