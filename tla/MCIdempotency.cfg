SPECIFICATION Spec
CONSTANTS
    Runs = {r1, r2}
    Sessions = {s1}
    Keys = {k1}
    Payloads = {p1, p2}
    Hashes <- MCHashes
    Workers = {w1}
    Cancels = {c1}
    NoKey = NoKey
    NoSession = NoSession
    NoRun = NoRun
    Retention = 1
    MaxDeltas = 0
    MaxAttempts = 3
    RetryLimit = 1
    MaxVersion = 4
    MaxTime = 0
    Lag = 0
    Outages = FALSE
    Crashes = FALSE
    Shutdowns = FALSE
CHECK_DEADLOCK FALSE
SYMMETRY Symmetry
INVARIANTS
    SuccessIsDurable
PROPERTIES
    TurnFollowsItsHistory
