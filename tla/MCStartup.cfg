SPECIFICATION Spec
CONSTANTS
    Runs = {r1}
    Sessions = {s1}
    Keys = {k1}
    Payloads = {p1}
    Hashes <- MCHashes
    Workers = {w1, w2}
    Cancels = {}
    NoKey = NoKey
    NoSession = NoSession
    NoRun = NoRun
    Retention = 1
    MaxDeltas = 3
    MaxAttempts = 3
    RetryLimit = 1
    MaxVersion = 2
    MaxTime = 0
    Lag = 0
    Outages = FALSE
    Crashes = TRUE
    Shutdowns = FALSE
CHECK_DEADLOCK FALSE
PROPERTIES StartupInterruptsPriorInstances
