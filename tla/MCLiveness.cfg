SPECIFICATION FairSpec
CONSTANTS
    Runs = {r1, r2}
    Sessions = {s1}
    Keys = {k1}
    Payloads = {p1}
    Hashes <- MCHashes
    Workers = {w1}
    Cancels = {c1}
    NoKey = NoKey
    NoSession = NoSession
    NoRun = NoRun
    Retention = 1
    MaxDeltas = 0
    MaxAttempts = 3
    RetryLimit = 2
    MaxVersion = 3
    MaxTime = 0
    Lag = 0
    Outages = FALSE
    Crashes = FALSE
    Shutdowns = FALSE
CHECK_DEADLOCK FALSE
CONSTRAINT OneRunOrNobodyGivesUp
PROPERTIES
    EveryRunEnds
    EveryCallerIsAnswered
    EveryCancelReturns
