SPECIFICATION Spec
CONSTANTS
    Runs = {r1}
    Sessions = {s1}
    Keys = {}
    Hashes = {h1}
    Workers = {w1}
    NoKey = NoKey
    NoSession = NoSession
    NoRun = NoRun
    Retention = 1
    MaxDeltas = 3
    MaxAttempts = 0
    MaxVersion = 2
    MaxTime = 0
    Lag = 0
    Readers = {c1}
    MaxDrops = 1
CHECK_DEADLOCK FALSE
INVARIANTS StreamEndsWithTerminalEvent
