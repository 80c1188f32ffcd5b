SPECIFICATION Spec
CONSTANTS
    Runs = {r1}
    Sessions = {s1}
    Keys = {}
    Hashes = {h1}
    Workers = {w1}
    NoKey = NoKey
    NoSession = NoSession
    NoRun = NoRun
    Retention = 2
    MaxDeltas = 3
    MaxAttempts = 0
    MaxVersion = 2
    MaxTime = 3
    Lag = 1
    Readers = {c1}
    MaxDrops = 1
CONSTRAINT OnlyTheRunWrites
CHECK_DEADLOCK FALSE
INVARIANTS
    NoGapBehindCursor
    ReceivedEndIsTrue
PROPERTIES
    ResumingClientLearnsTheEnd
