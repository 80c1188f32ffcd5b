SPECIFICATION Spec
CONSTANTS
    Runs = {r1, r2}
    Sessions = {s1, s2}
    Keys = {k1}
    Hashes = {h1}
    Workers = {w1, w2}
    NoKey = NoKey
    NoSession = NoSession
    NoRun = NoRun
    Retention = 1
    MaxDeltas = 3
    MaxAttempts = 1
    MaxVersion = 3
    MaxTime = 2
CONSTRAINT CompetitionOrTime
SYMMETRY Symmetry
INVARIANTS
    DictionariesAgree
    ActiveLogIsNumbered
PROPERTIES
    MatchesRelationalStore
    ImplementsContract
CHECK_DEADLOCK FALSE
