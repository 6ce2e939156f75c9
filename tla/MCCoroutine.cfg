SPECIFICATION Spec
CONSTANTS
    Threads = {1, 2}
    Frames = {a, b, d}
    Signals = {sig}
    Objects = {1, 2, 3}
    Scenarios <- SomePrograms
    Rank <- SomeRanks
    MaxGate = 3
    a = a
    b = b
    d = d
    sig = sig
    None = None
INVARIANTS
    ResumedOnce
    AmbientRestored
    WaitsAccounted
PROPERTY CoroutinesFinish
CHECK_DEADLOCK FALSE
