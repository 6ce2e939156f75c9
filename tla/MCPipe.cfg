SPECIFICATION Spec
CONSTANTS
    t1 = t1
    t2 = t2
    t3 = t3
    NoTask = NoTask
    Pipes = {1, 2}
    Tasks = {t1, t2, t3}
    Kind <- PairKind
    Mode <- PairMode
    Teardown = {1}
INVARIANTS
    MutualExclusion
    GrantAccounting
    HeldUntilSettled
    EpochsKept
    LifetimesKept
PROPERTIES
    FifoWorkConserving
    AccessesEnd
    ImplementsExclusiveAccess
