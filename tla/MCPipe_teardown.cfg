SPECIFICATION SafetySpec
CONSTANTS
    t1 = t1
    t2 = t2
    t3 = t3
    NoTask = NoTask
    Pipes = {1, 2}
    Tasks = {t1, t2}
    Kind <- LateKind
    Mode <- LateMode
    Teardown = {2}
INVARIANT ObjectOutlivesAccess
