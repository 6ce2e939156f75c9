SPECIFICATION Spec
CONSTANTS
    t1 = t1
    t2 = t2
    t3 = t3
    t4 = t4
    e1 = e1
    NoTask = NoTask
    N = 2
    Tasks = {t1, t2, t3, t4}
    Priority <- ForkPriority
    Spawns <- ForkSpawns
    Externals = {e1}
    Program <- ForkProgram
    Policies = {"spin", "spin_then_block", "handoff"}
    SpinCycles = 1
    DequeCap = 1
    LowValve = 1
    GlobalValve = 1
INVARIANTS
    RunOnceAndDrained
    CountsSafe
PROPERTY WorkAndWorkersEnd
