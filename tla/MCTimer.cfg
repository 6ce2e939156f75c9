SPECIFICATION Spec
CONSTANTS
    s1 = s1
    t1 = t1
    u1 = u1
    r1 = r1
    Sleeps = {s1}
    Ticks = {t1}
    Users = {u1}
    Deadline <- Later
    Period = 2
    Programs <- SomePrograms
    Requesters = {r1}
    MaxClock = 3
    Timer = Timer
    Closer = Closer
    None = None
INVARIANT FateKept
PROPERTIES OnTime WaitsAndTeardownsEnd
CHECK_DEADLOCK FALSE
