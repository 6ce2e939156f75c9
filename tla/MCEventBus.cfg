SPECIFICATION Spec
CONSTANTS
    t1 = t1
    t2 = t2
    None = None
    Uses = {"program", "bus"}
    Producers = {p1, p2}
    Commits = {c1, c2}
    Writers = {w1}
    MaxMinted = 2
    MaxStaged = 2
    Threads = {t1, t2}
    lane <- Lanes
    NumLanes = 2
    Events = {e1}
    Subs = {s1, s2}
    Pinned = {s2}
    Dispatch = Dispatch
    MaxDispatch = 2
INVARIANTS
    CommandsKept
    DeliveryExact
PROPERTY CallsReturn
CHECK_DEADLOCK FALSE
