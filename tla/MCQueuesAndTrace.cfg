SPECIFICATION PartSpec
CONSTANTS
    p1 = p1
    p2 = p2
    c1 = c1
    c2 = c2
    o1 = o1
    NoItem = NoItem
    RingSize = 2
    Producers = {p1, p2}
    Consumers = {c1, c2}
    Observers = {o1}
    Quota <- Uneven
    v1 = v1
    v2 = v2
    Capacity = 2
    Thieves = {v1, v2}
    MaxPush = 6
    Slots = {1}
    MaxClock = 4
    MaxTraces = 2
    NodeCount = 3
    SlackEps = 1
    MaxStart = 2
    MaxDuration = 1
    MaxFolds = 2
INVARIANTS
    ItemsKept
    ExactlyOnce
    BusyExact
    TraceExact
PROPERTIES
    EveryItemPopped
    OldestStolen
