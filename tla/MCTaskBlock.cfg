SPECIFICATION Spec
CONSTANTS
    p = p
    s1 = s1
    s2 = s2
    owner = owner
    waiter = waiter
    k1 = k1
    k2 = k2
    worker = worker
    NoBlock = NoBlock
    Parents = {p}
    Children = {s1, s2}
    Kinds = {"task", "op", "node"}
    Nested <- NestedTwo
    Clients = {owner, waiter, k1, k2}
    Handle <- Handles
    Triggers = {k1, k2}
    Borrowers = {k1}
    Workers = {worker}
    ExecutionFlag = 10
INVARIANTS
    CountsAndLifetimes
    CompletesAfterChildren
PROPERTY
    EventuallyReleased
