SPECIFICATION Spec
CONSTANTS
    x1 = x1
    Caller = Caller
    Objects = {1, 2}
    Accesses <- Choices
    Declarable <- Edges
    Launches <- Ways
    Outsiders = {x1}
    OutAccess <- Outside
    MaxRuns = 2
INVARIANTS
    GraphExclusion
    Ordered
    RunQuiescent
PROPERTY RunsEnd
CHECK_DEADLOCK FALSE
