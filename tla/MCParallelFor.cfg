SPECIFICATION Spec
CONSTANTS
    Loops <- SomeLoops
    Helpers = {1, 2, 3}
    Caller = Caller
INVARIANT LoopSafe
PROPERTY LoopsReturn
CHECK_DEADLOCK FALSE
