SPECIFICATION Spec
CONSTANTS
    k1 = k1
    k2 = k2
    f1 = f1
    r1 = r1
    NoPublish = NoPublish
    Publishes = {k1, k2}
    Flips = {f1}
    Readers = {r1}
    MaxStaged = 3
    Setups <- AllSetups
INVARIANTS
    ViewStable
    ReplicasConverge
    WritesKept
PROPERTY PublishesEnd
CHECK_DEADLOCK FALSE
