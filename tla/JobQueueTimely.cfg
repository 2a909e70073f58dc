SPECIFICATION Spec
CONSTANTS
    Keys = {k1, k2, k3}
    Workers = {w1, w2}
    Producers = {p1, p2}
    NoOwner = NoOwner
    Capacity = 1
    MaxAttempts = 2
    Concurrency = 1
    MaxLapses = 0
    MaxDbErrors = 1
    MaxRestarts = 1
SYMMETRY QueueSymmetry
INVARIANTS
    TypeOK
    ExclusiveRun
    CapacityOvershootBounded
PROPERTIES
    SettledStaysSettled
    DeliverySpec
