SPECIFICATION FairSpec
CONSTANTS
    Keys = {k1}
    Workers = {w1, w2}
    Producers = {p1}
    NoOwner = NoOwner
    Capacity = 1
    MaxAttempts = 2
    Concurrency = 2
    MaxLapses = 2
    MaxDbErrors = 1
    MaxRestarts = 1
INVARIANTS
    AttemptsBounded
    DeadLetterSpent
    NewestClaimHoldsLease
PROPERTIES
    RevivedOnlyAfterLoss
    EveryJobSettles
