SPECIFICATION Spec
CONSTANTS
    o1 = o1
    o2 = o2
    t1 = t1
    t2 = t2
    Ops = {o1, o2}
    Rules = {o1, o2}
    RuleOf <- OwnRule
    NumberOf <- SameEntry
    Preexisting = {}
    Threads = {t1, t2}
    AutoRollback = TRUE
    MaxFaults = 1
    MaxLapses = 0
    MaxHolds = 1
SYMMETRY ChangeSymmetry
CHECK_DEADLOCK FALSE
INVARIANTS
    NoDuplicateRule
    AppliedIsOnDevice
    NotAppliedMeansRestored
    ResultsAgree
    NothingLeftBehind
PROPERTIES
    OutcomesAreFinal
