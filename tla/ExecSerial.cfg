SPECIFICATION Spec
CONSTANTS
    o1 = o1
    o2 = o2
    t1 = t1
    Ops = {o1, o2}
    Rules = {o1, o2}
    RuleOf <- OwnRule
    NumberOf <- OwnEntry
    Preexisting = {o1}
    Threads = {t1}
    AutoRollback = TRUE
    MaxFaults = 2
    MaxLapses = 2
    MaxHolds = 0
CHECK_DEADLOCK FALSE
INVARIANTS
    SessionsClosed
