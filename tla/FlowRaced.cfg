SPECIFICATION Spec
CONSTANTS
    Decisions = {d1, d2}
    Workers = {w}
    NoOwner = NoOwner
    Ledgered = TRUE
    DecideOnce = FALSE
    MaxProposals = 2
    MaxGiveUps = 2
SYMMETRY FlowSymmetry
INVARIANTS
    NoUnapprovedExecution
    RecordsTellWhatHappened
CHECK_DEADLOCK FALSE
