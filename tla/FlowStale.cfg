SPECIFICATION Spec
CONSTANTS
    Decisions = {d1, d2}
    Workers = {w}
    NoOwner = NoOwner
    Ledgered = TRUE
    DecideOnce = FALSE
    MaxProposals = 2
    MaxGiveUps = 0
INVARIANTS
    ExecutedAsApproved
CHECK_DEADLOCK FALSE
