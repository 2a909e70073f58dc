SPECIFICATION FairSpec
CONSTANTS
    Decisions = {d1, d2, d3}
    Workers = {w}
    NoOwner = NoOwner
    Ledgered = TRUE
    DecideOnce = TRUE
    MaxProposals = 3
    MaxGiveUps = 0
INVARIANTS
    ExecutedAsApproved
PROPERTIES
    ApprovalsAreExecuted
    RejectionsAreHeard
CHECK_DEADLOCK FALSE
