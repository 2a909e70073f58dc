SPECIFICATION Spec
CONSTANTS
    c1 = c1
    c2 = c2
    Processes = {"api", "worker"}
    Servers = {"api"}
    Calls = {c1, c2}
    Rolling = FALSE
    MaxKeys = 2
    MaxRecords = 3
    MaxRestores = 1
SYMMETRY CallSymmetry
INVARIANTS
    ChainVerifies
    AnchorsFit
    KeyChangesMarked
    AcknowledgedIsAnchored
    AlarmsOnlyShort
    LossLeavesATrace
    LatestAnchorFits
