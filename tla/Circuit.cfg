CONSTANTS
    Calls = {c1, c2, c3}
    Threshold = 3
    Retries = 2
    Reset = 2
    MaxWindows = 2
SPECIFICATION FairSpec
INVARIANTS HungCallsBounded
PROPERTIES Recovers
