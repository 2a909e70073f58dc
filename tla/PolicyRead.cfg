CONSTANTS
    Addrs <- MCAddrs
    Ports <- MCPorts
    Names <- MCNames
    MaxPortRange = 2
    MaxExpansion = 8
    Threads = {t1, t2}
    Devices <- MCDevices
    Rewrites <- MCRewrites
    Queried <- MCQueried
    MaxChanges = 1
    MaxFailures = 1
SPECIFICATION Spec
SYMMETRY Same
INVARIANTS ReadingAgrees FreshUnlessOverlapped NatTold
