CONSTANTS
    Addrs <- MCAddrs
    Ports <- MCPorts
    Initial <- MCInitial
    Proposals <- MCProposals
    Reversals <- MCReversals
    Queries <- MCQueries
    Foreign <- MCForeign
    MaxAttempts = 1
    MaxEdits = 1
SPECIFICATION Spec
PROPERTIES SimulationAgrees NothingElseOpened ReversalRestores
