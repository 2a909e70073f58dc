CONSTANTS
    Processes = {api, worker}
    Names <- MCNames
    Zones <- MCZones
    Lab <- MCLab
    Inventories <- MCInventories
    Moves <- MCMoves
    MaxChanges = 1
    MaxFaults = 2
SPECIFICATION FairSpec
INVARIANTS MetaMeansComplete AnswersAreReal
PROPERTIES GraphHeals
