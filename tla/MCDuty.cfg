SPECIFICATION FairSpec
CONSTANTS
    ada = ada
    ben = ben
    hall = hall
    one = one
    left = left
    right = right
    Nodes = {ada, ben}
    Objects = {one}
    NetworkOf <- MCNetworkOf
    DiskOf <- MCDiskOf
    Placement <- MCPlacement
    Age <- MCAge
    Size <- MCSize
    Factor = 1
    Offered <- MCOffered
    SafeHolders = 2
    Ceilings = {0, 2}
    Ceiling <- MCCeiling
    Start <- MCStart
    Unknown = Unknown
    MaxSettings = 1
    MaxMishaps = 1
PROPERTIES
    NoSilentLoss
    DutySettles
    RepairComes
