SPECIFICATION Spec
CONSTANTS
    Machines <- MCMachines
    PCIE_MAX_DEVICES = 1
    MinCap = 2
    Starts <- MCStarts
    DiskSizes = {2, 3, 16}
    Data = {"text", "command"}
    Commands = {"command"}
    Blank = "command"
    LBAs = {0, 1, 4, 8}
    Counts = {0, 1, 2, 4}
    LbaBits = 3
    CountBits = 2
    NumSlots = 3
    ProbeStart = 2
    MaxProbes = 3
    MaxFaults = 1
    MaxCalls = 2
CHECK_DEADLOCK FALSE
INVARIANTS TypeOK OneController BackedBySata CapacityWithin
PROPERTY IsSectorStore
