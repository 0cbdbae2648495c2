SPECIFICATION Spec
CONSTANTS
    NumClusters = 8
    ROOT = "root"
    Files = {"os", "copy"}
    Dirs = {"sys", "user"}
    Under <- MCUnder
    PerCluster = 2
    Sizes = {0, 2, 3, 4}
    HeapSize = 3
    MaxCalls = 6
    MaxFaults = 1
CHECK_DEADLOCK FALSE
INVARIANTS TypeOK NoCrossLink ContentsKept AtRest
