SPECIFICATION Spec
CONSTANTS
    EntrySectors = 3
    Width = 64
    DiskSizes = {3, 5, 12, 16}
    FatStart = 6
    FatLength = 2
    MaxFaults = 4
    MaxBoots = 2
CHECK_DEADLOCK FALSE
INVARIANTS TypeOK CompleteMeansInstalled StartsOnlyWholeKernel PartitionsSane
PROPERTY WritesOnlyPartitioned
