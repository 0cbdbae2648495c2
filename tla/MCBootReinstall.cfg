SPECIFICATION Spec
CONSTANTS
    EntrySectors = 3
    Width = 64
    DiskSizes = {16}
    FatStart = 6
    FatLength = 2
    MaxFaults = 0
    MaxBoots = 2
CHECK_DEADLOCK FALSE
INVARIANT KeepsInstalledDisk
