SPECIFICATION Spec
CONSTANTS
    TotalClusters = 4
    Names = {a, b}
    Data = {x, y}
    MaxSize = 2
    DirRoom = 2
    NONAME = NONAME
    MaxCalls = 1
    UNKNOWN = UNKNOWN
    LOST = LOST
    MaxFaults = 0
INVARIANT BackupCurrent
