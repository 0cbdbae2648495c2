SPECIFICATION Spec
CONSTANTS
    TotalClusters = 4
    Names = {a, b}
    Data = {x, y}
    MaxSize = 2
    DirRoom = 2
    NONAME = NONAME
    MaxCalls = 4
    UNKNOWN = UNKNOWN
    LOST = LOST
    MaxFaults = 1
SYMMETRY Symmetry
INVARIANTS
    TypeOK
    ChainsAcyclic
    ChainsSound
    ContentsKept
    CleanAccounting
