SPECIFICATION FairSpec
CONSTANTS
    NumSlots = 2
    LBAs = {1, 2}
    Data = {d1, d2}
    NoData = NoData
    MaxAttempts = 3
    DeviceHangs = TRUE
INVARIANTS TypeOK NoRebuildInFlight NothingAbandoned AckedOnDisk
PROPERTY CallsReturn
