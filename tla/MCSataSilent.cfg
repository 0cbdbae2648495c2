SPECIFICATION Spec
CONSTANTS
    NumSlots = 2
    LBAs = {1}
    Data = {d1, d2}
    NoData = NoData
    MaxAttempts = 3
    DeviceHangs = FALSE
INVARIANT SuccessMeansDone
