SPECIFICATION Spec
CONSTANTS
    PS2_BUF_SIZE = 4
    Packets <- MCPackets
    KeyBytes = {16, 158}
    ConfigByte = 69
    MaxPackets = 2
    MaxKeys = 1
    W = 16
    H = 16
    ICON_SIZE = 2
    Pad = 1
    Spacing = 1
    MenuW = 10
    MenuH = 8
    BottomH = 4
    MaxStep = 6
    SatPolls = 1
    TaskRegistered = {TRUE, FALSE}
CHECK_DEADLOCK FALSE
INVARIANTS TypeOK InStep OncePerStreak
PROPERTIES KeyNotOverwritten InputTaken
