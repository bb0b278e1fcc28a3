CONSTANTS
    Device = {a, b}
    a = a
    b = b
    NoDevice = NoDevice
    FirstDevice = a
    FifoMax = 2
    WindowSets = {{}, {"again", "closed", "stopped"}}
    MaxSwitches = 2
SPECIFICATION Spec
INVARIANTS
    StageInv
    ColorsFollowPicture
PROPERTIES
    NoPacketAfterCutOver
