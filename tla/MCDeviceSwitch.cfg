CONSTANTS
    Hosts = {a, b, c}
    a = a
    b = b
    c = c
    NoHost = NoHost
    FirstHost = a
    Ports = {64}
    Transports = {"rest", "legacy"}
    QueueMax = 2
    MaxAttempts = 2
    Windows = {}
    MaxUpdates = 3
    MaxFaults = 1
SPECIFICATION FairSpec
INVARIANTS
    SwitchInv
PROPERTIES
    NoStopAfterStart
    SelectedStreams
CHECK_DEADLOCK FALSE
