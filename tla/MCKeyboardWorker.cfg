CONSTANTS
    Keys = {k}
    k = k
    Codes = {c}
    c = c
    Modifiers = {m}
    m = m
    Devices = {new, old}
    new = new
    old = old
    Capable = {new}
    QueueSize = 3
    CmdQueueSize = 2
    RestBatch = 3
    BufferSize = 2
    MaxRetries = 2
    TrackerSize = 1
    Windows = {}
    MaxEvents = 3
    MaxFaults = 1
SPECIFICATION FairSpec
INVARIANTS
    WorkerInv
    NothingStuck
PROPERTIES
    QueuesDrain
    DestroyEnds
CHECK_DEADLOCK FALSE
