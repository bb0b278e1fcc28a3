CONSTANTS
    Capacity = 5
    SeqMod = 4
    Packet <- AroundTheWrap
    MaxSearch = 2
    Delays = {0, 1, 2}
    FlushAbove = 1
    Rate = 1
    MaxSets = 1
SPECIFICATION FairSpec
INVARIANTS
    RingInv
PROPERTIES
    ImplementsQueue
    OldestLeaves
