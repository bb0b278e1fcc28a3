\* Three slots: two packets fill the ring, every index wraps.
CONSTANTS
    Capacity = 3
    Packet = {p1, p2}
    MaxDrops = 1
    p1 = p1
    p2 = p2
SPECIFICATION Spec
CONSTRAINT DropBound
INVARIANTS
    IInv
    NoTornPacket
PROPERTIES
    ImplementsQueue
