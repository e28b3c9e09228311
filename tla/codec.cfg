SPECIFICATION Spec
CONSTANTS
    NULL = NULL
    ListNum = 2
    Packets <- AllPackets
    MaxPackets = 2
    MaxTimeouts = 1
    Arrived = {0, 1, 3, 258}
INVARIANTS
    TypeOK
    InOrder
    ErrorNamesPacket
PROPERTIES
    ReadEnds
    AllRead
CHECK_DEADLOCK FALSE
