SPECIFICATION FairSpec
CONSTANTS
    Lens = {0, 2, 4}
    MaxPacket = 3
    SndBuf = 5
    MaxMessages = 2
    MaxConns = 2
CHECK_DEADLOCK FALSE
INVARIANT TypeOK
PROPERTIES
    ImplementsLink
    RefusesOnlyTooLong
    DeliveredOrLeft
