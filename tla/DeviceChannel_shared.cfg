SPECIFICATION Spec
CONSTANTS
    Kinds = {"com"}
    None = None
    PacketLen = 2
    Siblings = {other}
    Crowded = {"com"}
    OtherLen = 2
    MaxStores = 3
    SndBuf = 1
    OutTypes = {"DATA"}
    CmdTypes = {"CLOSE"}
    MaxRequests = 2
    MaxRx = 1
    MaxIn = 2
    MaxFeed = 4
CHECK_DEADLOCK FALSE
INVARIANT
    NextAfterWhole
