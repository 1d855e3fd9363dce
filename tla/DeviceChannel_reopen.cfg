SPECIFICATION Spec
CONSTANTS
    Kinds = {"com", "virtual"}
    None = None
    PacketLen = 2
    Siblings = {}
    Crowded = {}
    OtherLen = 2
    MaxStores = 1
    SndBuf = 1
    OutTypes = {"DATA"}
    CmdTypes = {"CLOSE"}
    MaxRequests = 2
    MaxRx = 1
    MaxIn = 2
    MaxFeed = 4
CHECK_DEADLOCK FALSE
PROPERTY
    OpenWhenServing
