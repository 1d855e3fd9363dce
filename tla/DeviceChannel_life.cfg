SPECIFICATION FairSpec
CONSTANTS
    Kinds = {"udp", "com", "virtual"}
    None = None
    PacketLen = 2
    Siblings = {other}
    Crowded = {"udp"}
    OtherLen = 1
    MaxStores = 2
    SndBuf = 1
    OutTypes = {"DATA", "OPEN"}
    CmdTypes = {"CLOSE"}
    MaxRequests = 2
    MaxRx = 2
    MaxIn = 2
    MaxFeed = 1
CHECK_DEADLOCK FALSE
INVARIANTS
    TypeOK
    ViewConverges
    OutQueueNotStuck
    SentWholeInOrder
    ReceivedGapless
PROPERTIES
    DestroyJoins
    OutQueueServed
