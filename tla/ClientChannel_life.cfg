SPECIFICATION FairSpec
CONSTANTS
    Chans = {ch1}
    Kinds = {"tcp", "proto"}
    Statics = Statics
    None = None
    PacketLen = 2
    SndBuf = 1
    MsgLen = 2
    OutTypes = {"DATA", "OPEN"}
    CmdTypes = {"CLOSE"}
    MaxConns = 2
    MaxRequests = 2
    MaxRx = 2
    MaxIn = 2
CHECK_DEADLOCK FALSE
INVARIANTS
    TypeOK
    OutQueueNotStuck
    PacketsSentWhole
    ReceivedGapless
    ViewConverges
PROPERTIES
    DestroyJoins
    OutQueueServed
