SPECIFICATION FairSpec
CONSTANTS
    Fds = {f1, f2}
    Conns = {c1, c2}
    None = None
    MaxPeers = 1
    PacketLen = 2
    SndBuf = 1
    Framed = TRUE
    MsgLen = 2
    OutTypes = {"DATA", "OPEN"}
    CmdTypes = {"CLOSE"}
    MaxRequests = 2
    MaxRx = 1
CHECK_DEADLOCK FALSE
INVARIANTS
    PacketsSentWhole
    ContinuesAPacket
PROPERTIES
    RefinesRegistry
    OutQueueServed
    ExitDisconnectsAll
    QuietConverges
