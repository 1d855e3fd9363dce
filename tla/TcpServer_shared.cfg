SPECIFICATION Spec
CONSTANTS
    Fds = {f1, f2}
    Conns = {c1, c2}
    None = None
    MaxPeers = 2
    PacketLen = 2
    SndBuf = 2
    Framed = TRUE
    MsgLen = 2
    OutTypes = {"DATA"}
    CmdTypes = {}
    MaxRequests = 3
    MaxRx = 2
CHECK_DEADLOCK FALSE
SYMMETRY Symmetry
INVARIANTS
    TypeOK
    OutQueueNotStuck
    SentInOrder
    ViewConverges
    ReceivedGapless
