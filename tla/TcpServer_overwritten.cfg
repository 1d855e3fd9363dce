SPECIFICATION Spec
CONSTANTS
    Fds = {f1, f2}
    Conns = {c1, c2, c3}
    None = None
    MaxPeers = 2
    PacketLen = 2
    SndBuf = 2
    Framed = FALSE
    MsgLen = 2
    OutTypes = {"DATA"}
    CmdTypes = {"CLOSE"}
    MaxRequests = 3
    MaxRx = 0
CHECK_DEADLOCK FALSE
SYMMETRY Symmetry
INVARIANT PacketsSentWhole
