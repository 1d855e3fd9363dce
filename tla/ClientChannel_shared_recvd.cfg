SPECIFICATION Spec
CONSTANTS
    Chans = {ch1, ch2}
    Kinds = {"proto"}
    Statics = Statics
    None = None
    PacketLen = 2
    SndBuf = 2
    MsgLen = 3
    OutTypes = {"DATA"}
    CmdTypes = {}
    MaxConns = 1
    MaxRequests = 0
    MaxRx = 4
    MaxIn = 2
CHECK_DEADLOCK FALSE
INVARIANT ReceivedGapless
