SPECIFICATION Spec
CONSTANTS
    Proc = {p, q}
    NoProc = NoProc
    Name = {f}
    NoName = NoName
    First = f
    Byte1 = {a}
    Data <- OneByte
    Counts = {1}
    Modes = {{"R", "W"}}
    Refused = {"open"}
    Nrfl = 1
    RF_RETRIES = 2
    RF_DATALEN = 1
    UDP_QSIZ = 1
    MaxSeq = 2
INVARIANT ReplyCurrent
INVARIANT ErrorExplained
INVARIANT PacketAnnounced
PROPERTY CallsReturn
