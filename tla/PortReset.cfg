SPECIFICATION PSpec
CONSTANTS
    NPROC = 4
    NSEM = 2
    QUANTUM = 2
    Platform = "arm-qemu"
    IntBits = 8
    Calls <- PortCalls
    Prios = {1}
    Counts = {1, 3}
    MaxCount = 4
    Delays = {}
    Waits = {}
    NPORTS = 1
    MaxMsgs = 2
    CntBits = 2
    Msgs = {a, b}
    NoMessage = NoMessage
    MaxSeq = 2
    MaxKills = 1
SYMMETRY Symmetry
INVARIANTS
    NoEmptyReceive
    NodesPartitioned
    BlockedForReason
    CountExact
PROPERTIES
    Implements
