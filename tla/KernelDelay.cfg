SPECIFICATION Spec
CONSTANTS
    NPROC = 4
    NSEM = 1
    QUANTUM = 1
    Platform = "arm-bbb"
    IntBits = 8
    Calls <- DelayCalls
    Prios = {1}
    Counts = {}
    MaxCount = 2
    Delays = {2}
    Waits = {1}
INVARIANTS
    DelayKept
    MessagePresent
PROPERTIES
    NoEarlyWake
