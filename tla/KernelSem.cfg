SPECIFICATION Spec
CONSTANTS
    NPROC = 3
    NSEM = 1
    QUANTUM = 2
    Platform = "arm-qemu"
    IntBits = 8
    Calls <- SemCalls
    Prios = {1, 2}
    Counts = {0, 2}
    MaxCount = 2
    Delays = {}
    Waits = {}
INVARIANTS
    QueueState
    SemCount
    NoWaiterOnFree
