SPECIFICATION FSpec
CONSTANTS
    NPROC = 5
    NSEM = 1
    QUANTUM = 2
    Platform = "arm-qemu"
    IntBits = 8
    Calls <- FutureCalls
    Prios = {1, 2}
    Counts = {}
    MaxCount = 1
    Delays = {}
    Waits = {}
    Modes = {"EXCLUSIVE", "SHARED", "QUEUE"}
    MaxSets = 2
INVARIANTS
    WaitersFindable
    NoGarbage
    ExclusiveOnce
    AllResumed
