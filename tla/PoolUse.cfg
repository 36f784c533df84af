SPECIFICATION XSpec
CONSTANTS
    NPROC = 3
    NSEM = 3
    QUANTUM = 2
    Platform = "arm-qemu"
    IntBits = 8
    Calls <- PoolCalls
    Prios = {1}
    Counts = {1}
    MaxCount = 4
    Delays = {}
    Waits = {}
    Bufsize <- PoolSizes
    Bufnumb <- PoolNumbs
    Sizes = {2}
    Unknown = Unknown
INVARIANT PoolCount
INVARIANT BuffersPartitioned
INVARIANT AccountsExact
INVARIANT ClosestIsSmallest
