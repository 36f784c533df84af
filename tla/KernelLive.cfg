SPECIFICATION FairSpec
CONSTANTS
    NPROC = 4
    NSEM = 1
    QUANTUM = 2
    Platform = "arm-qemu"
    IntBits = 8
    Calls <- LiveCalls
    Prios = {1, 2}
    Counts = {}
    MaxCount = 2
    Delays = {1, 2}
    Waits = {1}
INVARIANTS
    CurrentIsHighest
PROPERTIES
    NoStarvation
    SleepersWake
