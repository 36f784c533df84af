SPECIFICATION Spec
CONSTANTS
    SPACE = 32
    MBLK = 2
    minheap = 4
    maxheap = 16
    Request = {0, 1, 3, 6}
    SYSERR = SYSERR
    OK = OK
    FREE = FREE
INVARIANT Separated
INVARIANT Partitioned
PROPERTY Implements
