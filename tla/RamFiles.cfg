SPECIFICATION Spec
CONSTANTS
    Proc = {p, q}
    Nblocks = 6
    blocksz = 2
    ninodes = 1
    INODES_PER_BLOCK = 1
    INODEBLOCKS = 2
    DIRECTORY_SIZE = 1
    NUM_FD = 2
    Name = {f}
    Value = {a, b}
    Junk = Junk
    Count = {2, 3}
    Offset = {1, 2}
SYMMETRY Symmetry
INVARIANT BlocksOwned
INVARIANT ReadsBack
