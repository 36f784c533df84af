SPECIFICATION Spec
CONSTANTS
    Name = {f, g}
    Short = g
    Data <- Stamp
    DFILL = DFILL
    Nlfl = 2
    LF_NUM_DIR_ENT = 2
    LF_BLKSIZ = 2
    LF_IBLEN = 2
    IBlocks = 2
    DBlocks = 3
    MaxSize = 5
    Offset = {3}
    Count = {3}
    NoFile = NoFile
    EOF = EOF
    NONE = NONE
INVARIANT BlocksPartitioned
INVARIANT DiskCurrent
PROPERTY Implements
CHECK_DEADLOCK FALSE
