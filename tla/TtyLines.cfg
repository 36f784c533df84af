SPECIFICATION Spec
CONSTANTS
    Proc = {p, q}
    Idle = Idle
    Key = {"x", "NEWLINE", "ERASE", "KILL", "EOF", "STOP", "START"}
    Text = {"NEWLINE"}
    RawKey = {"x"}
    Controls = {"NEXTC", "RAW", "COOKED", "CBREAK", "ECHO", "NOECHO"}
    ReadCounts = {2}
    TY_IBUFLEN = 2
    TY_OBUFLEN = 2
    TY_EBUFLEN = 2
    UART_FIFO_SIZE = 2
SYMMETRY Symmetry
INVARIANT InputExact
INVARIANT OutputExact
INVARIANT TroubleExplained
INVARIANT OutputArmed
