SPECIFICATION Spec
CONSTANTS
    Key = {k1, k2, k3, k4}
    Val = {v1, v2}
    NULL = NULL
    Freed = Freed
    LRU_CACHE_SIZE = 3
SYMMETRY Symmetry
INVARIANTS
    PrevPointers
PROPERTIES
    Implements
