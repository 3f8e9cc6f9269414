SPECIFICATION TablesSpec
CONSTANTS
    Entries = 8
    KernelEntry = 5
    LowFrames = 2
    PoolFrames = 4
    NONE = NONE
    Heap = {42, 43, 46, 47, 48, 49, 55}
    Leftover = {NONE}
INVARIANTS
    IInv
    AbsentInv
    PointersReach
    MappingMaps
CHECK_DEADLOCK FALSE
