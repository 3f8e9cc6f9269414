SPECIFICATION TablesSpec
CONSTANTS
    Entries = 8
    KernelEntry = 5
    LowFrames = 2
    PoolFrames = 4
    NONE = NONE
    Heap = {8, 42}
    Leftover = {NONE}
INVARIANTS
    MappingMaps
CHECK_DEADLOCK FALSE
