SPECIFICATION Spec
CONSTANTS
    ByteBits = 3
    ByteValues = 4
    BitmapLen = 2
    Top = 5
    MaxCount = 7
    Caller = {main, kthread_a}
    PoolBytes = 2
    MaxRequest = 4
    Preemptible = FALSE
    NO_FRAME = NO_FRAME
    Entries = 8
    KernelEntry = 5
    LowFrames = 2
    PoolFrames = 4
    NONE = NONE
    Heap = {42, 43, 46, 47, 48, 49, 55}
    Leftover = {NONE}
INVARIANTS
    ScanIsFirstFit
    CopiesRight
    SearchesRight
    PagesOwned
    NothingLeaks
    PointersReach
    MappingMaps
PROPERTIES
    FailsOnlyWhenFull
    EntriesStay
CHECK_DEADLOCK FALSE
