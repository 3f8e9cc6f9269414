SPECIFICATION MemorySpec
CONSTANTS
    ByteBits = 3
    Caller = {main, kthread_a}
    PoolBytes = 2
    MaxRequest = 4
    Preemptible = FALSE
    NO_FRAME = NO_FRAME
INVARIANTS
    IInv
    PagesOwned
    NothingLeaks
PROPERTIES
    FailsOnlyWhenFull
CHECK_DEADLOCK FALSE
