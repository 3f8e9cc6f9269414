SPECIFICATION MemorySpec
CONSTANTS
    ByteBits = 3
    Caller = {main, kthread_a}
    PoolBytes = 2
    MaxRequest = 4
    Preemptible = TRUE
    NO_FRAME = NO_FRAME
INVARIANT
    PagesOwned
CHECK_DEADLOCK FALSE
