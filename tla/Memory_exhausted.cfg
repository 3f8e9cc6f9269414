SPECIFICATION MemorySpec
CONSTANTS
    ByteBits = 3
    Caller = {main, kthread_a}
    PoolBytes = 2
    MaxRequest = 4
    Preemptible = FALSE
    NO_FRAME = NO_FRAME
INVARIANT
    FailureIsNull
CHECK_DEADLOCK FALSE
