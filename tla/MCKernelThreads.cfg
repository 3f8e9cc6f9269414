SPECIFICATION FairSpec
CONSTANTS
    main = main
    kthread_a = kthread_a
    kthread_b = kthread_b
    kthread_c = kthread_c
    Thread <- Threads
    MainThread = main
    BootThread <- Boots
    Spawner <- Spawners
    Priority <- Priorities
    OneAtATime = TRUE
    MaxDepth = 2
    TickModulus = 1
INVARIANTS
    NoPanic
    NoThreadLost
    AllThreadsListed
    InterruptsOnlyInThreadCode
    SuspendedResumable
    IInv
PROPERTIES
    HandoverAcknowledged
    ImplementsRoundRobin
    NoStarvation
    CreationCompletes
