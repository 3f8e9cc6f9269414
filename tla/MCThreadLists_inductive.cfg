SPECIFICATION Spec
CONSTANTS
    main = main
    kthread_a = kthread_a
    kthread_b = kthread_b
    kthread_c = kthread_c
    Thread <- Threads
    MainThread = main
    Spawner <- Spawners
    HeadElem = HeadElem
    TailElem = TailElem
    NULL = NULL
INVARIANTS
    IInv
    VisitInv
    ListsIntact
