SPECIFICATION Spec
CONSTANTS
    Thread = {main, kthread_a, kthread_b}
    MainThread = main
    PcbWords = 2
    PageWords = 40
    Reserved = 8
    MaxOwn = 1
INVARIANTS
    ContextKept
    StacksApart
    CalleeSaved
    FirstRunArguments
