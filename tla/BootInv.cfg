SPECIFICATION BootSpec
CONSTANTS
    Machines <- MCMachines
    Capacity = 12
    SectorWords = 4
    MemoryWords = 32
    SectorTime = FALSE
    NoData = NoData
    ImageBase = 18
    RegisterValues = 64
    Kernels <- MCKernels
    Lines = {0, 1, 7, 14}
    Gone = {FALSE}
    NULL = NULL
    LoaderBase = 2
    LoaderEnd = 5
    LoaderStart = 2
    LoaderConsumed = 1
    KernelStart = 9
    KernelConsumed = 3
    AllMem <- MCAmounts
INVARIANTS
    OrdinaryMachines
    LinkedKernels
    TableInv
    DetectionInv
    PoolsInv
    DiskInv
    LoaderInv
    ImageInv
CHECK_DEADLOCK FALSE
