--------------------------------- MODULE Boot ---------------------------------
(***************************************************************************)
(* From the boot sector to the first tick: the boot sector reads the       *)
(* loader, the loader finds out how much memory there is, reads the kernel *)
(* from the disk and copies its segments, the kernel sets up its interrupts*)
(* and divides the memory that the loader found.  The parts are DiskRead,  *)
(* MemoryDetection, KernelImage, InterruptTable and MemoryPools; what they *)
(* share is the memory, total_mem_bytes and the order in which boot/mbr.S, *)
(* boot/loader_load_kernel.S and kernel/init.c let them run.  What         *)
(* setup_page does is in PageTables, what thread_init does in KernelThreads.*)
(***************************************************************************)
EXTENDS MemoryPools, Sequences

CONSTANTS
    Machines, Capacity,                                 \* MemoryDetection
    SectorWords, MemoryWords, SectorTime, NoData,       \* DiskRead
    ImageBase, RegisterValues,                          \* KernelImage
    Lines, Gone, NULL,                                \* InterruptTable
    Kernels,            \* headers of kernels
    LoaderBase,         \* LOADER_BASE_MEM_ADDR
    LoaderEnd,          \* where the code of the loader ends
    LoaderStart,        \* first sector of the loader
    LoaderConsumed,     \* how many sectors it has
    KernelStart,
    KernelConsumed

ASSUME BootAssumption ==
    /\ Capacity \in Nat \ {0}
    /\ SectorWords \in Nat \ {0, 1}
    /\ LoaderConsumed \in 1 .. SectorWords - 1
    /\ KernelConsumed \in 1 .. SectorWords - 1
    /\ LoaderBase \in Nat /\ LoaderStart \in Nat /\ KernelStart \in Nat
    /\ LoaderEnd \in Nat /\ ImageBase \in Nat /\ MemoryWords \in Nat
    /\ LoaderEnd <= LoaderBase + LoaderConsumed * SectorWords
    /\ LoaderEnd <= ImageBase
    /\ LoaderBase + LoaderConsumed * SectorWords <= MemoryWords
    /\ ImageBase + KernelConsumed * SectorWords <= MemoryWords
    /\ LoaderBase + LoaderConsumed * SectorWords
          <= (SectorWords * SectorWords) \div 2     \* what bx can address
    /\ MemoryWords <= (SectorWords * SectorWords * SectorWords * SectorWords)
                         \div 2                    \* what ebx can address
    /\ RegisterValues \in Nat \ {0}
    /\ Lines \subseteq 0 .. 15

VARIABLES
    map, ebx, ARDS_buffer, ARDS_number, total_mem_bytes, phase, answered,
    mem, count, lba, controller, driver,
    headers, loader,
    IDT, IDT_table, idtr, pic, pit, outs, irr, intr_on, hung,
    stage       \* which part of the boot code runs

INSTANCE MemoryDetection
INSTANCE DiskRead
INSTANCE KernelImage
INSTANCE InterruptTable

detectionVars ==
    <<map, ebx, ARDS_buffer, ARDS_number, total_mem_bytes, phase, answered>>
diskVars == <<mem, count, lba, controller, driver>>
imageVars == <<headers, loader>>
tableVars == <<IDT, IDT_table, idtr, pic, pit, outs, irr, intr_on, hung>>
poolVars == vars
bootVars == <<detectionVars, poolVars, diskVars, imageVars, tableVars, stage>>

BootInit ==
    /\ DetectionInit
    /\ DiskInit
    /\ Init
    /\ TableInit
    /\ headers \in Kernels
    /\ loader = IdleLoader
    /\ stage = "mbr"

ReadLoader ==
    /\ stage = "mbr"
    /\ rd_disk(16, LoaderStart, LoaderBase, LoaderConsumed)
    /\ stage' = "mbr_reads"
    /\ UNCHANGED <<detectionVars, poolVars, imageVars, tableVars>>

DiskStep ==
    /\ stage \in {"mbr_reads", "loader_reads"}
    /\ DriverStep \/ SectorRead
    /\ UNCHANGED <<detectionVars, poolVars, imageVars, tableVars, stage>>

\* jmp LOADER_BASE_MEM_ADDR + 0x300
EnterLoader ==
    /\ stage = "mbr_reads"
    /\ Returned
    /\ stage' = "detect"
    /\ UNCHANGED <<detectionVars, poolVars, diskVars, imageVars, tableVars>>

FindMemory ==
    /\ stage = "detect"
    /\ Detect
    /\ UNCHANGED <<poolVars, diskVars, imageVars, tableVars, stage>>

\* Deliberate error: cx is 1.
SectorsToReadOne == 1

SectorsToRead == KernelConsumed

ReadKernel ==
    /\ stage = "detect"
    /\ Found
    /\ rd_disk(32, KernelStart, ImageBase, SectorsToRead)
    /\ stage' = "loader_reads"
    /\ UNCHANGED <<detectionVars, poolVars, imageVars, tableVars>>

CallKernelInit ==
    /\ stage = "loader_reads"
    /\ Returned
    /\ kernel_init
    /\ stage' = "kernel_init"
    /\ UNCHANGED <<detectionVars, poolVars, tableVars, count, lba, controller,
                   driver>>

CopySegments ==
    /\ stage = "kernel_init"
    /\ LoaderStep
    /\ UNCHANGED <<detectionVars, poolVars, tableVars, count, lba, controller,
                   driver, stage>>

\* Deliberate error: the timer is initialized before the table of handlers.
InitAllTimerFirst ==
    <<"timer_init", "idt_init", "mem_init", "thread_init", "thread_test",
      "idle">>

\* What main runs: the calls of init_all, and thread_test
InitAll ==
    <<"idt_init", "timer_init", "mem_init", "thread_init", "thread_test",
      "idle">>

NextCall == InitAll[1 + CHOOSE i \in DOMAIN InitAll : InitAll[i] = stage]

\* jmp KERNEL_ENTRY_POINT
EnterKernel ==
    /\ stage = "kernel_init"
    /\ Loaded
    /\ stage' = InitAll[1]
    /\ UNCHANGED <<detectionVars, poolVars, diskVars, imageVars, tableVars>>

\* idt_init, in its order
idt_init ==
    /\ stage = "idt_init"
    /\ \/ IDT = {} /\ idt_desc_init /\ UNCHANGED stage
       \/ IDT # {} /\ IDT_table[0] = NULL /\ exception_init /\ UNCHANGED stage
       \/ IDT_table[0] # NULL /\ PicOut /\ UNCHANGED stage
       \/ lidt /\ stage' = NextCall
    /\ UNCHANGED <<detectionVars, poolVars, diskVars, imageVars>>

timer_init ==
    /\ stage = "timer_init"
    /\ \/ PitOut /\ UNCHANGED stage
       \/ register_handler(32, "intr_timer_handler") /\ stage' = NextCall
    /\ UNCHANGED <<detectionVars, poolVars, diskVars, imageVars>>

\* mem_init takes the amount of memory from where the loader left it.
mem_init ==
    /\ stage = "mem_init"
    /\ mem_pool_init(16 * total_mem_bytes)
    /\ stage' = NextCall
    /\ UNCHANGED <<detectionVars, diskVars, imageVars, tableVars>>

thread_init ==
    /\ stage = "thread_init"
    /\ stage' = NextCall
    /\ UNCHANGED <<detectionVars, poolVars, diskVars, imageVars, tableVars>>

thread_test ==
    /\ stage = "thread_test"
    /\ intr_enable
    /\ stage' = NextCall
    /\ UNCHANGED <<detectionVars, poolVars, diskVars, imageVars>>

\* Devices ask for interrupts once the 8259A knows its vectors.
DeviceRequest ==
    /\ stage \in {"thread_test", "idle"}
    /\ \E line \in Lines : Request(line)
    /\ UNCHANGED <<detectionVars, poolVars, diskVars, imageVars, stage>>

TakeInterrupt ==
    /\ \E line \in Lines : Serve(line)
    /\ UNCHANGED <<detectionVars, poolVars, diskVars, imageVars, stage>>

BootStep ==
    \/ ReadLoader \/ DiskStep \/ EnterLoader
    \/ FindMemory
    \/ ReadKernel \/ CallKernelInit \/ CopySegments \/ EnterKernel
    \/ idt_init \/ timer_init \/ mem_init \/ thread_init \/ thread_test
    \/ TakeInterrupt

BootNext == BootStep \/ DeviceRequest

BootSpec == BootInit /\ [][BootNext]_bootVars

TimerRequest ==
    /\ stage = "idle"
    /\ Request(0)
    /\ UNCHANGED <<detectionVars, poolVars, diskVars, imageVars, stage>>

\* The processor runs, the BIOS answers, the controller ends what it began, and
\* a counter that counts runs out.
FairBootSpec == BootSpec /\ WF_bootVars(BootStep) /\ WF_bootVars(TimerRequest)

-----------------------------------------------------------------------------
(* Correctness *)

(* When the kernel is entered each of its segments is at the address it was *)
(* linked to, word for word as on the disk (loader_load_kernel.S:375-404).  *)
KernelInPlace == SegmentsInPlace(KernelStart * SectorWords)

(* Until mem_init has read total_mem_bytes, neither the sectors read nor the*)
(* segments copied lie over the loader, which still runs, holds the GDT and *)
(* keeps that number: the first segment goes to 0x1000, inside the sectors  *)
(* of the loader at 0x900 (boot.inc:3-31, loader_load_kernel.S:54-57).      *)
LoaderKept ==
    stage \notin {"mbr", "mbr_reads"} /\ ~done =>
        \A a \in LoaderBase .. LoaderEnd - 1 :
            mem[a] = LoaderStart * SectorWords + a - LoaderBase

(* Unless 0xe801 has answered for more than 16 MB, the frames the kernel has*)
(* to give are frames of the machine: below the end of the memory that may  *)
(* be used, and in none of the ranges of another type                       *)
(* (loader_load_kernel.S:67-75,121-235, memory.c:70-152).                   *)
PoolsInMachine ==
    done /\ Exact =>
        LET first == kernel_pmem_pool.base_paddr
            last  == LastFrame(user_pmem_pool)
        IN
        /\ last <= 16 * MemoryEnd
        /\ \A i \in DOMAIN map :
              map[i].type # Usable =>
                 \/ 16 * map[i].base >= last
                 \/ 16 * (map[i].base + map[i].length) <= first

(* The boot ends: in thread_test with interrupts enabled, or halted where   *)
(* the BIOS cannot say how much memory there is (loader_load_kernel.S:223,  *)
(* 284; main.c:262-277).                                                    *)
BootEnds == <>(stage = "idle" \/ phase = "error_halt")

(* Once the kernel has booted its clock never stops, and it ticks a thousand*)
(* times a second: the counter is loaded with 1193 in a mode that starts    *)
(* again, and each interrupt leaves the 8259A ready for the next            *)
(* (timer.c:178-236, kernel_interrupt.S:35-78, interrupt.c:336-355).        *)
TicksGoOn ==
    <>(stage = "idle") => []<><<Serve(0)>>_irr /\ <>[](pit.count = 1193)

=============================================================================
