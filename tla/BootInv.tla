------------------------------- MODULE BootInv -------------------------------
(***************************************************************************)
(* The inductive invariants of the boot: how far the table of interrupts,  *)
(* the 8259A, the detection of memory, the pools, a read from the disk and *)
(* the copying of the kernel have got; and the machines and kernels for    *)
(* which they hold.                                                        *)
(***************************************************************************)
EXTENDS Boot

Booting == {"mbr", "mbr_reads", "detect", "loader_reads", "kernel_init"}

SettingUp == {"timer_init", "mem_init", "thread_init", "thread_test", "idle"}

\* The master after n writes of pic_init: it waits for the words of its
\* initialization, has its vectors, and then its mask.
MasterInv(master, n) ==
    /\ DOMAIN master = {"icw", "base", "imr", "isr"}
    /\ master.icw = IF n = 1 THEN 2 ELSE IF n = 2 THEN 3
                    ELSE IF n = 3 THEN 4 ELSE 0
    /\ n >= 1 => master.isr = {}
    /\ n >= 2 => master.base = 32
    /\ n >= 9 => master.imr = MaskOf(254)

\* How far idt_init has got, and what has been set up once it has returned
TableInv ==
    /\ stage \in Booting \cup {"idt_init"} \cup SettingUp
    /\ DOMAIN IDT_table = 0 .. IDT_DESC_COUNT - 1
    /\ ~hung
    /\ intr_on => stage = "idle"
    /\ stage \in Booting =>
          outs = 0 /\ IDT = {} /\ IDT_table[0] = NULL /\ MasterInv(pic["M"], 0)
    /\ stage = "idt_init" =>
          /\ outs \in 0 .. Len(PicWrites)
          /\ IDT = {} \/ IDT = 0 .. IDT_DESC_COUNT - 1
          /\ IDT = {} => IDT_table[0] = NULL
          /\ IDT_table[0] = NULL => outs = 0
          /\ MasterInv(pic["M"], outs)
    /\ stage \in SettingUp =>
          /\ IDT = 0 .. IDT_DESC_COUNT - 1 /\ idtr = IDT_DESC_COUNT
          /\ MasterInv(pic["M"], Len(PicWrites))
    /\ stage = "timer_init" => outs \in Nat
    /\ stage \in SettingUp \ {"timer_init"} =>
          IDT_table[32] = "intr_timer_handler"

\* Machines with 2 MB to 2 GB of memory that may be used. A range of any other
\* type lies below 2 MB, as the BIOS does, or above that memory and then goes on
\* beyond 2 GB: no range right behind the memory holds tables of ACPI.
OrdinaryMachine(m) ==
    /\ Len(m) \in 1 .. Capacity /\ DOMAIN m = 1 .. Len(m)
    /\ \A i \in DOMAIN m : m[i].base \in Nat /\ m[i].length \in Nat
    /\ \E end \in 2 * MB .. FourGB \div 2 - 1 :
          /\ \E i \in DOMAIN m :
                m[i].type = Usable /\ m[i].base + m[i].length = end
          /\ \A i \in DOMAIN m :
                LET last == m[i].base + m[i].length IN
                IF m[i].type = Usable THEN last <= end
                ELSE \/ last <= 2 * MB
                     \/ m[i].base >= end /\ last \in FourGB \div 2 .. FourGB

OrdinaryMachines == \A m \in Machines : OrdinaryMachine(m)

DetectionInv ==
    /\ map \in Machines
    /\ stage \in Booting \ {"loader_reads", "kernel_init"} \/ Found
    /\ phase = "e820" =>
          /\ ebx \in 0 .. Len(map) - 1 /\ ARDS_number = ebx
          /\ ARDS_buffer = [i \in 1 .. ebx |-> map[i]]
    /\ phase = "find_max" =>
          /\ ARDS_number = Len(map)
          /\ ARDS_buffer = [i \in 1 .. Len(map) |-> map[i]]
    /\ phase # "wild"
    /\ answered \in {"nothing", "e820", "e801", "88"}
    /\ TotalIsMemory
    /\ Found => answered # "nothing"

\* How mem_pool_init divides m pages
Divided(m) ==
    /\ kernel_pmem_pool =
          [bits |-> MEM_BITMAP_BASE_MEM_ADDR, len |-> k_bitmap_len(m),
           base_paddr |-> used_mem, size |-> k_free_pages(m)]
    /\ user_pmem_pool =
          [bits |-> MEM_BITMAP_BASE_MEM_ADDR + k_bitmap_len(m),
           len |-> u_bitmap_len(m),
           base_paddr |-> used_mem + k_free_pages(m), size |-> u_free_pages(m)]
    /\ kernel_vaddr_bitmap =
          [bits |-> MEM_BITMAP_BASE_MEM_ADDR + k_bitmap_len(m) + u_bitmap_len(m),
           len |-> k_bitmap_len(m)]

\* The pools are those of the memory that was found.
PoolsInv ==
    /\ done \in BOOLEAN
    /\ done => Found /\ all_mem = 16 * total_mem_bytes /\ Divided(all_mem)

-----------------------------------------------------------------------------
(* What is in memory *)

\* The first n words that the driver was asked for are where they belong.
WordsRead(n) ==
    \A i \in 0 .. n - 1 :
        mem[driver.start + i] = driver.from * SectorWords + i

\* A controller that has given q sectors, and r words of the next one
Giving(state, q, r) ==
    [state |-> state, sector |-> driver.from + q, word |-> r,
     left |-> driver.di - q]

\* How far a read is; without SectorTime the next sector is there at once.
ReadInv ==
    /\ driver.pc \in {"out_count", "out_command"} =>
          /\ driver.ebx = driver.start /\ driver.cx = driver.di
          /\ controller = IdleController
    /\ driver.pc = "out_command" => count = driver.di /\ lba = driver.from
    /\ driver.pc = "not_ready" =>
          /\ driver.ebx = driver.start
          /\ controller \in {Giving("BSY", 0, 0), Giving("DRQ", 0, 0)}
    /\ driver.pc = "go_on_read" =>
          \E q \in 0 .. driver.di - 1, r \in 0 .. SectorWords - 1 :
             /\ controller = Giving("DRQ", q, r)
             /\ driver.ebx = driver.start + q * SectorWords + r
             /\ driver.cx = (driver.di - q) * SectorWords - r
             /\ WordsRead(q * SectorWords + r)
    /\ driver.pc = "ret" =>
          controller = IdleController /\ WordsRead(driver.di * SectorWords)

\* Which read it is
Asked(bits, from, start, sectors) ==
    /\ driver = [pc |-> driver.pc, bits |-> bits, ebx |-> driver.ebx,
                 cx |-> driver.cx, di |-> sectors, start |-> start,
                 from |-> from]
    /\ driver.pc \in {"out_count", "out_command", "not_ready", "go_on_read", "ret"}

DiskInv ==
    /\ DOMAIN mem = 0 .. MemoryWords - 1
    /\ stage = "mbr" => driver = IdleDriver /\ controller = IdleController
    /\ stage \in {"mbr_reads", "detect"} =>
          Asked(16, LoaderStart, LoaderBase, LoaderConsumed) /\ ReadInv
    /\ stage = "detect" => driver.pc = "ret"
    /\ stage = "loader_reads" =>
          Asked(32, KernelStart, ImageBase, KernelConsumed) /\ ReadInv

\* The loader is where it was read to as long as it runs.
LoaderInv ==
    stage \notin {"mbr", "mbr_reads"} =>
        \A a \in LoaderBase .. LoaderEnd - 1 :
            mem[a] = LoaderStart * SectorWords + (a - LoaderBase)

\* What ld writes: segments that lie between the loader and the image, all of
\* them in the image; headers that go over one another say the same.
LinkedKernel(k) ==
    LET Copies == {i \in DOMAIN k : ~IsNull(k[i].p_type) /\ k[i].p_filesz > 0} IN
    /\ DOMAIN k = 1 .. Len(k)
    /\ Len(k) \in 1 .. RegisterValues - 1
    /\ \A i \in DOMAIN k :
          k[i].p_offset \in Nat /\ k[i].p_vaddr \in Nat /\ k[i].p_filesz \in Nat
    /\ \A i \in Copies :
          /\ k[i].p_offset + k[i].p_filesz <= KernelConsumed * SectorWords
          /\ LoaderEnd <= k[i].p_vaddr
          /\ k[i].p_vaddr + k[i].p_filesz <= ImageBase
    /\ \A i, j \in Copies :
          \/ k[i].p_vaddr + k[i].p_filesz <= k[j].p_vaddr
          \/ k[j].p_vaddr + k[j].p_filesz <= k[i].p_vaddr
          \/ k[i].p_vaddr - k[i].p_offset = k[j].p_vaddr - k[j].p_offset

LinkedKernels == \A k \in Kernels : LinkedKernel(k)

\* The first n words of the segment of header i have been copied.
Copied(i, n) ==
    ~IsNull(headers[i].p_type) =>
        \A j \in 0 .. n - 1 :
            mem[headers[i].p_vaddr + j] =
                KernelStart * SectorWords + (headers[i].p_offset + j)

\* How far kernel_init is
CopyInv ==
    /\ loader.pc \in {"each_segment", "movsb", "done"}
    /\ \A k \in 0 .. KernelConsumed * SectorWords - 1 :
          mem[ImageBase + k] = KernelStart * SectorWords + k
    /\ LET i == loader.ebx
           header == headers[i]
       IN
       /\ loader.pc = "each_segment" =>
             i \in DOMAIN headers /\ loader.ecx = Len(headers) - i + 1
       /\ loader.pc = "movsb" =>
             /\ i \in DOMAIN headers /\ loader.saved = Len(headers) - i + 1
             /\ ~IsNull(header.p_type)
             /\ loader.n \in 0 .. header.p_filesz
             /\ loader.edi = header.p_vaddr + (header.p_filesz - loader.n)
             /\ loader.esi = ImageBase + header.p_offset
                                + (header.p_filesz - loader.n)
             /\ Copied(i, header.p_filesz - loader.n)
       /\ \A j \in DOMAIN headers :
             loader.pc = "done" \/ j < i => Copied(j, headers[j].p_filesz)

ImageInv ==
    /\ headers \in Kernels
    /\ stage \in Booting \ {"kernel_init"} => loader = IdleLoader
    /\ stage \notin Booting \ {"kernel_init"} =>
          DOMAIN loader = DOMAIN IdleLoader /\ CopyInv
    /\ stage \notin Booting => loader.pc = "done"

MemoryInv == DiskInv /\ LoaderInv /\ ImageInv
=============================================================================
