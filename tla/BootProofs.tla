------------------------------ MODULE BootProofs ------------------------------
(***************************************************************************)
(* Theorems about MemoryPools: for every amount of memory from 2 MB to 4 GB*)
(* the pools consist of memory that exists and is in no other use, and the *)
(* bitmaps stay below the PCB of main.  Theorems about Boot: what the      *)
(* loader finds, reads and copies, the pools of the machine that has       *)
(* booted, and the interrupts that get through.                            *)
(***************************************************************************)
EXTENDS BootInv, FiniteSetTheorems, TLAPS

-----------------------------------------------------------------------------
(* The pools *)

(* Numbers that the provers need not know exactly                           *)
LEMMA PageSize == PAGE_SIZE \in Nat /\ PAGE_SIZE >= 512
BY DEF PAGE_SIZE

(* What the divisions and the cut to 16 bits leave: the pools take no more  *)
(* than what is free, their bitmaps cover no more than the pools, and the   *)
(* three bitmaps together take no more than three pages.                    *)
LEMMA PoolSizes ==
    ASSUME NEW m \in 512 .. PagesOf4GB - 1
    PROVE  /\ k_free_pages(m) \in Nat /\ u_free_pages(m) \in Nat
           /\ k_bitmap_len(m) \in Nat /\ u_bitmap_len(m) \in Nat
           /\ used_mem + k_free_pages(m) + u_free_pages(m) <= m
           /\ 8 * k_bitmap_len(m) <= k_free_pages(m)
           /\ 8 * u_bitmap_len(m) <= u_free_pages(m)
           /\ 2 * k_bitmap_len(m) + u_bitmap_len(m) <= 3 * PAGE_SIZE
<1> DEFINE free == m - used_mem
           a == all_free_pages(m)
<1>1. TwoTo16 \in Nat /\ TwoTo16 > 0 /\ PagesOf4GB \in Nat
  BY PageSize DEF TwoTo16, PagesOf4GB
<1>2. free \in Nat /\ free < PagesOf4GB
  BY <1>1 DEF used_mem
<1>3. a = free % TwoTo16
  <2>1. free % PagesOf4GB = free
    BY <1>1, <1>2
  <2> QED
    BY <2>1 DEF all_free_pages, Uint16
<1>4. a \in Nat /\ a < TwoTo16 /\ a <= free
  <2> HIDE DEF free, a
  <2> QED
    BY <1>1, <1>2, <1>3
<1> HIDE DEF a
<1>5. /\ k_free_pages(m) = a \div 2
      /\ u_free_pages(m) = a - a \div 2
  BY DEF k_free_pages, u_free_pages, a
<1>6. /\ k_free_pages(m) \in Nat /\ u_free_pages(m) \in Nat
      /\ k_free_pages(m) + u_free_pages(m) = a
      /\ 2 * k_free_pages(m) <= a /\ 2 * u_free_pages(m) <= a + 1
  BY <1>4, <1>5
<1>7. used_mem + k_free_pages(m) + u_free_pages(m) <= m
  BY <1>4, <1>6 DEF used_mem
<1>8. /\ k_bitmap_len(m) = k_free_pages(m) \div 8
      /\ u_bitmap_len(m) = u_free_pages(m) \div 8
  BY DEF k_bitmap_len, u_bitmap_len
<1>9. /\ k_bitmap_len(m) \in Nat /\ u_bitmap_len(m) \in Nat
      /\ 8 * k_bitmap_len(m) <= k_free_pages(m)
      /\ 8 * u_bitmap_len(m) <= u_free_pages(m)
  BY <1>6, <1>8
<1>10. 2 * k_bitmap_len(m) + u_bitmap_len(m) <= 3 * PAGE_SIZE
  BY <1>4, <1>6, <1>9, PageSize DEF TwoTo16
<1> QED
  BY <1>6, <1>7, <1>9, <1>10

Layout ==
    /\ done \in BOOLEAN
    /\ done =>
          /\ all_mem \in AllMem
          /\ kernel_pmem_pool =
                [bits |-> MEM_BITMAP_BASE_MEM_ADDR,
                 len |-> k_bitmap_len(all_mem),
                 base_paddr |-> used_mem, size |-> k_free_pages(all_mem)]
          /\ user_pmem_pool =
                [bits |-> MEM_BITMAP_BASE_MEM_ADDR + k_bitmap_len(all_mem),
                 len |-> u_bitmap_len(all_mem),
                 base_paddr |-> used_mem + k_free_pages(all_mem),
                 size |-> u_free_pages(all_mem)]
          /\ kernel_vaddr_bitmap =
                [bits |-> MEM_BITMAP_BASE_MEM_ADDR + k_bitmap_len(all_mem)
                             + u_bitmap_len(all_mem),
                 len |-> k_bitmap_len(all_mem)]

LEMMA LayoutHolds == Spec => []Layout
<1>1. Init => Layout
  BY DEF Init, Layout
<1>2. Layout /\ [Next]_vars => Layout'
  <2> SUFFICES ASSUME Layout, [Next]_vars PROVE Layout'
    OBVIOUS
  <2>1. ASSUME NEW m \in AllMem, mem_pool_init(m) PROVE Layout'
    BY <2>1 DEF Layout, mem_pool_init, k_bitmap_len, u_bitmap_len,
                k_free_pages, u_free_pages, all_free_pages
  <2>2. CASE UNCHANGED vars
    BY <2>2 DEF Layout, vars, k_bitmap_len, u_bitmap_len, k_free_pages,
                u_free_pages, all_free_pages
  <2> QED
    BY <2>1, <2>2 DEF Next
<1> QED
  BY <1>1, <1>2, PTL DEF Spec

(* Every frame of the two pools is memory the loader found, behind the page *)
(* tables, and belongs to one of them only.                                 *)
THEOREM PoolsAreMemory == Spec => []PoolsInMemory
<1>1. Layout => PoolsInMemory
  <2> SUFFICES ASSUME Layout, done PROVE PoolsInMemory!2
    BY DEF PoolsInMemory
  <2>1. all_mem \in 512 .. PagesOf4GB - 1
    BY PoolsAssumption DEF Layout
  <2>2. /\ kernel_pmem_pool.base_paddr = used_mem
        /\ kernel_pmem_pool.len = k_bitmap_len(all_mem)
        /\ user_pmem_pool.base_paddr = used_mem + k_free_pages(all_mem)
        /\ user_pmem_pool.len = u_bitmap_len(all_mem)
    BY DEF Layout
  <2> QED
    BY <2>1, <2>2, PoolSizes DEF LastFrame, used_mem
<1> QED
  BY <1>1, LayoutHolds, PTL

(* The three bitmaps are apart and end below the PCB of main.               *)
THEOREM BitmapsBelowPcb == Spec => []BitmapsFit
<1>1. Layout => BitmapsFit
  <2> SUFFICES ASSUME Layout, done PROVE BitmapsFit!2
    BY DEF BitmapsFit
  <2>1. all_mem \in 512 .. PagesOf4GB - 1
    BY PoolsAssumption DEF Layout
  <2>2. /\ kernel_pmem_pool.bits = MEM_BITMAP_BASE_MEM_ADDR
        /\ kernel_pmem_pool.len = k_bitmap_len(all_mem)
        /\ user_pmem_pool.bits =
              MEM_BITMAP_BASE_MEM_ADDR + k_bitmap_len(all_mem)
        /\ user_pmem_pool.len = u_bitmap_len(all_mem)
        /\ kernel_vaddr_bitmap.bits =
              MEM_BITMAP_BASE_MEM_ADDR + k_bitmap_len(all_mem)
                 + u_bitmap_len(all_mem)
        /\ kernel_vaddr_bitmap.len = k_bitmap_len(all_mem)
    BY DEF Layout
  <2> QED
    BY <2>1, <2>2, PoolSizes, PageSize DEF MEM_BITMAP_BASE_MEM_ADDR, MainPcb
<1> QED
  BY <1>1, LayoutHolds, PTL

(* Both, as the run of the boot checks them.                                *)
THEOREM PoolsLaidOut == Spec => []PoolLayout
BY PoolsAreMemory, BitmapsBelowPcb, PTL DEF PoolLayout

-----------------------------------------------------------------------------
(* The machine that boots *)

LEMMA StageFollows ==
    /\ stage = "idt_init" => NextCall = "timer_init"
    /\ stage = "timer_init" => NextCall = "mem_init"
    /\ stage = "mem_init" => NextCall = "thread_init"
    /\ stage = "thread_init" => NextCall = "thread_test"
    /\ stage = "thread_test" => NextCall = "idle"
<1>1. \A i, j \in 1..6 : InitAll[i] = InitAll[j] => i = j
  BY DEF InitAll
<1>2. DOMAIN InitAll = 1..6
  BY DEF InitAll
<1>3. ASSUME NEW i \in 1..6, stage = InitAll[i]
      PROVE  NextCall = InitAll[1 + i]
  <2>1. (CHOOSE j \in DOMAIN InitAll : InitAll[j] = stage) = i
    BY <1>1, <1>2, <1>3
  <2> QED BY <2>1 DEF NextCall
<1>4. /\ InitAll[1] = "idt_init" /\ InitAll[2] = "timer_init"
      /\ InitAll[3] = "mem_init" /\ InitAll[4] = "thread_init"
      /\ InitAll[5] = "thread_test" /\ InitAll[6] = "idle"
  BY DEF InitAll
<1>5. stage = "idt_init" => NextCall = InitAll[1 + 1]
  BY <1>3, <1>4
<1>6. stage = "timer_init" => NextCall = InitAll[1 + 2]
  BY <1>3, <1>4
<1>7. stage = "mem_init" => NextCall = InitAll[1 + 3]
  BY <1>3, <1>4
<1>8. stage = "thread_init" => NextCall = InitAll[1 + 4]
  BY <1>3, <1>4
<1>9. stage = "thread_test" => NextCall = InitAll[1 + 5]
  BY <1>3, <1>4
<1> QED BY <1>4, <1>5, <1>6, <1>7, <1>8, <1>9

\* pic_init masks every line of the master but that of the timer.
LEMMA OnlyTheTimer == \A line \in 0 .. 7 : line \in MaskOf(254) <=> line # 0
<1>0. /\ (254 \div 2 ^ 0) % 2 = 0 /\ (254 \div 2 ^ 1) % 2 = 1
      /\ (254 \div 2 ^ 2) % 2 = 1 /\ (254 \div 2 ^ 3) % 2 = 1
      /\ (254 \div 2 ^ 4) % 2 = 1 /\ (254 \div 2 ^ 5) % 2 = 1
      /\ (254 \div 2 ^ 6) % 2 = 1 /\ (254 \div 2 ^ 7) % 2 = 1
  OBVIOUS
<1>1. 0 \notin MaskOf(254)
  BY <1>0 DEF MaskOf
<1>2. 1 \in MaskOf(254) /\ 2 \in MaskOf(254) /\ 3 \in MaskOf(254)
  BY <1>0 DEF MaskOf, AllLines
<1>3. 4 \in MaskOf(254) /\ 5 \in MaskOf(254)
  BY <1>0 DEF MaskOf, AllLines
<1>4. 6 \in MaskOf(254) /\ 7 \in MaskOf(254)
  BY <1>0 DEF MaskOf, AllLines
<1> QED BY <1>1, <1>2, <1>3, <1>4

-----------------------------------------------------------------------------
(* Interrupts *)

LEMMA TableStart == BootInit => TableInv
<1> SUFFICES ASSUME BootInit PROVE TableInv
  OBVIOUS
<1>1. pic["M"] = [icw |-> 0, base |-> 8, imr |-> {}, isr |-> {}]
  BY DEF BootInit, TableInit, Chips
<1>2. IDT_table[0] = NULL /\ DOMAIN IDT_table = 0 .. IDT_DESC_COUNT - 1
  BY DEF BootInit, TableInit, IDT_DESC_COUNT
<1>3. stage = "mbr" /\ ~hung /\ ~intr_on /\ outs = 0 /\ IDT = {}
  BY DEF BootInit, TableInit
<1>4. MasterInv(pic["M"], 0)
  BY <1>1 DEF MasterInv
<1> QED BY <1>2, <1>3, <1>4 DEF TableInv, Booting, SettingUp

\* Steps of the other parts, which only go on to the next stage
LEMMA TableKept ==
    ASSUME TableInv, UNCHANGED tableVars,
           \/ stage' = stage
           \/ stage \in Booting /\ stage' \in Booting
           \/ stage = "kernel_init" /\ stage' = "idt_init"
           \/ stage = "mem_init" /\ stage' = "thread_init"
           \/ stage = "thread_init" /\ stage' = "thread_test"
    PROVE  TableInv'
<1> USE DEF tableVars, TableInv, MasterInv, Booting, SettingUp
<1>1. CASE stage' = stage
  BY <1>1
<1>2. CASE stage \in Booting /\ stage' \in Booting
  BY <1>2
<1>3. CASE stage = "kernel_init" /\ stage' = "idt_init"
  BY <1>3 DEF PicWrites
<1>4. CASE \/ stage = "mem_init" /\ stage' = "thread_init"
           \/ stage = "thread_init" /\ stage' = "thread_test"
  BY <1>4
<1> QED BY <1>1, <1>2, <1>3, <1>4

\* A port that belongs to neither the master nor the slave, or to the slave
LEMMA OtherPort ==
    ASSUME NEW port, NEW data, port \notin {32, 33}, outb(port, data)
    PROVE  pic'["M"] = pic["M"]
BY DEF outb, Chips

LEMMA MasterPort ==
    ASSUME NEW port, NEW data, port \in {32, 33}, outb(port, data)
    PROVE  pic'["M"] = Written(pic["M"], IF port = 32 THEN 0 ELSE 1, data)
<1>1. port % 2 = IF port = 32 THEN 0 ELSE 1
  OBVIOUS
<1> QED BY <1>1 DEF outb, Chips

LEMMA PicOutStep ==
    ASSUME TableInv, stage = "idt_init", PicOut
    PROVE  /\ MasterInv(pic'["M"], outs + 1)
           /\ outs' = outs + 1 /\ outs + 1 \in 1 .. Len(PicWrites)
<1>0. outs \in 0 .. 9 /\ Len(PicWrites) = 10 /\ MasterInv(pic["M"], outs)
  BY SMTT(30) DEF TableInv, PicWrites, PicOut
<1>1. DOMAIN pic["M"] = {"icw", "base", "imr", "isr"}
  BY <1>0 DEF MasterInv
<1>2. outb(PicWrites[outs + 1][1], PicWrites[outs + 1][2]) /\ outs' = outs + 1
  BY DEF PicOut, outb
<1>3. ASSUME pic'["M"] = pic["M"], outs \in 4 .. 7 \/ outs = 9
      PROVE  MasterInv(pic'["M"], outs + 1)
  BY <1>0, <1>2, <1>3 DEF MasterInv
<1>4. CASE outs = 0
  <2>1. outb(32, 17)
    BY <1>2, <1>4 DEF PicWrites
  <2>2. pic'["M"] = [pic["M"] EXCEPT !.icw = 2, !.imr = {}, !.isr = {}]
    <3>1. pic'["M"] = Written(pic["M"], 0, 17)
      BY <2>1, MasterPort
    <3> QED BY <3>1, Zenon DEF Written
  <2> QED BY <1>0, <1>1, <1>2, <1>4, <2>2 DEF MasterInv
<1>5. CASE outs = 1
  <2>1. outb(33, 32)
    BY <1>2, <1>5 DEF PicWrites
  <2>2. pic'["M"] = [pic["M"] EXCEPT !.icw = 3, !.base = 32]
    <3>1. pic'["M"] = Written(pic["M"], 1, 32)
      BY <2>1, MasterPort
    <3>2. pic["M"].icw = 2 /\ 1 # 0
      BY <1>0, <1>5 DEF MasterInv
    <3> QED BY <3>1, <3>2, Zenon DEF Written
  <2> QED BY <1>0, <1>1, <1>2, <1>5, <2>2 DEF MasterInv
<1>6. CASE outs = 2
  <2>1. outb(33, 4)
    BY <1>2, <1>6 DEF PicWrites
  <2>2. pic'["M"] = [pic["M"] EXCEPT !.icw = 4]
    BY <1>0, <1>6, <2>1, MasterPort DEF Written, MasterInv
  <2> QED BY <1>0, <1>1, <1>2, <1>6, <2>2 DEF MasterInv
<1>7. CASE outs = 3
  <2>1. outb(33, 1)
    BY <1>2, <1>7 DEF PicWrites
  <2>2. pic'["M"] = [pic["M"] EXCEPT !.icw = 0]
    BY <1>0, <1>7, <2>1, MasterPort DEF Written, MasterInv
  <2> QED BY <1>0, <1>1, <1>2, <1>7, <2>2 DEF MasterInv
<1>8. CASE outs = 8
  <2>1. outb(33, 254)
    BY <1>2, <1>8 DEF PicWrites
  <2>2. pic'["M"] = [pic["M"] EXCEPT !.imr = MaskOf(254)]
    BY <1>0, <1>8, <2>1, MasterPort DEF Written, MasterInv
  <2> QED BY <1>0, <1>1, <1>2, <1>8, <2>2 DEF MasterInv
<1>9. CASE outs \in 4 .. 7 \/ outs = 9
  <2>1. PicWrites[outs + 1][1] \notin {32, 33}
    BY <1>9 DEF PicWrites
  <2>2. pic'["M"] = pic["M"]
    BY <1>2, <2>1, OtherPort
  <2> QED BY <1>0, <1>1, <1>2, <1>3, <1>9, <2>2
<1> QED BY <1>0, <1>4, <1>5, <1>6, <1>7, <1>8, <1>9

LEMMA IdtInitStep ==
    ASSUME TableInv, idt_init
    PROVE  TableInv'
<1>0. /\ stage = "idt_init" /\ stage \notin Booting /\ stage \notin SettingUp
      /\ "timer_init" \in SettingUp /\ "timer_init" \notin Booting
      /\ Len(PicWrites) = 10
  BY DEF idt_init, Booting, SettingUp, PicWrites
<1>1. CASE IDT = {} /\ idt_desc_init /\ UNCHANGED stage
  <2>1. 0 .. IDT_DESC_COUNT - 1 # {}
    BY DEF IDT_DESC_COUNT
  <2> QED BY <1>0, <1>1, <2>1 DEF TableInv, MasterInv, idt_desc_init
<1>2. CASE IDT # {} /\ IDT_table[0] = NULL /\ exception_init /\ UNCHANGED stage
  BY <1>0, <1>2 DEF TableInv, MasterInv, exception_init
<1>3. CASE IDT_table[0] # NULL /\ PicOut /\ UNCHANGED stage
  <2>1. UNCHANGED <<IDT, IDT_table, idtr, intr_on, hung>>
    BY <1>3 DEF PicOut, outb
  <2>2. MasterInv(pic'["M"], outs')
    BY <1>0, <1>3, PicOutStep
  <2> QED BY <1>0, <1>3, <2>1, <2>2, PicOutStep DEF TableInv
<1>4. CASE lidt /\ stage' = NextCall
  <2>1. stage' = "timer_init" /\ outs = Len(PicWrites)
    BY <1>0, <1>4, StageFollows DEF lidt
  <2>2. IDT = 0 .. IDT_DESC_COUNT - 1
    BY <1>0, <2>1 DEF TableInv
  <2>3. Cardinality(IDT) = IDT_DESC_COUNT
    <3>1. 0 \in Int /\ 32 \in Int /\ ~(0 > 32) /\ 32 - 0 + 1 = 33
      OBVIOUS
    <3>2. Cardinality(0 .. 32) = 32 - 0 + 1
      BY ONLY <3>1, FS_Interval
    <3> QED BY <2>2, <3>1, <3>2 DEF IDT_DESC_COUNT
  <2>4. MasterInv(pic'["M"], Len(PicWrites))
    BY <1>0, <1>4, <2>1 DEF TableInv, MasterInv, lidt, PicWrites
  <2> QED BY <1>0, <1>4, <2>1, <2>2, <2>3, <2>4 DEF TableInv, lidt
<1> QED BY <1>1, <1>2, <1>3, <1>4 DEF idt_init

LEMMA TimerInitStep ==
    ASSUME TableInv, timer_init
    PROVE  TableInv'
<1>0. /\ stage = "timer_init" /\ stage \notin Booting /\ stage \in SettingUp
      /\ "mem_init" \in SettingUp /\ "mem_init" \notin Booting
  BY DEF timer_init, Booting, SettingUp
<1>1. CASE PitOut /\ UNCHANGED stage
  <2>1. PitWrites[outs + 1][1] \in {64, 67}
    <3>1. Len(PitWrites) = 3
      BY DEF PitWrites
    <3>2. outs \in 0 .. 2
      BY <1>0, <1>1, <3>1 DEF PitOut, TableInv
    <3> QED BY <3>2 DEF PitWrites
  <2>2. pic'["M"] = pic["M"]
    BY <1>1, <2>1, OtherPort DEF PitOut
  <2>3. outs \in Nat /\ outs' = outs + 1
    BY <1>0, <1>1 DEF PitOut, outb, TableInv
  <2> QED BY <1>0, <1>1, <2>2, <2>3 DEF TableInv, PitOut, outb
<1>2. CASE /\ register_handler(32, "intr_timer_handler")
           /\ stage' = NextCall
  <2>1. stage' = "mem_init"
    BY <1>0, <1>2, StageFollows
  <2>2. IDT_table'[32] = "intr_timer_handler"
    BY <1>2 DEF register_handler, TableInv, IDT_DESC_COUNT
  <2>3. DOMAIN IDT_table' = DOMAIN IDT_table
    BY <1>2 DEF register_handler
  <2> QED BY <1>0, <1>2, <2>1, <2>2, <2>3 DEF TableInv, register_handler
<1> QED BY <1>1, <1>2 DEF timer_init

LEMMA EnableStep ==
    ASSUME TableInv, thread_test
    PROVE  TableInv'
<1>1. /\ stage = "thread_test" /\ stage' = "idle"
      /\ UNCHANGED <<IDT, IDT_table, idtr, pic, outs, hung>>
  BY StageFollows DEF thread_test, intr_enable
<1> QED BY <1>1 DEF TableInv, Booting, SettingUp

\* Only the timer gets through to the processor, and its handler returns.
LEMMA ServeTimer ==
    ASSUME TableInv, Gone = {FALSE}, NEW line \in Lines, Serve(line),
           UNCHANGED stage
    PROVE  TableInv'
<1>1. /\ stage = "idle" /\ "idle" \in SettingUp \ {"timer_init"}
      /\ "idle" \notin Booting
  BY DEF TableInv, Serve, Booting, SettingUp
<1>2. /\ IDT = 0 .. 32 /\ idtr = 33 /\ IDT_table[32] = "intr_timer_handler"
      /\ MasterInv(pic["M"], 10)
  BY <1>1 DEF TableInv, IDT_DESC_COUNT, PicWrites
<1>3. /\ pic["M"].imr = MaskOf(254) /\ pic["M"].base = 32 /\ pic["M"].isr = {}
      /\ DOMAIN pic["M"] = {"icw", "base", "imr", "isr"}
  BY <1>2 DEF MasterInv
<1>4. line = 0
  <2>1. line \in 0 .. 15
    BY BootAssumption
  <2>2. CASE line < 8
    <3>1. line \in 0 .. 7 /\ line \notin MaskOf(254)
      BY <1>3, <2>1, <2>2 DEF Serve, Deliverable, Open
    <3> QED BY <3>1, OnlyTheTimer
  <2>3. CASE ~(line < 8)
    <3>1. 2 \notin MaskOf(254)
      BY <1>3, <2>3 DEF Serve, Deliverable, Open
    <3> QED BY <3>1, OnlyTheTimer
  <2> QED BY <2>2, <2>3
<1>5. VectorOf(line) = 32
  BY <1>3, <1>4 DEF VectorOf
<1>6. ~Hangs(32)
  BY <1>2 DEF Hangs
<1>7. hung' = FALSE
  BY <1>5, <1>6 DEF Serve
<1>8. pic'["M"] = [pic["M"] EXCEPT !.isr = {}]
  <2>1. PICK gone \in Gone :
          pic' = [c \in Chips |->
                    [pic[c] EXCEPT !.isr =
                       Eoi(IF gone THEN @ ELSE @ \cup InService(c, line))]]
    BY Zenon DEF Serve
  <2>2. gone = FALSE
    BY <2>1
  <2>3. "M" \in Chips
    BY DEF Chips
  <2>4. pic'["M"] = [pic["M"] EXCEPT !.isr =
                       Eoi(IF gone THEN @ ELSE @ \cup InService("M", line))]
    BY <2>1, <2>3, Zenon
  <2>5. pic'["M"] = [pic["M"] EXCEPT !.isr =
                       Eoi(pic["M"].isr \cup InService("M", line))]
    BY <2>2, <2>4, Zenon
  <2>6. pic["M"].isr \cup InService("M", line) = {0}
    BY <1>3, <1>4 DEF InService
  <2>7. Eoi({0}) = {}
    <3>1. Min({0}) = 0
      BY DEF Min
    <3> QED BY <3>1 DEF Eoi
  <2> QED BY <2>5, <2>6, <2>7, Zenon
<1>9. MasterInv(pic'["M"], 10)
  BY <1>2, <1>3, <1>8 DEF MasterInv
<1>10. UNCHANGED <<IDT, IDT_table, idtr, outs, intr_on>>
  BY DEF Serve
<1> QED BY <1>1, <1>2, <1>7, <1>9, <1>10 DEF TableInv, IDT_DESC_COUNT, PicWrites

LEMMA TableNext ==
    ASSUME TableInv, Gone = {FALSE}, [BootNext]_bootVars
    PROVE  TableInv'
<1>1. CASE ReadLoader \/ DiskStep \/ EnterLoader \/ FindMemory \/ ReadKernel
  BY <1>1, TableKept
     DEF ReadLoader, DiskStep, EnterLoader, FindMemory, ReadKernel, Booting
<1>2. CASE CallKernelInit \/ CopySegments \/ EnterKernel
  <2>1. InitAll[1] = "idt_init"
    BY DEF InitAll
  <2> QED BY <1>2, <2>1, TableKept
          DEF CallKernelInit, CopySegments, EnterKernel, Booting
<1>3. CASE mem_init \/ thread_init
  BY <1>3, TableKept, StageFollows DEF mem_init, thread_init
<1>4. CASE DeviceRequest
  BY <1>4 DEF DeviceRequest, Request, TableInv
<1>5. CASE TakeInterrupt
  BY <1>5, ServeTimer DEF TakeInterrupt
<1>6. CASE UNCHANGED bootVars
  BY <1>6, TableKept DEF bootVars
<1> QED BY <1>1, <1>2, <1>3, <1>4, <1>5, <1>6, IdtInitStep, TimerInitStep,
           EnableStep DEF BootNext, BootStep

(* On a machine whose requests stay until they are served no interrupt ends *)
(* in default_intr_handler: when interrupts are enabled every line but the  *)
(* timer's is masked, whatever devices there are, and the timer has its     *)
(* vector, its gate and its handler (interrupt.c:336-355,394-432;           *)
(* timer.c:222-235; init.c:19-26).                                          *)
THEOREM InterruptsHandled ==
    ASSUME Gone = {FALSE}
    PROVE  BootSpec => []NeverHangs
<1>1. TableInv => NeverHangs
  BY DEF TableInv, NeverHangs
<1>2. TableInv /\ [BootNext]_bootVars => TableInv'
  BY TableNext
<1> QED BY <1>1, <1>2, TableStart, PTL DEF BootSpec

-----------------------------------------------------------------------------
(* Reading from the disk *)

LEMMA CountDown ==
    ASSUME NEW n \in Nat, NEW a \in 0 .. n - 1
    PROVE  (a + 1 + n - 1) % n = a
<1>1. a % n = a
  OBVIOUS
<1>2. a + 1 + n - 1 = a + n
  OBVIOUS
<1>3. (a + n) % n = a % n
  OBVIOUS
<1> QED BY <1>1, <1>2, <1>3

\* The products that the counters hold
LEMMA Products ==
    ASSUME NEW w \in Nat, w > 1, NEW di \in 1 .. w - 1
    PROVE  /\ di * w \in Nat /\ di * w >= w /\ di * w < w * w
           /\ w * w \in Nat /\ w * w <= w * w * w * w /\ w * w * w * w \in Nat
<1>1. w * w \in Nat /\ w * w > 0
  OBVIOUS
<1>2. \A a \in Nat, b \in Nat : b > 0 => a * b \in Nat /\ a <= a * b
  OBVIOUS
<1>3. w * w * w \in Nat /\ w * w <= w * w * w
  BY ONLY <1>1, <1>2, w \in Nat, w > 1
<1>4. w * w * w * w \in Nat /\ w * w * w <= w * w * w * w
  BY ONLY <1>2, <1>3, w \in Nat, w > 1
<1>5. di * w \in Nat /\ di * w >= w /\ di * w < w * w
  <2>1. PICK d \in Nat : w = di + 1 + d
    <3>1. w - di - 1 \in Nat /\ w = di + 1 + (w - di - 1)
      OBVIOUS
    <3> QED BY <3>1
  <2>2. w * w = di * w + w + d * w
    BY <2>1
  <2>3. di * w \in Nat /\ d * w \in Nat
    OBVIOUS
  <2>4. PICK e \in Nat : di = 1 + e
    <3>1. di - 1 \in Nat /\ di = 1 + (di - 1)
      OBVIOUS
    <3> QED BY <3>1
  <2>5. di * w = w + e * w /\ e * w \in Nat
    BY <2>4
  <2> QED BY <2>2, <2>3, <2>5
<1> QED BY <1>1, <1>3, <1>4, <1>5

\* bx addresses all that the loader has, and ebx all of the memory.
LEMMA Reached ==
    /\ Reach(16) \in Nat /\ Reach(32) \in Nat
    /\ LoaderBase + LoaderConsumed * SectorWords <= Reach(16)
    /\ ImageBase + KernelConsumed * SectorWords <= Reach(32)
<1>1. SectorWords \in Nat /\ SectorWords > 1 /\ LoaderConsumed \in 1 .. SectorWords - 1
  BY BootAssumption
<1> DEFINE short == SectorWords * SectorWords
           long  == SectorWords * SectorWords * SectorWords * SectorWords
<1>2. Reach(16) = short \div 2 /\ Reach(32) = long \div 2
  BY DEF Reach, CounterValues
<1>3. short \in Nat /\ long \in Nat
  BY <1>1, Products
<1>4. /\ LoaderBase + LoaderConsumed * SectorWords <= short \div 2
      /\ MemoryWords <= long \div 2
  BY BootAssumption
<1>5. /\ ImageBase + KernelConsumed * SectorWords <= MemoryWords
      /\ ImageBase \in Nat /\ KernelConsumed * SectorWords \in Nat
      /\ MemoryWords \in Nat
  BY BootAssumption
<1> HIDE DEF short, long
<1>6. short \div 2 \in Nat /\ long \div 2 \in Nat
  BY <1>3
<1>7. \A a, b \in Nat, c \in Nat :
         a + b <= MemoryWords /\ MemoryWords <= c => a + b <= c
  BY <1>5
<1> QED BY <1>2, <1>4, <1>5, <1>6, <1>7

\* The driver in the middle of a read: the word it takes
LEMMA WordTaken ==
    ASSUME NEW bits \in {16, 32}, NEW from \in Nat, NEW start \in Nat,
           NEW sectors \in 1 .. SectorWords - 1,
           start + sectors * SectorWords <= MemoryWords,
           start + sectors * SectorWords <= Reach(bits), Reach(bits) \in Nat,
           DOMAIN mem = 0 .. MemoryWords - 1, SectorTime = FALSE,
           Asked(bits, from, start, sectors), ReadInv, GoOnRead
    PROVE  /\ Asked(bits, from, start, sectors)' /\ ReadInv'
           /\ DOMAIN mem' = DOMAIN mem
           /\ \A a \in DOMAIN mem :
                 a \notin start .. start + sectors * SectorWords - 1 =>
                    mem'[a] = mem[a]
<1> DEFINE w == SectorWords
<1>1. w \in Nat /\ w > 1 /\ MemoryWords \in Nat
  BY BootAssumption
<1>2. PICK q \in 0 .. sectors - 1, r \in 0 .. w - 1 :
         /\ controller = Giving("DRQ", q, r)
         /\ driver.ebx = start + q * w + r
         /\ driver.cx = (sectors - q) * w - r
         /\ WordsRead(q * w + r)
  BY DEF GoOnRead, ReadInv, Asked
<1>3. /\ driver = [pc |-> "go_on_read", bits |-> bits, ebx |-> driver.ebx,
                   cx |-> driver.cx, di |-> sectors, start |-> start,
                   from |-> from]
      /\ controller = [state |-> "DRQ", sector |-> from + q, word |-> r,
                       left |-> sectors - q]
  BY <1>2 DEF GoOnRead, Asked, Giving
<1> DEFINE n == q * w + r
           cx == (sectors - q) * w - r - 1
           next == (start + n + 1) % Reach(bits)
<1>4. /\ n \in Nat /\ n < sectors * w /\ sectors * w \in Nat /\ cx \in Nat
      /\ n + cx + 1 = sectors * w /\ sectors * w < w * w
      /\ q * w \in Nat
  <2>1. PICK d \in Nat : sectors = q + 1 + d
    <3>1. sectors - q - 1 \in Nat /\ sectors = q + 1 + (sectors - q - 1)
      OBVIOUS
    <3> QED BY <3>1
  <2>2. sectors * w = q * w + w + d * w /\ (sectors - q) * w = w + d * w
    BY <1>1, <2>1
  <2>3. q * w \in Nat /\ d * w \in Nat
    BY <1>1
  <2>4. sectors * w \in Nat /\ sectors * w < w * w
    BY <1>1, Products
  <2> HIDE DEF w
  <2> QED BY <1>1, <2>2, <2>3, <2>4
<1>5. CounterValues(bits) \in Nat /\ CounterValues(bits) > cx + 1
  <2>1. sectors * w < w * w /\ w * w <= w * w * w * w
        /\ w * w \in Nat /\ w * w * w * w \in Nat
    BY <1>1, Products
  <2>2. cx + 1 <= sectors * w /\ sectors * w \in Nat
    <3> DEFINE read == sectors * w
    <3>1. /\ n \in Nat /\ cx \in Nat /\ read \in Nat
          /\ n + cx + 1 = read
      BY <1>4
    <3> HIDE DEF n, cx, read
    <3> QED BY <3>1 DEF read
  <2>3. CounterValues(bits) \in {w * w, w * w * w * w}
    BY DEF CounterValues
  <2> DEFINE read == sectors * w
             short == w * w
             long == w * w * w * w
  <2>4. /\ read < short /\ short <= long /\ cx + 1 <= read /\ read \in Nat
        /\ short \in Nat /\ long \in Nat /\ cx \in Nat
        /\ CounterValues(bits) \in {short, long}
    BY <1>4, <2>1, <2>2, <2>3
  <2> HIDE DEF read, short, long, cx, w
  <2> QED BY <2>4
<1>6. (driver.cx + CounterValues(driver.bits) - 1) % CounterValues(driver.bits) = cx
  <2> DEFINE c == CounterValues(bits)
  <2>1. driver.cx = cx + 1
    <3> DEFINE m == (sectors - q) * w
    <3>1. m \in Int /\ driver.cx = m - r /\ cx = m - r - 1
      BY <1>1, <1>2
    <3> HIDE DEF m, cx
    <3> QED BY <3>1
  <2> HIDE DEF c, cx, n, w
  <2>2. c \in Nat /\ cx \in 0 .. c - 1
    BY <1>4, <1>5 DEF c
  <2>3. (cx + 1 + c - 1) % c = cx
    BY <2>2, CountDown
  <2>4. driver.bits = bits
    BY <1>3
  <2> QED BY <2>1, <2>3, <2>4 DEF c
<1>7. /\ driver.ebx = start + n
      /\ (from + q) * w + r = from * w + n /\ from * w \in Nat
  BY <1>1, <1>2
<1>8. /\ mem' = [mem EXCEPT ![start + n] = from * w + n]
      /\ controller' = Advance
      /\ driver' = [driver EXCEPT !.ebx = next, !.cx = cx,
                                  !.pc = IF cx = 0 THEN "ret" ELSE "go_on_read"]
  <2>1. mem' = [mem EXCEPT ![driver.ebx] =
                  IF controller.state = "DRQ"
                  THEN controller.sector * w + controller.word ELSE NoData]
    BY DEF GoOnRead
  <2>2. controller.state = "DRQ" /\ controller.sector = from + q
        /\ controller.word = r
    BY <1>3
  <2>3. mem' = [mem EXCEPT ![start + n] = from * w + n]
    BY <1>7, <2>1, <2>2, Zenon
  <2>4. controller' = Advance
    BY <2>2, Zenon DEF GoOnRead
  <2>5. driver' = [driver EXCEPT !.ebx = (driver.ebx + 1) % Reach(driver.bits),
                                 !.cx = cx,
                                 !.pc = IF cx = 0 THEN "ret" ELSE "go_on_read"]
    BY <1>6, Zenon DEF GoOnRead
  <2>6. driver.bits = bits
    BY <1>3
  <2> QED BY <1>7, <2>3, <2>4, <2>5, <2>6, Zenon
<1>9. start + n \in DOMAIN mem /\ start + n \in start .. start + sectors * w - 1
  BY <1>1, <1>4
<1>10. \A i \in 0 .. n : mem'[start + i] = from * w + i
  <2> SUFFICES ASSUME NEW i \in 0 .. n PROVE mem'[start + i] = from * w + i
    OBVIOUS
  <2>1. start + i \in DOMAIN mem
    BY <1>1, <1>4
  <2>2. CASE i = n
    BY <1>8, <1>9, <2>2
  <2>3. CASE i # n
    <3>1. i \in 0 .. n - 1 /\ start + i # start + n
      <4> HIDE DEF n
      <4> QED BY <1>4, <2>3
    <3>2. mem[start + i] = from * w + i
      BY <1>2, <1>3, <3>1 DEF WordsRead
    <3> QED BY <1>8, <2>1, <3>1, <3>2
  <2> QED BY <2>2, <2>3
<1>11. /\ driver' = [pc |-> IF cx = 0 THEN "ret" ELSE "go_on_read",
                     bits |-> bits, ebx |-> next, cx |-> cx,
                     di |-> sectors, start |-> start, from |-> from]
  <2> DEFINE pc == IF cx = 0 THEN "ret" ELSE "go_on_read"
  <2>1. driver' = [driver EXCEPT !.ebx = next, !.cx = cx, !.pc = pc]
    BY <1>8
  <2>2. PICK e, c :
           driver = [pc |-> "go_on_read", bits |-> bits, ebx |-> e, cx |-> c,
                     di |-> sectors, start |-> start, from |-> from]
    BY <1>3
  <2> HIDE DEF n, cx, next, pc
  <2>3. driver' = [pc |-> pc, bits |-> bits, ebx |-> next, cx |-> cx,
                   di |-> sectors, start |-> start, from |-> from]
    BY <2>1, <2>2
  <2> QED BY <2>3 DEF pc
<1>12. Asked(bits, from, start, sectors)'
  BY <1>11 DEF Asked
<1>13. ASSUME NEW p \in 0 .. sectors - 1, NEW s \in 0 .. w - 1,
              n + 1 = p * w + s,
              controller' = [state |-> "DRQ", sector |-> from + p, word |-> s,
                             left |-> sectors - p]
       PROVE  ReadInv'
  <2>1. cx = (sectors - p) * w - s /\ cx # 0
    <3>1. (sectors - p) * w = sectors * w - p * w /\ p * w \in Nat
      BY <1>1
    <3>2. PICK d \in Nat : sectors = p + 1 + d
      <4>1. sectors - p - 1 \in Nat /\ sectors = p + 1 + (sectors - p - 1)
        OBVIOUS
      <4> QED BY <4>1
    <3>3. sectors * w = p * w + w + d * w /\ d * w \in Nat
      BY <1>1, <3>2
    <3> HIDE DEF n, cx, w
    <3> QED BY <1>1, <1>4, <1>13, <3>1, <3>3
  <2>2. driver'.pc = "go_on_read" /\ controller' = Giving("DRQ", p, s)'
    BY <1>11, <1>13, <2>1 DEF Giving
  <2>3. next = start + p * w + s
    <3>1. p * w \in Nat
      BY <1>1
    <3>2. start + n + 1 = start + p * w + s
      <4> HIDE DEF n, w
      <4> QED BY <1>1, <1>4, <1>13, <3>1
    <3>3. n + 1 < sectors * w
      <4> HIDE DEF n, w
      <4> DEFINE read == sectors * w
      <4>1. cx \in Nat /\ cx # 0 /\ n + cx + 1 = read /\ read \in Nat
        BY <1>4, <2>1
      <4> HIDE DEF cx, read
      <4>2. n + 1 < read
        BY <1>4, <4>1
      <4> QED BY <4>2 DEF read
    <3>4. start + n + 1 \in 0 .. Reach(bits) - 1
      <4> DEFINE read == sectors * w
      <4>1. /\ read \in Nat /\ start + read <= Reach(bits) /\ n + 1 < read
            /\ n \in Nat /\ Reach(bits) \in Nat
        BY <1>4, <3>3
      <4> HIDE DEF n, read
      <4> QED BY ONLY <4>1, start \in Nat
    <3>5. \A a \in 0 .. Reach(bits) - 1 : a % Reach(bits) = a
      OBVIOUS
    <3> HIDE DEF n
    <3> QED BY <3>2, <3>4, <3>5
  <2>4. driver'.ebx = driver'.start + p * w + s
        /\ driver'.cx = (driver'.di - p) * w - s
    BY <1>11, <2>1, <2>3
  <2>5. \A i \in 0 .. (p * w + s) - 1 :
           mem'[driver'.start + i] = driver'.from * w + i
    <3>1. (p * w + s) - 1 = n
      BY SMTT(30), <1>4, <1>13
    <3> QED BY <1>10, <1>11, <3>1
  <2>6. WordsRead(p * w + s)'
    BY <2>5 DEF WordsRead
  <2>7. p \in 0 .. driver'.di - 1
    BY <1>11
  <2> QED BY <2>2, <2>4, <2>6, <2>7 DEF ReadInv
<1>14. ReadInv'
  <2>1. CASE r + 1 < w
    <3>1. controller' = [state |-> "DRQ", sector |-> from + q, word |-> r + 1,
                         left |-> sectors - q]
      BY <1>3, <1>8, <2>1 DEF Advance
    <3>2. n + 1 = q * w + (r + 1) /\ r + 1 \in 0 .. w - 1
      BY <1>1, <1>4, <2>1
    <3> QED BY <1>13, <3>1, <3>2
  <2>2. CASE ~(r + 1 < w) /\ sectors - q > 1
    <3>1. controller' = [state |-> "DRQ", sector |-> from + q + 1, word |-> 0,
                         left |-> sectors - q - 1]
      BY <1>3, <1>8, <2>2 DEF Advance
    <3>2. q + 1 \in 0 .. sectors - 1 /\ r = w - 1 /\ 0 \in 0 .. w - 1
      BY <1>1, <2>2
    <3>3. n + 1 = (q + 1) * w + 0
      BY <1>1, <3>2
    <3>4. from + (q + 1) = from + q + 1 /\ sectors - (q + 1) = sectors - q - 1
      OBVIOUS
    <3> QED BY <1>13, <3>1, <3>2, <3>3, <3>4
  <2>3. CASE ~(r + 1 < w) /\ ~(sectors - q > 1)
    <3>1. controller' = IdleController
      BY <1>3, <1>8, <2>3 DEF Advance
    <3>2. sectors - q = 1 /\ r = w - 1
      BY <1>1, <2>3
    <3>3. cx = 0
      BY <1>1, <3>2
    <3>4. sectors * w - 1 = n
      BY SMTT(30), <1>4, <3>3
    <3>5. driver'.pc = "ret" /\ WordsRead(driver.di * SectorWords)'
      BY <1>10, <1>11, <3>3, <3>4 DEF WordsRead
    <3> QED BY <3>1, <3>5 DEF ReadInv
  <2> QED BY <2>1, <2>2, <2>3
<1> QED BY <1>8, <1>9, <1>12, <1>14

\* Any step of the driver or of the controller during a read
LEMMA ReadStep ==
    ASSUME NEW bits \in {16, 32}, NEW from \in Nat, NEW start \in Nat,
           NEW sectors \in 1 .. SectorWords - 1,
           start + sectors * SectorWords <= MemoryWords,
           start + sectors * SectorWords <= Reach(bits), Reach(bits) \in Nat,
           DOMAIN mem = 0 .. MemoryWords - 1, SectorTime = FALSE,
           Asked(bits, from, start, sectors), ReadInv, DriverStep \/ SectorRead
    PROVE  /\ Asked(bits, from, start, sectors)' /\ ReadInv'
           /\ DOMAIN mem' = DOMAIN mem
           /\ \A a \in DOMAIN mem :
                 a \notin start .. start + sectors * SectorWords - 1 =>
                    mem'[a] = mem[a]
<1>1. SectorWords \in Nat /\ SectorWords > 1
  BY BootAssumption
<1>2. PICK p, e, c :
         driver = [pc |-> p, bits |-> bits, ebx |-> e, cx |-> c,
                   di |-> sectors, start |-> start, from |-> from]
  BY DEF Asked
<1>3. \A q : driver' = [driver EXCEPT !.pc = q] =>
         driver' = [pc |-> q, bits |-> bits, ebx |-> e, cx |-> c,
                    di |-> sectors, start |-> start, from |-> from]
  BY <1>2
<1>4. CASE OutCount
  <2>1. driver' = [pc |-> "out_command", bits |-> bits, ebx |-> e, cx |-> c,
                   di |-> sectors, start |-> start, from |-> from]
    BY <1>3, <1>4 DEF OutCount
  <2>2. count' = sectors /\ lba' = from
    <3>1. driver.cx = sectors /\ driver.from = from
      BY <1>2, <1>4 DEF OutCount, ReadInv
    <3>2. sectors % SectorWords = sectors
      BY <1>1
    <3> QED BY <1>4, <3>1, <3>2 DEF OutCount
  <2>3. Asked(bits, from, start, sectors)'
    BY <2>1 DEF Asked
  <2>4. driver.ebx = driver.start /\ driver.cx = driver.di
        /\ controller' = IdleController
    BY <1>4 DEF OutCount, ReadInv
  <2>5. ReadInv'
    BY <1>2, <2>1, <2>2, <2>4 DEF ReadInv
  <2> QED BY <1>4, <2>3, <2>5 DEF OutCount
<1>5. CASE OutCommand
  <2>1. driver' = [pc |-> "not_ready", bits |-> bits, ebx |-> e, cx |-> c,
                   di |-> sectors, start |-> start, from |-> from]
    BY <1>3, <1>5 DEF OutCommand
  <2>2. count = sectors /\ lba = from /\ e = start
    BY <1>2, <1>5 DEF OutCommand, ReadInv
  <2>3. controller' = [state |-> "BSY", sector |-> from, word |-> 0,
                       left |-> sectors]
    BY <1>5, <2>2 DEF OutCommand
  <2>4. controller' = Giving("BSY", 0, 0)'
    BY <2>1, <2>3 DEF Giving
  <2>5. Asked(bits, from, start, sectors)' /\ ReadInv'
    BY <2>1, <2>2, <2>4 DEF Asked, ReadInv
  <2> QED BY <1>5, <2>5 DEF OutCommand
<1>6. CASE NotReady
  <2>1. controller = Giving("DRQ", 0, 0) /\ driver.ebx = driver.start
    BY <1>6 DEF NotReady, Ready, ReadInv, Giving
  <2>2. Iterations(sectors) = sectors * SectorWords
    <3>1. sectors * SectorWords \in Nat
          /\ sectors * SectorWords < SectorWords * SectorWords
          /\ SectorWords * SectorWords \in Nat
      BY <1>1, Products
    <3> QED BY <3>1 DEF Iterations
  <2>3. driver' = [driver EXCEPT !.pc = "go_on_read",
                                 !.cx = sectors * SectorWords]
    <3>1. driver.di = sectors
      BY <1>2
    <3>2. driver' = [driver EXCEPT !.pc = "go_on_read",
                                   !.cx = Iterations(driver.di)]
      BY <1>6 DEF NotReady
    <3> QED BY <2>2, <3>1, <3>2, Zenon
  <2>4. driver' = [pc |-> "go_on_read", bits |-> bits, ebx |-> e,
                   cx |-> sectors * SectorWords,
                   di |-> sectors, start |-> start, from |-> from]
    BY <1>2, <2>3
  <2>5. 0 * SectorWords = 0 /\ (sectors - 0) * SectorWords = sectors * SectorWords
        /\ sectors * SectorWords \in Nat
    BY <1>1
  <2>6. /\ controller' = Giving("DRQ", 0, 0)'
        /\ driver'.ebx = driver'.start + 0 * SectorWords + 0
        /\ driver'.cx = (driver'.di - 0) * SectorWords - 0
    <3>1. controller' = Giving("DRQ", 0, 0)'
      BY <1>2, <1>6, <2>1, <2>4 DEF NotReady, Giving
    <3>2. e = start
      BY <1>2, <2>1
    <3>3. driver'.ebx = start /\ driver'.start = start /\ driver'.di = sectors
          /\ driver'.cx = sectors * SectorWords
      BY <2>4, <3>2
    <3> HIDE DEF Giving
    <3> QED BY <2>5, <3>1, <3>3
  <2>7. WordsRead(0 * SectorWords + 0)'
    BY <2>5 DEF WordsRead
  <2>8. 0 \in 0 .. driver'.di - 1 /\ 0 \in 0 .. SectorWords - 1
    BY <1>1, <2>4
  <2>9. driver'.pc = "go_on_read"
    BY <2>4
  <2>10. ReadInv'
    BY <2>6, <2>7, <2>8, <2>9 DEF ReadInv
  <2>11. Asked(bits, from, start, sectors)'
    BY <2>4 DEF Asked
  <2> QED BY <1>6, <2>10, <2>11 DEF NotReady
<1>7. CASE SectorRead
  <2>1. driver.pc = "not_ready"
    BY <1>7 DEF SectorRead, ReadInv, Asked, Giving, IdleController
  <2>2. controller = Giving("BSY", 0, 0) /\ driver.ebx = driver.start
    BY <1>7, <2>1 DEF SectorRead, ReadInv, Giving
  <2>3. controller' = Giving("DRQ", 0, 0)'
    BY <1>7, <2>2 DEF SectorRead, Giving
  <2>4. Asked(bits, from, start, sectors)' /\ ReadInv'
    BY <1>7, <2>1, <2>2, <2>3 DEF SectorRead, Asked, ReadInv
  <2> QED BY <1>7, <2>4 DEF SectorRead
<1>8. CASE GoOnRead
  BY ZenonT(30), <1>8, WordTaken
<1> QED BY <1>4, <1>5, <1>6, <1>7, <1>8 DEF DriverStep

-----------------------------------------------------------------------------
(* The segments of the kernel *)

\* The loader goes on to the next header when it is through with one.
LEMMA SegmentDone ==
    ASSUME CopyInv, DOMAIN loader = DOMAIN IdleLoader, LinkedKernel(headers),
           NEW i, i = loader.ebx, i \in DOMAIN headers,
           loader' = NextSegment(Len(headers) - i + 1),
           Copied(i, headers[i].p_filesz), UNCHANGED <<mem, headers>>
    PROVE  CopyInv' /\ DOMAIN loader' = DOMAIN IdleLoader
<1>1. /\ RegisterValues \in Nat /\ Len(headers) \in 1 .. RegisterValues - 1
      /\ DOMAIN headers = 1 .. Len(headers)
  BY BootAssumption DEF LinkedKernel
<1> DEFINE n == Len(headers)
<1>2. (n - i + 1 + RegisterValues - 1) % RegisterValues = n - i
  <2>1. n - i \in 0 .. RegisterValues - 1
    BY <1>1
  <2> QED BY <1>1, <2>1, CountDown
<1>3. /\ loader'.ebx = i + 1 /\ loader'.ecx = n - i
      /\ loader'.pc = IF n - i = 0 THEN "done" ELSE "each_segment"
      /\ DOMAIN loader' = DOMAIN IdleLoader
  <2>1. loader' = [loader EXCEPT !.ebx = i + 1, !.ecx = n - i,
                      !.pc = IF n - i = 0 THEN "done" ELSE "each_segment"]
    BY <1>2, Zenon DEF NextSegment
  <2>2. DOMAIN loader = {"pc", "ebx", "ecx", "esi", "edi", "n", "saved"}
    BY DEF IdleLoader
  <2> QED BY <2>1, <2>2
<1>4. ASSUME NEW j \in DOMAIN headers, loader'.pc = "done" \/ j < i + 1
      PROVE  Copied(j, headers[j].p_filesz)'
  <2>1. j < i \/ j = i
    BY <1>1, <1>3, <1>4
  <2>2. Copied(j, headers[j].p_filesz)
    BY <2>1 DEF CopyInv
  <2> QED BY <2>2 DEF Copied
<1>5. loader'.pc = "each_segment" =>
         i + 1 \in DOMAIN headers /\ loader'.ecx = n - (i + 1) + 1
  BY <1>1, <1>3
<1>6. /\ loader'.pc \in {"each_segment", "movsb", "done"}
      /\ loader'.pc # "movsb"
  BY <1>3
<1>7. \A k \in 0 .. KernelConsumed * SectorWords - 1 :
         mem'[ImageBase + k] = KernelStart * SectorWords + k
  BY DEF CopyInv
<1>8. \A j \in DOMAIN headers' :
         loader'.pc = "done" \/ j < loader'.ebx =>
            Copied(j, headers[j].p_filesz)'
  BY <1>3, <1>4
<1> QED BY <1>3, <1>5, <1>6, <1>7, <1>8 DEF CopyInv

\* A step of the loader writes neither its own code nor the image.
LEMMA CopyStep ==
    ASSUME CopyInv, DOMAIN loader = DOMAIN IdleLoader, LinkedKernel(headers),
           DOMAIN mem = 0 .. MemoryWords - 1, LoaderStep
    PROVE  /\ CopyInv' /\ DOMAIN loader' = DOMAIN IdleLoader
           /\ headers' = headers /\ DOMAIN mem' = DOMAIN mem
           /\ \A a \in LoaderBase .. LoaderEnd - 1 : mem'[a] = mem[a]
<1> DEFINE i == loader.ebx
           header == headers[i]
<1>1. CASE SkipSegment
  <2>1. i \in DOMAIN headers /\ loader' = NextSegment(Len(headers) - i + 1)
        /\ UNCHANGED <<mem, headers>>
    BY <1>1 DEF SkipSegment, CopyInv
  <2>2. Copied(i, header.p_filesz)
    BY <1>1 DEF SkipSegment, Copied
  <2> QED BY <2>1, <2>2, SegmentDone
<1>2. CASE MemCpyReturns
  <2>1. /\ i \in DOMAIN headers /\ loader' = NextSegment(Len(headers) - i + 1)
        /\ UNCHANGED <<mem, headers>>
        /\ Copied(i, header.p_filesz - 0)
    BY <1>2 DEF MemCpyReturns, CopyInv
  <2>2. header.p_filesz - 0 = header.p_filesz
    BY <2>1 DEF LinkedKernel
  <2> QED BY <2>1, <2>2, SegmentDone
<1>3. CASE CallMemCpy
  <2>1. /\ i \in DOMAIN headers /\ loader.ecx = Len(headers) - i + 1
        /\ ~IsNull(header.p_type) /\ UNCHANGED <<mem, headers>>
        /\ header.p_filesz \in Nat /\ header.p_vaddr \in Nat
        /\ header.p_offset \in Nat
    BY <1>3 DEF CallMemCpy, CopyInv, LinkedKernel
  <2>2. loader' = [loader EXCEPT !.pc = "movsb", !.saved = loader.ecx,
                                 !.edi = header.p_vaddr,
                                 !.esi = ImageBase + header.p_offset,
                                 !.n = header.p_filesz]
    BY <1>3 DEF CallMemCpy
  <2>3. DOMAIN loader = {"pc", "ebx", "ecx", "esi", "edi", "n", "saved"}
    BY DEF IdleLoader
  <2>4. /\ loader'.pc = "movsb" /\ loader'.ebx = i
        /\ loader'.saved = Len(headers) - i + 1
        /\ loader'.n = header.p_filesz /\ loader'.edi = header.p_vaddr
        /\ loader'.esi = ImageBase + header.p_offset
        /\ DOMAIN loader' = DOMAIN IdleLoader
    <3> HIDE DEF header
    <3> QED BY <2>1, <2>2, <2>3 DEF i
  <2>5. /\ header.p_filesz - header.p_filesz = 0
        /\ header.p_vaddr + 0 = header.p_vaddr
        /\ ImageBase + header.p_offset + 0 = ImageBase + header.p_offset
    <3> HIDE DEF header
    <3>1. \A x \in Nat : x - x = 0 /\ x + 0 = x
      OBVIOUS
    <3>2. ImageBase + header.p_offset \in Nat
      BY <2>1, BootAssumption
    <3> QED BY <2>1, <3>1, <3>2
  <2>6. Copied(i, 0)'
    BY DEF Copied
  <2>7. \A j \in DOMAIN headers : j < i => Copied(j, headers[j].p_filesz)'
    BY <2>1 DEF CopyInv, Copied
  <2>8. \A k \in 0 .. KernelConsumed * SectorWords - 1 :
           mem'[ImageBase + k] = KernelStart * SectorWords + k
    BY <2>1 DEF CopyInv
  <2>9. loader'.n \in 0 .. header.p_filesz
    BY <2>1, <2>4
  <2> QED BY <2>1, <2>4, <2>5, <2>6, <2>7, <2>8, <2>9 DEF CopyInv
<1>4. CASE Movsb
  <2>1. /\ i \in DOMAIN headers /\ loader.saved = Len(headers) - i + 1
        /\ ~IsNull(header.p_type) /\ headers' = headers
        /\ loader.n \in 0 .. header.p_filesz /\ loader.n > 0
        /\ loader.edi = header.p_vaddr + (header.p_filesz - loader.n)
        /\ loader.esi = ImageBase + header.p_offset
                           + (header.p_filesz - loader.n)
        /\ Copied(i, header.p_filesz - loader.n)
        /\ header.p_filesz \in Nat /\ header.p_vaddr \in Nat
        /\ header.p_offset \in Nat
        /\ loader.pc = "movsb"
    BY <1>4 DEF Movsb, CopyInv, LinkedKernel
  <2>2. PICK filesz \in Nat, vaddr \in Nat, offset \in Nat :
           /\ filesz = header.p_filesz /\ vaddr = header.p_vaddr
           /\ offset = header.p_offset
    BY <2>1
  <2>3. PICK n \in 1 .. filesz : n = loader.n
    BY <2>1, <2>2
  <2>4. PICK k \in 0 .. filesz - 1 : k = filesz - n /\ k \in Nat
    <3>1. filesz - n \in 0 .. filesz - 1 /\ filesz - n \in Nat
      OBVIOUS
    <3> QED BY <3>1
  <2>5. /\ loader.edi = vaddr + k /\ loader.esi = ImageBase + offset + k
        /\ Copied(i, k)
    BY <2>1, <2>2, <2>3, <2>4
  <2>6. PICK size \in Nat, file \in Nat : size = KernelConsumed * SectorWords
                                        /\ file = KernelStart * SectorWords
    <3>1. KernelConsumed * SectorWords \in Nat /\ KernelStart * SectorWords \in Nat
      BY BootAssumption
    <3> QED BY <3>1
  <2>7. /\ LoaderBase \in Nat /\ LoaderEnd \in Nat /\ ImageBase \in Nat
        /\ MemoryWords \in Nat /\ ImageBase + size <= MemoryWords
        /\ LoaderEnd <= ImageBase
    BY <2>6, BootAssumption
  <2>8. offset + filesz <= size /\ LoaderEnd <= vaddr /\ vaddr + filesz <= ImageBase
    <3>1. header.p_filesz > 0
      BY <2>2, <2>3
    <3> QED BY <2>1, <2>2, <2>6, <3>1 DEF LinkedKernel
  <2>9. \A a \in 0 .. size - 1 : mem[ImageBase + a] = file + a
    BY <2>6 DEF CopyInv
  <2>10. mem' = [mem EXCEPT ![vaddr + k] = file + (offset + k)]
    <3>1. mem' = [mem EXCEPT ![loader.edi] = mem[loader.esi]]
      BY <1>4 DEF Movsb
    <3>2. offset + k \in 0 .. size - 1
          /\ ImageBase + offset + k = ImageBase + (offset + k)
      <4>1. offset + k < offset + filesz /\ offset + k \in Nat
        OBVIOUS
      <4>2. ImageBase + offset + k = ImageBase + (offset + k)
        BY <2>7
      <4> QED BY <2>8, <4>1, <4>2
    <3>3. mem[loader.esi] = file + (offset + k)
      BY <2>5, <2>9, <3>2
    <3> QED BY <2>5, <3>1, <3>3, Zenon
  <2>11. vaddr + k \in 0 .. MemoryWords - 1 /\ vaddr + k >= LoaderEnd
         /\ vaddr + k < ImageBase
    BY <2>7, <2>8
  <2>12. mem'[vaddr + k] = file + (offset + k)
         /\ \A a \in 0 .. MemoryWords - 1 : a # vaddr + k => mem'[a] = mem[a]
    BY <2>10, <2>11
  <2>13. /\ loader'.pc = "movsb" /\ loader'.ebx = i
         /\ loader'.saved = Len(headers) - i + 1
         /\ loader'.n = n - 1 /\ loader'.edi = vaddr + k + 1
         /\ loader'.esi = ImageBase + offset + k + 1
         /\ DOMAIN loader' = DOMAIN IdleLoader
    <3>1. loader' = [loader EXCEPT !.edi = loader.edi + 1,
                                   !.esi = loader.esi + 1, !.n = loader.n - 1]
      BY <1>4 DEF Movsb
    <3>2. DOMAIN loader = {"pc", "ebx", "ecx", "esi", "edi", "n", "saved"}
      BY DEF IdleLoader
    <3> QED BY <2>1, <2>3, <2>5, <3>1, <3>2
  <2>14. /\ n - 1 \in 0 .. filesz /\ filesz - (n - 1) = k + 1
         /\ vaddr + k + 1 = vaddr + (filesz - (n - 1))
         /\ ImageBase + offset + k + 1 = ImageBase + offset + (filesz - (n - 1))
    BY <2>4, <2>7
  <2>15. Copied(i, k + 1)'
    <3>1. ASSUME NEW a \in 0 .. (k + 1) - 1
          PROVE  mem'[vaddr + a] = file + (offset + a)
      <4>1. CASE a = k
        BY <2>12, <4>1
      <4>2. CASE a # k
        <5>1. a \in 0 .. k - 1 /\ vaddr + a # vaddr + k
              /\ vaddr + a \in 0 .. MemoryWords - 1
          BY <2>7, <2>8, <4>2
        <5>2. mem[vaddr + a] = file + (offset + a)
          BY <2>1, <2>2, <2>5, <2>6, <5>1 DEF Copied
        <5> QED BY <2>12, <5>1, <5>2
      <4> QED BY <4>1, <4>2
    <3> QED BY <2>1, <2>2, <2>6, <2>13, <3>1 DEF Copied
  <2>16. ASSUME NEW j \in DOMAIN headers, Copied(j, headers[j].p_filesz)
         PROVE  Copied(j, headers[j].p_filesz)'
    <3> SUFFICES ASSUME ~IsNull(headers[j].p_type),
                        NEW a \in 0 .. headers[j].p_filesz - 1
                 PROVE  mem'[headers[j].p_vaddr + a] =
                           file + (headers[j].p_offset + a)
      BY <2>1, <2>6 DEF Copied
    <3>1. mem[headers[j].p_vaddr + a] = file + (headers[j].p_offset + a)
      BY <2>6, <2>16 DEF Copied
    <3>2. PICK size_j \in Nat, vaddr_j \in Nat, offset_j \in Nat :
             /\ size_j = headers[j].p_filesz /\ vaddr_j = headers[j].p_vaddr
             /\ offset_j = headers[j].p_offset
      BY DEF LinkedKernel
    <3>3. a \in 0 .. size_j - 1
      BY <3>2
    <3>4. headers[j].p_filesz > 0 /\ header.p_filesz > 0
      <4>1. size_j > 0 /\ filesz > 0
        BY <2>3, <3>3
      <4> QED BY <2>2, <3>2, <4>1
    <3>5. vaddr_j + size_j <= ImageBase
      BY <3>2, <3>4 DEF LinkedKernel
    <3>6. \/ vaddr_j + size_j <= vaddr \/ vaddr + filesz <= vaddr_j
          \/ vaddr_j - offset_j = vaddr - offset
      BY <2>1, <2>2, <3>2, <3>4 DEF LinkedKernel
    <3>7. \/ vaddr_j + a # vaddr + k
          \/ vaddr_j + a = vaddr + k /\ offset_j + a = offset + k
      BY <3>3, <3>6
    <3>8. vaddr_j + a \in 0 .. MemoryWords - 1
      BY <2>7, <3>3, <3>5
    <3> QED BY <2>12, <3>1, <3>2, <3>7, <3>8
  <2>17. \A a \in 0 .. size - 1 : mem'[ImageBase + a] = file + a
    <3> SUFFICES ASSUME NEW a \in 0 .. size - 1
                 PROVE  mem'[ImageBase + a] = file + a
      OBVIOUS
    <3>1. ImageBase + a \in 0 .. MemoryWords - 1 /\ ImageBase + a # vaddr + k
      BY <2>7, <2>11
    <3> QED BY <2>9, <2>12, <3>1
  <2>18. \A a \in LoaderBase .. LoaderEnd - 1 : mem'[a] = mem[a]
    <3> SUFFICES ASSUME NEW a \in LoaderBase .. LoaderEnd - 1
                 PROVE  mem'[a] = mem[a]
      OBVIOUS
    <3>1. a \in 0 .. MemoryWords - 1 /\ a # vaddr + k
      BY <2>7, <2>11
    <3> QED BY <2>12, <3>1
  <2>19. CopyInv'
    <3>1. \A j \in DOMAIN headers : j < i => Copied(j, headers[j].p_filesz)'
      BY <2>1, <2>16 DEF CopyInv
    <3>2. /\ loader'.n \in 0 .. header.p_filesz
          /\ header.p_filesz - loader'.n = k + 1
          /\ loader'.edi = header.p_vaddr + (header.p_filesz - loader'.n)
          /\ loader'.esi = ImageBase + header.p_offset
                              + (header.p_filesz - loader'.n)
      BY <2>2, <2>13, <2>14
    <3> QED BY <2>1, <2>6, <2>13, <2>15, <2>17, <3>1, <3>2 DEF CopyInv
  <2> QED BY <2>1, <2>10, <2>13, <2>18, <2>19
<1> QED BY <1>1, <1>2, <1>3, <1>4 DEF LoaderStep

-----------------------------------------------------------------------------
(* What is in memory, from the boot sector to the kernel *)

LEMMA MemoryStart == BootInit => MemoryInv
BY DEF BootInit, DiskInit, MemoryInv, DiskInv, LoaderInv, ImageInv, Booting

\* Steps that leave the memory and those who write it alone
LEMMA MemoryKept ==
    ASSUME MemoryInv, UNCHANGED <<diskVars, imageVars>>,
           \/ stage' = stage
           \/ stage = "kernel_init" /\ Loaded /\ stage' \notin Booting
           \/ stage \notin Booting /\ stage' \notin Booting
    PROVE  MemoryInv'
<1>1. UNCHANGED <<mem, count, lba, controller, driver, headers, loader>>
  BY DEF diskVars, imageVars
<1>2. ReadInv => ReadInv'
  BY <1>1 DEF ReadInv, Giving, WordsRead
<1>3. CopyInv => CopyInv'
  BY <1>1 DEF CopyInv, Copied
<1>4. DiskInv'
  BY <1>1, <1>2 DEF MemoryInv, DiskInv, Asked, Booting
<1>5. LoaderInv'
  BY <1>1 DEF MemoryInv, LoaderInv, Booting
<1>6. ImageInv'
  BY <1>1, <1>3 DEF MemoryInv, ImageInv, Booting, Loaded
<1> QED BY <1>4, <1>5, <1>6 DEF MemoryInv

LEMMA ReadBegins ==
    ASSUME NEW bits, NEW from, NEW start, NEW sectors, NEW c,
           controller = IdleController, rd_disk(bits, from, start, sectors)
    PROVE  Asked(bits, from, start, sectors)' /\ ReadInv'
<1>1. /\ driver' = [pc |-> "out_count", bits |-> bits, ebx |-> start,
                    cx |-> sectors, di |-> sectors, start |-> start, from |-> from]
      /\ controller' = IdleController
  BY DEF rd_disk
<1> QED BY <1>1 DEF Asked, ReadInv

LEMMA ReadLoaderStep ==
    ASSUME MemoryInv, ReadLoader
    PROVE  MemoryInv'
<1>1. /\ stage = "mbr" /\ stage' = "mbr_reads" /\ mem' = mem
      /\ UNCHANGED imageVars
      /\ rd_disk(16, LoaderStart, LoaderBase, LoaderConsumed)
  BY DEF ReadLoader, rd_disk
<1>2. /\ Asked(16, LoaderStart, LoaderBase, LoaderConsumed)' /\ ReadInv'
  BY <1>1, ReadBegins DEF MemoryInv, DiskInv
<1> QED BY <1>1, <1>2 DEF MemoryInv, DiskInv, LoaderInv, ImageInv, Booting, imageVars

LEMMA DiskStepKeeps ==
    ASSUME MemoryInv, SectorTime = FALSE, DiskStep
    PROVE  MemoryInv'
<1>1. /\ stage \in {"mbr_reads", "loader_reads"} /\ stage' = stage
      /\ headers' = headers /\ loader' = loader
      /\ DriverStep \/ SectorRead
  BY DEF DiskStep, imageVars
<1>2. ImageInv'
  <2>1. stage \in Booting \ {"kernel_init"} /\ stage' \in Booting
        /\ stage' # "kernel_init"
    BY <1>1 DEF Booting
  <2>2. headers' \in Kernels /\ loader' = IdleLoader
    BY <1>1, <2>1 DEF MemoryInv, ImageInv
  <2> QED BY <2>1, <2>2 DEF ImageInv
<1>3. CASE stage = "mbr_reads"
  <2>1. /\ Asked(16, LoaderStart, LoaderBase, LoaderConsumed)' /\ ReadInv'
        /\ DOMAIN mem' = DOMAIN mem
    <3>1. /\ LoaderStart \in Nat /\ LoaderBase \in Nat
          /\ LoaderConsumed \in 1 .. SectorWords - 1
          /\ LoaderBase + LoaderConsumed * SectorWords <= MemoryWords
          /\ 16 \in {16, 32}
      BY BootAssumption
    <3>2. Asked(16, LoaderStart, LoaderBase, LoaderConsumed) /\ ReadInv
          /\ DOMAIN mem = 0 .. MemoryWords - 1
      BY <1>3 DEF MemoryInv, DiskInv
    <3>3. /\ Reach(16) \in Nat
          /\ LoaderBase + LoaderConsumed * SectorWords <= Reach(16)
      BY Reached
    <3> QED BY <1>1, <3>1, <3>2, <3>3, ReadStep, Zenon
  <2> QED BY <1>1, <1>2, <1>3, <2>1 DEF MemoryInv, DiskInv, LoaderInv
<1>4. CASE stage = "loader_reads"
  <2>1. /\ Asked(32, KernelStart, ImageBase, KernelConsumed)' /\ ReadInv'
        /\ DOMAIN mem' = DOMAIN mem
        /\ \A a \in DOMAIN mem :
              a \notin ImageBase .. ImageBase + KernelConsumed * SectorWords - 1 =>
                 mem'[a] = mem[a]
    <3>1. /\ KernelStart \in Nat /\ ImageBase \in Nat
          /\ KernelConsumed \in 1 .. SectorWords - 1
          /\ ImageBase + KernelConsumed * SectorWords <= MemoryWords
          /\ 32 \in {16, 32}
      BY BootAssumption
    <3>2. Asked(32, KernelStart, ImageBase, KernelConsumed) /\ ReadInv
          /\ DOMAIN mem = 0 .. MemoryWords - 1
      BY <1>4 DEF MemoryInv, DiskInv
    <3>3. /\ Reach(32) \in Nat
          /\ ImageBase + KernelConsumed * SectorWords <= Reach(32)
      BY Reached
    <3> QED BY ZenonT(30), <1>1, <3>1, <3>2, <3>3, ReadStep
  <2>2. ASSUME NEW a \in LoaderBase .. LoaderEnd - 1 PROVE mem'[a] = mem[a]
    <3>1. /\ LoaderBase \in Nat /\ LoaderEnd \in Nat /\ ImageBase \in Nat
          /\ MemoryWords \in Nat /\ LoaderEnd <= ImageBase
          /\ KernelConsumed * SectorWords \in Nat
          /\ ImageBase + KernelConsumed * SectorWords <= MemoryWords
      BY BootAssumption
    <3>2. a \in 0 .. MemoryWords - 1
          /\ a \notin ImageBase .. ImageBase + KernelConsumed * SectorWords - 1
      BY <3>1
    <3> QED BY <2>1, <3>2 DEF MemoryInv, DiskInv
  <2>3. LoaderInv'
    BY <1>1, <1>4, <2>2 DEF MemoryInv, LoaderInv
  <2> QED BY <1>1, <1>2, <1>4, <2>1, <2>3 DEF MemoryInv, DiskInv
<1> QED BY <1>1, <1>3, <1>4

LEMMA EnterLoaderStep ==
    ASSUME MemoryInv, EnterLoader
    PROVE  MemoryInv'
<1>1. /\ stage = "mbr_reads" /\ stage' = "detect" /\ driver.pc = "ret"
      /\ UNCHANGED <<mem, count, lba, controller, driver, headers, loader>>
  BY DEF EnterLoader, Returned, diskVars, imageVars
<1>2. Asked(16, LoaderStart, LoaderBase, LoaderConsumed) /\ ReadInv
  BY <1>1 DEF MemoryInv, DiskInv
<1>3. Asked(16, LoaderStart, LoaderBase, LoaderConsumed)' /\ ReadInv'
  BY <1>1, <1>2 DEF Asked, ReadInv, Giving, WordsRead
<1>4. ASSUME NEW a \in LoaderBase .. LoaderEnd - 1
      PROVE  mem[a] = LoaderStart * SectorWords + (a - LoaderBase)
  <2>1. /\ LoaderBase \in Nat /\ LoaderEnd \in Nat
        /\ LoaderConsumed * SectorWords \in Nat
        /\ LoaderEnd <= LoaderBase + LoaderConsumed * SectorWords
    BY BootAssumption
  <2>2. a - LoaderBase \in 0 .. LoaderConsumed * SectorWords - 1
        /\ LoaderBase + (a - LoaderBase) = a
    BY <2>1
  <2>3. driver.start = LoaderBase /\ driver.from = LoaderStart
        /\ driver.di = LoaderConsumed
    BY <1>2 DEF Asked
  <2>4. WordsRead(LoaderConsumed * SectorWords)
    BY <1>1, <1>2, <2>3 DEF ReadInv
  <2> QED BY <2>2, <2>3, <2>4 DEF WordsRead
<1>5. LoaderInv'
  BY <1>1, <1>4 DEF LoaderInv
<1> QED BY <1>1, <1>3, <1>5 DEF MemoryInv, DiskInv, ImageInv, Booting

LEMMA ReadKernelStep ==
    ASSUME MemoryInv, ReadKernel
    PROVE  MemoryInv'
<1>1. /\ stage = "detect" /\ stage' = "loader_reads" /\ mem' = mem
      /\ UNCHANGED <<headers, loader>>
      /\ rd_disk(32, KernelStart, ImageBase, KernelConsumed)
  BY DEF ReadKernel, rd_disk, imageVars, SectorsToRead
<1>2. controller = IdleController
  BY <1>1 DEF MemoryInv, DiskInv, ReadInv
<1>3. Asked(32, KernelStart, ImageBase, KernelConsumed)' /\ ReadInv'
  BY <1>1, <1>2, ReadBegins
<1> QED BY <1>1, <1>3 DEF MemoryInv, DiskInv, LoaderInv, ImageInv, Booting

LEMMA CallKernelInitStep ==
    ASSUME MemoryInv, LinkedKernels, CallKernelInit
    PROVE  MemoryInv'
<1>1. /\ stage = "loader_reads" /\ stage' = "kernel_init" /\ driver.pc = "ret"
      /\ UNCHANGED <<mem, headers>>
      /\ loader' = [IdleLoader EXCEPT !.pc = "each_segment", !.ebx = 1,
                                      !.ecx = Len(headers)]
  BY DEF CallKernelInit, Returned, kernel_init
<1>2. Len(headers) \in Nat \ {0} /\ DOMAIN headers = 1 .. Len(headers)
  <2>1. LinkedKernel(headers) /\ RegisterValues \in Nat
    BY BootAssumption DEF LinkedKernels, MemoryInv, ImageInv
  <2> QED BY <2>1 DEF LinkedKernel
<1>3. /\ loader'.pc = "each_segment" /\ loader'.ebx = 1
      /\ loader'.ecx = Len(headers) - 1 + 1
      /\ DOMAIN loader' = DOMAIN IdleLoader
  BY <1>1, <1>2 DEF IdleLoader
<1>4. WordsRead(driver.di * SectorWords) /\ driver.di = KernelConsumed
      /\ driver.start = ImageBase /\ driver.from = KernelStart
  BY <1>1 DEF MemoryInv, DiskInv, ReadInv, Asked
<1>5. \A k \in 0 .. KernelConsumed * SectorWords - 1 :
         mem'[ImageBase + k] = KernelStart * SectorWords + k
  BY <1>1, <1>4 DEF WordsRead
<1>6. \A j \in DOMAIN headers : ~(j < 1)
  BY <1>2
<1>7. CopyInv'
  BY <1>1, <1>2, <1>3, <1>5, <1>6 DEF CopyInv
<1> QED BY <1>1, <1>3, <1>7 DEF MemoryInv, DiskInv, LoaderInv, ImageInv, Booting

LEMMA CopySegmentsStep ==
    ASSUME MemoryInv, LinkedKernels, CopySegments
    PROVE  MemoryInv'
<1>1. /\ stage = "kernel_init" /\ stage' = stage /\ LoaderStep
      /\ UNCHANGED <<count, lba, controller, driver>>
  BY DEF CopySegments
<1>2. /\ CopyInv /\ DOMAIN loader = DOMAIN IdleLoader /\ headers \in Kernels
      /\ DOMAIN mem = 0 .. MemoryWords - 1
  BY <1>1 DEF MemoryInv, ImageInv, DiskInv, Booting
<1>3. /\ CopyInv' /\ DOMAIN loader' = DOMAIN IdleLoader
      /\ headers' = headers /\ DOMAIN mem' = DOMAIN mem
      /\ \A a \in LoaderBase .. LoaderEnd - 1 : mem'[a] = mem[a]
  BY <1>1, <1>2, CopyStep DEF LinkedKernels
<1>4. LoaderInv'
  BY <1>1, <1>3 DEF MemoryInv, LoaderInv
<1> QED BY <1>1, <1>2, <1>3, <1>4 DEF MemoryInv, DiskInv, ImageInv, Booting

LEMMA MemoryNext ==
    ASSUME MemoryInv, LinkedKernels, SectorTime = FALSE, [BootNext]_bootVars
    PROVE  MemoryInv'
<1>1. CASE ReadLoader
  BY <1>1, ReadLoaderStep
<1>2. CASE DiskStep
  BY <1>2, DiskStepKeeps
<1>3. CASE EnterLoader
  BY <1>3, EnterLoaderStep
<1>4. CASE ReadKernel
  BY <1>4, ReadKernelStep
<1>5. CASE CallKernelInit
  BY <1>5, CallKernelInitStep
<1>6. CASE CopySegments
  BY <1>6, CopySegmentsStep
<1>7. CASE FindMemory \/ TakeInterrupt \/ DeviceRequest
  BY <1>7, MemoryKept DEF FindMemory, TakeInterrupt, DeviceRequest
<1>8. CASE EnterKernel
  <2>1. InitAll[1] \notin Booting
    BY DEF InitAll, Booting
  <2> QED BY <1>8, <2>1, MemoryKept DEF EnterKernel
<1>9. CASE idt_init \/ timer_init \/ mem_init \/ thread_init \/ thread_test
  <2>1. UNCHANGED <<diskVars, imageVars>>
    BY <1>9 DEF idt_init, timer_init, mem_init, thread_init, thread_test
  <2>2. (stage' = stage) \/ (stage \notin Booting /\ stage' \notin Booting)
    BY <1>9, StageFollows
       DEF idt_init, timer_init, mem_init, thread_init, thread_test, Booting
  <2> QED BY <2>1, <2>2, MemoryKept
<1>10. CASE UNCHANGED bootVars
  BY <1>10, MemoryKept DEF bootVars
<1> QED BY <1>1, <1>2, <1>3, <1>4, <1>5, <1>6, <1>7, <1>8, <1>9, <1>10
        DEF BootNext, BootStep

LEMMA MemoryHolds ==
    ASSUME LinkedKernels, SectorTime = FALSE
    PROVE  BootSpec => []MemoryInv
<1>1. MemoryInv /\ [BootNext]_bootVars => MemoryInv'
  BY MemoryNext
<1> QED BY <1>1, MemoryStart, PTL DEF BootSpec

(* The loader stays what was read from the disk as long as it runs: neither *)
(* reading the kernel nor copying its segments goes over it, wherever in the*)
(* memory above it the kernel is linked to (boot.inc:3-31,                  *)
(* loader_load_kernel.S:54-57,358-404).                                     *)
THEOREM LoaderStays ==
    ASSUME LinkedKernels, SectorTime = FALSE
    PROVE  BootSpec => []LoaderKept
<1>1. MemoryInv => LoaderKept
  <2> SUFFICES ASSUME MemoryInv, stage \notin {"mbr", "mbr_reads"},
                      NEW a \in LoaderBase .. LoaderEnd - 1
               PROVE  mem[a] = LoaderStart * SectorWords + a - LoaderBase
    BY DEF LoaderKept
  <2>1. LoaderStart * SectorWords \in Nat /\ LoaderBase \in Nat /\ LoaderEnd \in Nat
    BY BootAssumption
  <2>2. LoaderStart * SectorWords + (a - LoaderBase)
           = LoaderStart * SectorWords + a - LoaderBase
    BY <2>1
  <2> QED BY <2>2 DEF MemoryInv, LoaderInv
<1> QED BY <1>1, MemoryHolds, PTL

(* The kernel that is entered is the one on the disk: each of its segments  *)
(* is where it was linked to, whatever number of headers it has and whatever*)
(* copies go over one another (loader_load_kernel.S:375-404,649-692).       *)
THEOREM KernelCopied ==
    ASSUME LinkedKernels, SectorTime = FALSE
    PROVE  BootSpec => []KernelInPlace
<1>1. MemoryInv => KernelInPlace
  <2> SUFFICES ASSUME MemoryInv, Loaded, NEW j \in DOMAIN headers,
                      headers[j].p_type = PT_LOAD,
                      NEW i \in 0 .. headers[j].p_filesz - 1
               PROVE  mem[headers[j].p_vaddr + i]
                         = KernelStart * SectorWords + headers[j].p_offset + i
    BY DEF KernelInPlace, SegmentsInPlace, Segments
  <2>1. CopyInv
    BY DEF MemoryInv, ImageInv, Loaded, IdleLoader
  <2>2. Copied(j, headers[j].p_filesz)
    BY <2>1 DEF CopyInv, Loaded
  <2>3. ~IsNull(headers[j].p_type)
    BY DEF IsNull, PT_LOAD, PT_NULL
  <2>4. mem[headers[j].p_vaddr + i]
           = KernelStart * SectorWords + (headers[j].p_offset + i)
    BY <2>2, <2>3 DEF Copied
  <2>5. KernelStart * SectorWords \in Nat /\ headers[j].p_offset \in Nat
    BY BootAssumption DEF LinkedKernels, LinkedKernel, MemoryInv, ImageInv
  <2> QED BY <2>4, <2>5
<1> QED BY <1>1, MemoryHolds, PTL

-----------------------------------------------------------------------------
(* The memory that is found *)

LEMMA GreatestIs ==
    ASSUME NEW s, s \subseteq Int, NEW x \in s, \A y \in s : y <= x
    PROVE  Max(s) = x
<1>1. \A y \in s : (\A z \in s : y >= z) => y = x
  OBVIOUS
<1>2. \A y \in s : x >= y
  OBVIOUS
<1> QED BY <1>1, <1>2 DEF Max

LEMMA Least ==
    ASSUME NEW a \in Int, NEW b \in Int
    PROVE  Min({a, b}) = IF a <= b THEN a ELSE b
<1> DEFINE x == IF a <= b THEN a ELSE b
<1>1. x \in {a, b} /\ \A y \in {a, b} : x <= y
  OBVIOUS
<1>2. \A y \in {a, b} : (\A z \in {a, b} : y <= z) => y = x
  OBVIOUS
<1> QED BY <1>1, <1>2 DEF Min

LEMMA Greatest ==
    ASSUME NEW a \in Int, NEW b \in Int
    PROVE  Max({a, b}) = IF a >= b THEN a ELSE b
<1> DEFINE x == IF a >= b THEN a ELSE b
<1>1. x \in {a, b} /\ \A y \in {a, b} : x >= y
  OBVIOUS
<1>2. \A y \in {a, b} : (\A z \in {a, b} : y >= z) => y = x
  OBVIOUS
<1> QED BY <1>1, <1>2 DEF Max

\* What the provers need to know of 1 MB and of 4 GB
LEMMA Units ==
    /\ MB \in Nat /\ MB > 0 /\ FourGB \in Nat /\ FourGB \div 2 \in Nat
    /\ FourGB = 2 * (FourGB \div 2) /\ 2 * MB < FourGB \div 2
BY DEF MB, FourGB

\* Where the memory of an ordinary machine ends, and its other ranges
LEMMA MachineEnd ==
    ASSUME OrdinaryMachines, map \in Machines
    PROVE  /\ Len(map) \in 1 .. Capacity /\ DOMAIN map = 1 .. Len(map)
           /\ \A i \in DOMAIN map : map[i].base \in Nat /\ map[i].length \in Nat
           /\ MemoryEnd \in 2 * MB .. FourGB \div 2 - 1
           /\ \E i \in DOMAIN map : map[i].base + map[i].length = MemoryEnd
           /\ \A i \in DOMAIN map :
                 LET last == map[i].base + map[i].length IN
                 IF map[i].type = Usable THEN last <= MemoryEnd
                 ELSE \/ last <= 2 * MB
                      \/ map[i].base >= MemoryEnd
                         /\ last \in FourGB \div 2 .. FourGB
<1>1. OrdinaryMachine(map)
  BY DEF OrdinaryMachines
<1>2. PICK end \in 2 * MB .. FourGB \div 2 - 1 :
         /\ \E i \in DOMAIN map :
               map[i].type = Usable /\ map[i].base + map[i].length = end
         /\ \A i \in DOMAIN map :
               LET last == map[i].base + map[i].length IN
               IF map[i].type = Usable THEN last <= end
               ELSE \/ last <= 2 * MB
                    \/ map[i].base >= end /\ last \in FourGB \div 2 .. FourGB
  BY <1>1 DEF OrdinaryMachine
<1>3. MemoryEnd = end
  <2> DEFINE ends == {map[i].base + map[i].length :
                         i \in {j \in DOMAIN map : map[j].type = Usable}}
  <2>1. ends \subseteq Int
    BY <1>1 DEF OrdinaryMachine
  <2>2. end \in ends /\ \A y \in ends : y <= end
    BY <1>2
  <2> HIDE DEF ends
  <2>3. Max(ends) = end
    BY <2>1, <2>2, GreatestIs
  <2> QED BY <2>3 DEF MemoryEnd, ends
<1> QED BY <1>1, <1>2, <1>3 DEF OrdinaryMachine

\* The comparison with a sign leaves out what ends above 2 GB.
LEMMA FindMaxRight ==
    ASSUME OrdinaryMachines, DetectionInv, FindMax
    PROVE  total_mem_bytes' = MemoryEnd
<1> DEFINE end(i) == map[i].base + map[i].length
           ends == {end(i) % FourGB : i \in 1 .. Len(map)} \cup {0}
<1>1. /\ map \in Machines /\ ARDS_number = Len(map)
      /\ ARDS_buffer = [i \in 1 .. Len(map) |-> map[i]]
  BY DEF DetectionInv, FindMax
<1>2. total_mem_bytes' = CHOOSE edx \in ends : \A eax \in ends : ~Greater(eax, edx)
  <2>1. {(ARDS_buffer[i].base + ARDS_buffer[i].length) % FourGB :
            i \in 1 .. ARDS_number} \cup {0} = ends
    BY <1>1
  <2> QED BY <2>1, Zenon DEF FindMax
<1>3. PICK half \in Nat, last \in Nat :
         /\ FourGB \div 2 = half /\ FourGB = 2 * half /\ MemoryEnd = last
         /\ 0 < last /\ last < half /\ 2 * MB <= last
  <2>1. MemoryEnd \in 2 * MB .. FourGB \div 2 - 1
    BY <1>1, MachineEnd
  <2>2. PICK last \in Nat : last = MemoryEnd
    BY <2>1, Units
  <2>3. PICK half \in Nat : half = FourGB \div 2
    BY Units
  <2>4. FourGB = 2 * half
    BY <2>3, Units
  <2>5. 0 < last /\ last < half /\ 2 * MB <= last
    BY <2>1, <2>2, <2>3, Units
  <2> QED BY <2>2, <2>3, <2>4, <2>5
<1>4. DOMAIN map = 1 .. Len(map)
  BY <1>1, MachineEnd
<1>5. ASSUME NEW i \in 1 .. Len(map)
      PROVE  end(i) \in 0 .. last \/ end(i) \in half .. 2 * half
  <2>1. end(i) \in Nat
    <3>1. map[i].base \in Nat /\ map[i].length \in Nat
      BY <1>1, <1>4, MachineEnd
    <3> QED BY <3>1
  <2>2. IF map[i].type = Usable THEN end(i) <= MemoryEnd
        ELSE \/ end(i) <= 2 * MB
             \/ map[i].base >= MemoryEnd /\ end(i) \in FourGB \div 2 .. FourGB
    BY <1>1, <1>4, MachineEnd
  <2> QED BY <1>3, <2>1, <2>2, Units
<1>6. \E i \in 1 .. Len(map) : end(i) = last
  BY <1>1, <1>3, <1>4, MachineEnd
<1> HIDE DEF end
<1>7. /\ \A n \in 0 .. 2 * half - 1 : n % (2 * half) = n
      /\ (2 * half) % (2 * half) = 0
  BY <1>3
<1>8. last \in ends
  <2>1. last \in 0 .. 2 * half - 1
    BY <1>3
  <2>2. last % (2 * half) = last
    BY <1>7, <2>1
  <2> QED BY <1>3, <1>6, <2>2
<1>9. \A x \in ends : x \in 0 .. last \/ x \in half .. 2 * half - 1
  <2> SUFFICES ASSUME NEW i \in 1 .. Len(map)
               PROVE  \/ end(i) % (2 * half) \in 0 .. last
                      \/ end(i) % (2 * half) \in half .. 2 * half - 1
    BY <1>3
  <2>1. CASE end(i) \in 0 .. last
    BY <1>3, <1>7, <2>1
  <2>2. CASE end(i) \in half .. 2 * half - 1
    BY <1>3, <1>7, <2>2
  <2>3. CASE end(i) = 2 * half
    BY <1>3, <1>7, <2>3
  <2>4. \/ end(i) \in 0 .. last \/ end(i) \in half .. 2 * half - 1
        \/ end(i) = 2 * half
    BY <1>5
  <2> QED BY <2>1, <2>2, <2>3, <2>4
<1> HIDE DEF ends
<1>10. \A x, y \in 0 .. 2 * half - 1 :
          Greater(x, y) <=> (IF x >= half THEN x - 2 * half ELSE x)
                               > (IF y >= half THEN y - 2 * half ELSE y)
  BY <1>3 DEF Greater
<1>11. \A x \in ends : ~Greater(x, last)
  BY <1>3, <1>9, <1>10
<1>12. \A x \in ends : ~Greater(last, x) => x = last
  BY <1>3, <1>9, <1>10
<1> QED BY <1>2, <1>3, <1>8, <1>11, <1>12

\* Asking for the next range
LEMMA E820Step ==
    ASSUME OrdinaryMachines, DetectionInv, E820
    PROVE  /\ phase' \in {"e820", "find_max"}
           /\ phase' = "e820" =>
                 ebx' \in 0 .. Len(map) - 1 /\ ARDS_number' = ebx'
                 /\ ARDS_buffer' = [i \in 1 .. ebx' |-> map[i]]
           /\ phase' = "find_max" =>
                 ARDS_number' = Len(map)
                 /\ ARDS_buffer' = [i \in 1 .. Len(map) |-> map[i]]
<1>1. /\ Len(map) \in 1 .. Capacity /\ ebx \in 0 .. Len(map) - 1
      /\ ARDS_number = ebx /\ ARDS_buffer = [i \in 1 .. ebx |-> map[i]]
      /\ Capacity \in Nat
  BY MachineEnd, BootAssumption DEF DetectionInv, E820
<1>2. Len(ARDS_buffer) = ebx /\ ebx < Capacity
  BY <1>1
<1>3. Append(ARDS_buffer, map[ebx + 1]) = [i \in 1 .. ebx + 1 |-> map[i]]
  <2> DEFINE All == {map[i] : i \in 1 .. Len(map)}
  <2>1. ARDS_buffer \in Seq(All) /\ map[ebx + 1] \in All
    BY <1>1
  <2>2. Len(ARDS_buffer) + 1 = ebx + 1
    BY <1>2
  <2> QED BY <1>1, <1>2, <2>1
<1>4. ARDS_number' = ebx + 1 /\ ARDS_buffer' = [i \in 1 .. ebx + 1 |-> map[i]]
  BY <1>1, <1>2, <1>3 DEF E820
<1>5. CASE LastEntry
  BY <1>1, <1>4, <1>5 DEF E820, LastEntry
<1>6. CASE ~LastEntry
  <2>1. ebx + 1 \in 0 .. Len(map) - 1
    BY <1>1, <1>6 DEF LastEntry
  <2>2. (ebx + 1) % Len(map) = ebx + 1
    BY <1>1, <2>1
  <2> QED BY <1>2, <1>4, <1>6, <2>1, <2>2 DEF E820
<1> QED BY <1>5, <1>6

\* 0xe801 on a machine of up to 16 MB
LEMMA E801Right ==
    ASSUME OrdinaryMachines, map \in Machines, E801, MemoryEnd <= 16 * MB
    PROVE  total_mem_bytes' = MemoryEnd
<1>1. PICK last \in Nat :
         last = MemoryEnd /\ 2 * MB <= last /\ last < FourGB /\ last <= 16 * MB
  BY MachineEnd, Units
<1>2. PICK mb \in Nat : mb = MB /\ mb > 0
  BY Units
<1>3. Min({last - mb, 15 * mb}) = last - mb
  BY <1>1, <1>2, Least
<1>4. Max({last - 16 * mb, 0}) = 0
  BY <1>1, <1>2, Greatest
<1>5. total_mem_bytes' = (last - mb + mb + 0 * mb) % FourGB
  BY <1>1, <1>2, <1>3, <1>4 DEF E801
<1>6. last - mb + mb + 0 * mb = last /\ last % FourGB = last
  BY <1>1, Units
<1> QED BY <1>1, <1>5, <1>6

\* 0x88
LEMMA Get88Right ==
    ASSUME OrdinaryMachines, map \in Machines, Get88
    PROVE  total_mem_bytes' = Min({MemoryEnd, 64 * MB})
<1>1. PICK last \in Nat : last = MemoryEnd
  BY MachineEnd, Units
<1>2. PICK mb \in Nat : mb = MB /\ mb > 0
  BY Units
<1>3. total_mem_bytes' = Min({last - mb, 63 * mb}) + mb
  BY <1>1, <1>2 DEF Get88, LowestMB
<1>4. Min({last - mb, 63 * mb}) = IF last - mb <= 63 * mb THEN last - mb
                                  ELSE 63 * mb
  BY <1>2, Least
<1>5. Min({last, 64 * mb}) = IF last <= 64 * mb THEN last ELSE 64 * mb
  BY <1>2, Least
<1>6. Min({last - mb, 63 * mb}) + mb = Min({last, 64 * mb})
  BY <1>4, <1>5
<1> QED BY <1>1, <1>2, <1>3, <1>6

LEMMA DetectionStart ==
    ASSUME OrdinaryMachines, BootInit
    PROVE  DetectionInv /\ PoolsInv
<1>1. /\ map \in Machines /\ ebx = 0 /\ ARDS_buffer = << >> /\ ARDS_number = 0
      /\ phase = "e820" /\ stage = "mbr" /\ done = FALSE
      /\ answered = "nothing"
  BY DEF BootInit, DetectionInit, Init
<1>2. Len(map) \in Nat \ {0}
  BY <1>1, MachineEnd, BootAssumption
<1>3. ARDS_buffer = [i \in 1 .. ebx |-> map[i]]
  BY <1>1
<1>4. DetectionInv
  BY <1>1, <1>2, <1>3 DEF DetectionInv, TotalIsMemory, Booting, Found
<1> QED BY <1>1, <1>4 DEF PoolsInv

LEMMA DetectStep ==
    ASSUME OrdinaryMachines, DetectionInv, FindMemory
    PROVE  DetectionInv' /\ ~Found
<1>1. /\ stage = "detect" /\ stage' = "detect" /\ Detect
      /\ "detect" \in Booting \ {"loader_reads", "kernel_init"}
  BY DEF FindMemory, Booting
<1>2. map' = map /\ map \in Machines
  BY <1>1 DEF Detect, E820, E820Fails, FindMax, E801, E801Fails, Get88,
              Get88Fails, DetectionInv
<1>3. MemoryEnd' = MemoryEnd
  BY <1>2 DEF MemoryEnd
<1>4. ~Found
  BY <1>1 DEF Detect, E820, E820Fails, FindMax, E801, E801Fails, Get88,
              Get88Fails, Found
<1>5. CASE E820
  <2>1. /\ phase' \in {"e820", "find_max"}
        /\ phase' = "e820" =>
              ebx' \in 0 .. Len(map) - 1 /\ ARDS_number' = ebx'
              /\ ARDS_buffer' = [i \in 1 .. ebx' |-> map[i]]
        /\ phase' = "find_max" =>
              ARDS_number' = Len(map)
              /\ ARDS_buffer' = [i \in 1 .. Len(map) |-> map[i]]
    BY <1>5, E820Step
  <2>2. ~Found'
    BY <2>1 DEF Found
  <2>3. answered' = answered
    BY <1>5 DEF E820
  <2> HIDE DEF Found
  <2> QED BY <1>1, <1>2, <1>4, <2>1, <2>2, <2>3 DEF DetectionInv, TotalIsMemory
<1>6. CASE FindMax
  <2>1. total_mem_bytes' = MemoryEnd' /\ answered' = "e820"
    BY <1>3, <1>6, FindMaxRight DEF FindMax
  <2>2. TotalIsMemory'
    BY <2>1 DEF TotalIsMemory
  <2> QED BY <1>1, <1>2, <1>6, <2>1, <2>2 DEF DetectionInv, FindMax, Found
<1>7. CASE E801
  <2>1. /\ MemoryEnd' <= 16 * MB => total_mem_bytes' = MemoryEnd'
        /\ answered' = "e801"
    BY <1>2, <1>3, <1>7, E801Right DEF E801
  <2>2. TotalIsMemory'
    BY <2>1 DEF TotalIsMemory, Exact
  <2> QED BY <1>1, <1>2, <1>7, <2>1, <2>2 DEF DetectionInv, E801, Found
<1>8. CASE Get88
  <2>1. total_mem_bytes' = Min({MemoryEnd', 64 * MB}) /\ answered' = "88"
    BY <1>2, <1>3, <1>8, Get88Right DEF Get88
  <2>2. TotalIsMemory'
    BY <2>1 DEF TotalIsMemory
  <2> QED BY <1>1, <1>2, <1>8, <2>1, <2>2 DEF DetectionInv, Get88, Found
<1>9. CASE E820Fails \/ E801Fails \/ Get88Fails
  BY <1>1, <1>2, <1>9
     DEF DetectionInv, TotalIsMemory, E820Fails, E801Fails, Get88Fails, Found
<1> QED BY <1>1, <1>4, <1>5, <1>6, <1>7, <1>8, <1>9 DEF Detect

\* Steps that do not touch what has been found
LEMMA DetectionKept ==
    ASSUME DetectionInv, UNCHANGED detectionVars,
           \/ Found
           \/ stage' \in Booting \ {"loader_reads", "kernel_init"}
    PROVE  DetectionInv'
<1>1. UNCHANGED <<map, ebx, ARDS_buffer, ARDS_number, total_mem_bytes, phase,
                  answered>>
  BY DEF detectionVars
<1>2. MemoryEnd' = MemoryEnd
  BY <1>1 DEF MemoryEnd
<1>3. TotalIsMemory'
  BY <1>1, <1>2 DEF DetectionInv, TotalIsMemory, Found, Exact
<1> QED BY <1>1, <1>3 DEF DetectionInv, Found

LEMMA PoolsKept ==
    ASSUME PoolsInv, UNCHANGED poolVars,
           ~Found \/ UNCHANGED detectionVars
    PROVE  PoolsInv'
BY DEF PoolsInv, poolVars, vars, detectionVars, Divided, Found,
       k_bitmap_len, u_bitmap_len, k_free_pages, u_free_pages, all_free_pages

LEMMA MemInitStep ==
    ASSUME DetectionInv, PoolsInv, mem_init
    PROVE  DetectionInv' /\ PoolsInv'
<1>1. /\ stage = "mem_init" /\ mem_pool_init(16 * total_mem_bytes)
      /\ UNCHANGED detectionVars
  BY DEF mem_init
<1>2. Found
  BY <1>1 DEF DetectionInv, Booting
<1>3. DetectionInv'
  BY <1>1, <1>2, DetectionKept
<1>4. UNCHANGED <<phase, total_mem_bytes>>
  BY <1>1 DEF detectionVars
<1>5. all_mem' = 16 * total_mem_bytes /\ done'
  BY <1>1 DEF mem_pool_init
<1>6. Divided(16 * total_mem_bytes)'
  BY <1>1, <1>4 DEF mem_pool_init, Divided, k_bitmap_len, u_bitmap_len,
                    k_free_pages, u_free_pages, all_free_pages
<1>7. done' \in BOOLEAN
  BY <1>1 DEF mem_pool_init
<1>8. Divided(all_mem)'
  BY <1>4, <1>5, <1>6 DEF Divided, k_bitmap_len, u_bitmap_len,
                    k_free_pages, u_free_pages, all_free_pages
<1>9. PoolsInv'
  BY <1>2, <1>4, <1>5, <1>7, <1>8 DEF PoolsInv, Found
<1> QED BY <1>3, <1>9

LEMMA DetectionNext ==
    ASSUME OrdinaryMachines, DetectionInv, PoolsInv, [BootNext]_bootVars
    PROVE  DetectionInv' /\ PoolsInv'
<1>1. CASE FindMemory
  <2>1. UNCHANGED poolVars
    BY <1>1 DEF FindMemory
  <2> QED BY <1>1, <2>1, DetectStep, PoolsKept
<1>2. CASE mem_init
  BY <1>2, MemInitStep
<1>3. CASE \/ ReadLoader \/ DiskStep \/ EnterLoader \/ ReadKernel
           \/ CallKernelInit \/ CopySegments \/ EnterKernel
           \/ idt_init \/ timer_init \/ thread_init \/ thread_test
           \/ DeviceRequest \/ TakeInterrupt \/ UNCHANGED bootVars
  <2>1. UNCHANGED detectionVars /\ UNCHANGED poolVars
    BY <1>3 DEF ReadLoader, DiskStep, EnterLoader, ReadKernel,
                CallKernelInit, CopySegments, EnterKernel,
                idt_init, timer_init, thread_init, thread_test,
                DeviceRequest, TakeInterrupt, bootVars
  <2>2. \/ Found
        \/ stage' \in Booting \ {"loader_reads", "kernel_init"}
    BY <1>3 DEF ReadLoader, DiskStep, EnterLoader, ReadKernel,
                CallKernelInit, CopySegments, EnterKernel,
                idt_init, timer_init, thread_init, thread_test,
                DeviceRequest, TakeInterrupt, bootVars, DetectionInv, Booting
  <2> QED BY <2>1, <2>2, DetectionKept, PoolsKept
<1> QED BY <1>1, <1>2, <1>3 DEF BootNext, BootStep

LEMMA DetectionHolds ==
    ASSUME OrdinaryMachines
    PROVE  BootSpec => [](DetectionInv /\ PoolsInv)
<1>1. BootInit => DetectionInv /\ PoolsInv
  BY DetectionStart
<1>2. DetectionInv /\ PoolsInv /\ [BootNext]_bootVars
         => (DetectionInv /\ PoolsInv)'
  BY DetectionNext
<1> QED BY <1>1, <1>2, PTL DEF BootSpec

(* On every ordinary machine, in whatever order the BIOS has its ranges:    *)
(* 0xe820 finds where the usable memory ends, 0xe801 does so on a machine   *)
(* of up to 16 MB, and 0x88 says the lesser of that and 64 MB. Where 0xe801 *)
(* answers for more the theorem claims nothing, and no tables of ACPI lie   *)
(* right behind the memory (loader_load_kernel.S:121-235).                  *)
THEOREM MemoryFound ==
    ASSUME OrdinaryMachines
    PROVE  BootSpec => []TotalIsMemory
<1>1. DetectionInv => TotalIsMemory
  BY DEF DetectionInv
<1> QED BY <1>1, DetectionHolds, PTL

\* What the pools get
LEMMA PoolsOfMachine ==
    ASSUME OrdinaryMachines, DetectionInv, PoolsInv, done, Exact
    PROVE  /\ all_mem \in 512 .. PagesOf4GB - 1 /\ all_mem <= 16 * MemoryEnd
           /\ Divided(all_mem)
<1>1. Found /\ all_mem = 16 * total_mem_bytes /\ Divided(all_mem)
  BY DEF PoolsInv
<1>2. PICK last \in Nat, mb \in Nat :
         /\ last = MemoryEnd /\ mb = MB /\ 2 * mb <= last
         /\ last < FourGB \div 2
  BY MachineEnd, Units DEF DetectionInv
<1>3. total_mem_bytes \in {last, Min({last, 64 * mb})}
  BY <1>1, <1>2 DEF DetectionInv, TotalIsMemory
<1>4. Min({last, 64 * mb}) = IF last <= 64 * mb THEN last ELSE 64 * mb
  BY <1>2, Least
<1>5. /\ total_mem_bytes \in Nat /\ total_mem_bytes <= last
      /\ 2 * mb <= total_mem_bytes
  BY <1>2, <1>3, <1>4
<1>6. 16 * (2 * mb) = 512 /\ 16 * (FourGB \div 2) < PagesOf4GB
      /\ PagesOf4GB \in Nat /\ FourGB \div 2 \in Nat
  BY <1>2, PageSize DEF MB, FourGB, PagesOf4GB, PAGE_SIZE
<1> QED BY <1>1, <1>2, <1>5, <1>6

(* The frames that the kernel gives out are memory of an ordinary machine,  *)
(* and no range of another type than usable holds one of them, unless the   *)
(* amount is what 0xe801 answered for more than 16 MB                       *)
(* (loader_load_kernel.S:121-235, memory.c:70-152).                         *)
THEOREM FramesAreMemory ==
    ASSUME OrdinaryMachines
    PROVE  BootSpec => []PoolsInMachine
<1>1. DetectionInv /\ PoolsInv => PoolsInMachine
  <2> SUFFICES ASSUME DetectionInv, PoolsInv, done, Exact PROVE PoolsInMachine!2
    BY DEF PoolsInMachine
  <2>1. /\ all_mem \in 512 .. PagesOf4GB - 1 /\ all_mem <= 16 * MemoryEnd
        /\ Divided(all_mem)
    BY PoolsOfMachine
  <2>2. PICK end \in Nat : end = MemoryEnd
    BY MachineEnd, Units DEF DetectionInv
  <2>3. /\ kernel_pmem_pool.base_paddr = 512
        /\ user_pmem_pool.base_paddr = used_mem + k_free_pages(all_mem)
        /\ user_pmem_pool.len = u_bitmap_len(all_mem)
    BY <2>1 DEF Divided, used_mem
  <2>4. LastFrame(user_pmem_pool) <= 16 * end
        /\ LastFrame(user_pmem_pool) \in Nat
    BY <2>1, <2>2, <2>3, PoolSizes DEF LastFrame, used_mem
  <2>5. ASSUME NEW i \in DOMAIN map, map[i].type # Usable
        PROVE  \/ 16 * map[i].base >= LastFrame(user_pmem_pool)
               \/ 16 * (map[i].base + map[i].length) <= 512
    <3>1. PICK base \in Nat, last \in Nat :
             /\ base = map[i].base /\ last = map[i].base + map[i].length
      BY MachineEnd DEF DetectionInv
    <3>2. last <= 2 * MB \/ base >= end
      BY <2>2, <2>5, <3>1, MachineEnd DEF DetectionInv
    <3>3. 16 * (2 * MB) = 512
      BY DEF MB
    <3> QED BY <2>2, <2>4, <3>1, <3>2, <3>3, Units
  <2> QED BY <2>2, <2>3, <2>4, <2>5
<1> QED BY <1>1, DetectionHolds, PTL

(* The pools and bitmaps of the machine that has booted are as MemoryPools  *)
(* promises for the amounts it is given, unless the amount is what 0xe801   *)
(* answered for more than 16 MB (memory.c:70-152).                          *)
THEOREM PoolsOfBoot ==
    ASSUME OrdinaryMachines
    PROVE  BootSpec => [](Exact => PoolLayout)
<1>1. DetectionInv /\ PoolsInv /\ Exact => PoolLayout
  <2>1. CASE ~done
    BY <2>1 DEF PoolLayout, PoolsInMemory, BitmapsFit
  <2>2. ASSUME DetectionInv, PoolsInv, Exact, done PROVE PoolLayout
    <3>1. all_mem \in 512 .. PagesOf4GB - 1 /\ Divided(all_mem)
      BY <2>2, PoolsOfMachine
    <3>2. /\ kernel_pmem_pool.base_paddr = used_mem
          /\ kernel_pmem_pool.len = k_bitmap_len(all_mem)
          /\ kernel_pmem_pool.bits = MEM_BITMAP_BASE_MEM_ADDR
          /\ user_pmem_pool.base_paddr = used_mem + k_free_pages(all_mem)
          /\ user_pmem_pool.len = u_bitmap_len(all_mem)
          /\ user_pmem_pool.bits =
                MEM_BITMAP_BASE_MEM_ADDR + k_bitmap_len(all_mem)
          /\ kernel_vaddr_bitmap.len = k_bitmap_len(all_mem)
          /\ kernel_vaddr_bitmap.bits =
                MEM_BITMAP_BASE_MEM_ADDR + k_bitmap_len(all_mem)
                   + u_bitmap_len(all_mem)
      BY <3>1 DEF Divided
    <3>3. PoolsInMemory
      BY <3>1, <3>2, PoolSizes DEF PoolsInMemory, LastFrame, used_mem
    <3>4. BitmapsFit
      BY <3>1, <3>2, PoolSizes, PageSize
         DEF BitmapsFit, MEM_BITMAP_BASE_MEM_ADDR, MainPcb
    <3> QED BY <3>3, <3>4 DEF PoolLayout
  <2> QED BY <2>1, <2>2
<1> QED BY <1>1, DetectionHolds, PTL
=============================================================================
