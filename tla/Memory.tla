-------------------------------- MODULE Memory -------------------------------
(***************************************************************************)
(* The page allocator of kernel/memory.c, for the kernel: get_kernel_pages *)
(* takes a row of virtual pages from kernel_vaddr_pool, then for each page *)
(* a frame from kernel_pmem_pool, and enters the frame in the page table.  *)
(* A caller's steps are the places where the code reads or writes a shared *)
(* structure; bitmap_scan and the loops of bitmap_set are one step each.   *)
(*                                                                         *)
(* Pages are counted from kernel_vaddr_pool.base_vaddr, frames from        *)
(* kernel_pmem_pool.base_paddr.  Both bitmaps are PoolBytes long           *)
(* (k_bitmap_len); the bits behind the frame bitmap are the first ones of  *)
(* the user pool's, which nothing sets, and those behind the page bitmap   *)
(* lie in memory nobody has initialised.  Every page table of the pool     *)
(* exists: the loader fills page directory entries 768 to 1022             *)
(* (boot/loader_load_kernel.S), so the branch of mapping_vaddr_to_pmem for *)
(* a missing one is never taken.  get_kernel_pages clears the pages it     *)
(* returns; what is in a page is left out.                                 *)
(***************************************************************************)
EXTENDS Bitmap

CONSTANTS
    Caller,         \* threads that call get_kernel_pages
    PoolBytes,      \* k_bitmap_len
    MaxRequest,     \* bound: the most pages asked for at once
    Preemptible,    \* whether the callers run with EFLAGS.IF set
    NO_FRAME        \* no frame: the present bit of the PTE is 0

ASSUME MemoryAssumption ==
    /\ PoolBytes \in Nat \ {0}
    /\ MaxRequest \in Nat \ {0}
    /\ Preemptible \in BOOLEAN
    /\ NO_FRAME \notin Int

VARIABLES
    vaddr_bits,     \* kernel_vaddr_pool.vaddr_bitmap
    pmem_bits,      \* kernel_pmem_pool.pmem_bitmap
    pte,            \* the frame each page is mapped to
    call,           \* what malloc_page is doing for each caller
    granted,        \* auxiliary: pages each caller has been given
    malloc_panic    \* an ASSERT failed

memoryVars == <<vaddr_bits, pmem_bits, pte, call, granted, malloc_panic>>

PoolSize == PoolBytes * ByteBits

\* Pages of the pool, and the one whose bit bitmap_scan may look at as well
Page == 0 .. PoolSize

Frame == 0 .. PoolSize - 1

Rows(start, count) == start .. start + count - 1

Idle == [pc |-> "idle", vaddr |-> 0, page_count |-> 0, mapped |-> 0,
         frame |-> 0]

-----------------------------------------------------------------------------
(* mem_pool_init: both bitmaps are cleared, and no page of the pool is      *)
(* mapped yet.                                                              *)

MemoryInit ==
    /\ \E behind \in SUBSET Byte(PoolBytes) :
          vaddr_bits = bitmap_init(0 .. PoolSize - 1, PoolBytes) \cup behind
    /\ pmem_bits = bitmap_init(0 .. PoolSize - 1, PoolBytes)
    /\ pte = [p \in Page |-> NO_FRAME]
    /\ call = [c \in Caller |-> Idle]
    /\ granted = [c \in Caller |-> {}]
    /\ malloc_panic = FALSE

-----------------------------------------------------------------------------
(* With interrupts off a call runs to its end before another starts.        *)

MayRun(c) ==
    /\ ~malloc_panic
    /\ Preemptible \/ \A d \in Caller \ {c} : call[d] = Idle

CallerAt(c, point) == MayRun(c) /\ call[c].pc = point

\* malloc_page(PF_KERNEL, page_count), whose ASSERT on page_count holds
GetKernelPages(c, page_count) ==
    /\ CallerAt(c, "idle")
    /\ call' = [call EXCEPT ![c] = [Idle EXCEPT !.pc = "vaddr_scan",
                                                !.page_count = page_count]]
    /\ UNCHANGED <<vaddr_bits, pmem_bits, pte, granted, malloc_panic>>

\* vaddr_pool_get: bitmap_scan, and the return of NULL when it finds nothing
VaddrScan(c) ==
    /\ CallerAt(c, "vaddr_scan")
    /\ IF ScanPanics(vaddr_bits, PoolBytes)
       THEN malloc_panic' = TRUE /\ UNCHANGED call
       ELSE LET bit_start_index ==
                    bitmap_scan(vaddr_bits, PoolBytes, call[c].page_count)
            IN  /\ call' = [call EXCEPT ![c] =
                      IF bit_start_index = -1 THEN Idle
                      ELSE [@ EXCEPT !.pc = "vaddr_set",
                                     !.vaddr = bit_start_index]]
                /\ UNCHANGED malloc_panic
    /\ UNCHANGED <<vaddr_bits, pmem_bits, pte, granted>>

\* Deliberate error: only the first bit of the row is set.
VaddrSetFirst(c) ==
    /\ CallerAt(c, "vaddr_set")
    /\ vaddr_bits' = bitmap_set(vaddr_bits, call[c].vaddr, 1)
    /\ call' = [call EXCEPT ![c].pc = "palloc_scan"]
    /\ UNCHANGED <<pmem_bits, pte, granted, malloc_panic>>

\* vaddr_pool_get: the loop of bitmap_set
VaddrSet(c) ==
    /\ CallerAt(c, "vaddr_set")
    /\ vaddr_bits' = vaddr_bits \cup Rows(call[c].vaddr, call[c].page_count)
    /\ call' = [call EXCEPT ![c].pc = "palloc_scan"]
    /\ UNCHANGED <<pmem_bits, pte, granted, malloc_panic>>

\* palloc: bitmap_scan for one frame, which panics rather than returns -1
PallocScan(c) ==
    /\ CallerAt(c, "palloc_scan")
    /\ IF ScanPanics(pmem_bits, PoolBytes)
       THEN malloc_panic' = TRUE /\ UNCHANGED call
       ELSE /\ call' = [call EXCEPT ![c].pc = "palloc_set",
                          ![c].frame = bitmap_scan(pmem_bits, PoolBytes, 1)]
            /\ UNCHANGED malloc_panic
    /\ UNCHANGED <<vaddr_bits, pmem_bits, pte, granted>>

\* Deliberate error: palloc does not set the bit of the frame.
PallocSetNothing(c) ==
    /\ CallerAt(c, "palloc_set")
    /\ call' = [call EXCEPT ![c].pc = "mapping"]
    /\ UNCHANGED <<vaddr_bits, pmem_bits, pte, granted, malloc_panic>>

\* palloc: bitmap_set
PallocSet(c) ==
    /\ CallerAt(c, "palloc_set")
    /\ pmem_bits' = bitmap_set(pmem_bits, call[c].frame, 1)
    /\ call' = [call EXCEPT ![c].pc = "mapping"]
    /\ UNCHANGED <<vaddr_bits, pte, granted, malloc_panic>>

\* mapping_vaddr_to_pmem, and the end of malloc_page's loop: when every page
\* has its frame get_kernel_pages returns the row.
Mapping(c) ==
    /\ CallerAt(c, "mapping")
    /\ LET k == call[c]
           vaddr == k.vaddr + k.mapped
           last == k.mapped + 1 = k.page_count
       IN  IF pte[vaddr] # NO_FRAME
           THEN malloc_panic' = TRUE /\ UNCHANGED <<pte, call, granted>>
           ELSE /\ pte' = [pte EXCEPT ![vaddr] = k.frame]
                /\ call' = [call EXCEPT ![c] =
                      IF last THEN Idle
                      ELSE [k EXCEPT !.pc = "palloc_scan", !.mapped = @ + 1]]
                /\ granted' = IF last
                              THEN [granted EXCEPT ![c] =
                                       @ \cup Rows(k.vaddr, k.page_count)]
                              ELSE granted
                /\ UNCHANGED malloc_panic
    /\ UNCHANGED <<vaddr_bits, pmem_bits>>

MemoryNext ==
    \E c \in Caller :
        \/ \E page_count \in 1..MaxRequest : GetKernelPages(c, page_count)
        \/ VaddrScan(c)
        \/ VaddrSet(c)
        \/ PallocScan(c)
        \/ PallocSet(c)
        \/ Mapping(c)

MemorySpec == MemoryInit /\ [][MemoryNext]_memoryVars

-----------------------------------------------------------------------------
(* Correctness *)

TypeOK ==
    /\ vaddr_bits \subseteq 0 .. PoolSize + ByteBits - 1
    /\ pmem_bits \subseteq Frame
    /\ pte \in [Page -> Frame \cup {NO_FRAME}]
    /\ call \in [Caller ->
          [pc : {"idle", "vaddr_scan", "vaddr_set", "palloc_scan",
                 "palloc_set", "mapping"},
           vaddr : Page, page_count : 0..MaxRequest, mapped : 0..MaxRequest - 1,
           frame : Frame]]
    /\ granted \in [Caller -> SUBSET Page]
    /\ malloc_panic \in BOOLEAN

Mapped == {p \in Page : pte[p] # NO_FRAME}

Claimed == {call[c].frame : c \in {d \in Caller : call[d].pc = "mapping"}}

(* Every page a caller has been given belongs to it alone and has a frame   *)
(* of its own, one the bitmap of the pool shows as taken: the comment on    *)
(* palloc asks for the scan and the set of the bit to be atomic for this    *)
(* (memory.c:245-251).  And it is a page of the pool: the one for the bit   *)
(* behind the page bitmap, which bitmap_scan can choose, reaches no caller, *)
(* because the bitmaps have one length and the frames run out first         *)
(* (memory.c:104-152,442-485; bitmap.c:82-107).                             *)
PagesOwned ==
    /\ \A c, d \in Caller : c # d => granted[c] \cap granted[d] = {}
    /\ \A p, q \in Mapped : pte[p] = pte[q] => p = q
    /\ \A c \in Caller : granted[c] \subseteq Mapped
    /\ {pte[p] : p \in Mapped} \subseteq pmem_bits
    /\ \A c \in Caller : granted[c] \subseteq 0 .. PoolSize - 1

(* No page or frame leaks while the kernel runs: outside a call the pages   *)
(* marked as taken are the mapped ones, and there are frames for exactly    *)
(* those (memory.c:442-485).                                                *)
NothingLeaks ==
    (\A c \in Caller : call[c] = Idle) =>
        /\ vaddr_bits \cap (0 .. PoolSize - 1) = Mapped
        /\ pmem_bits = {pte[p] : p \in Mapped}

(* A call that could be granted does not fail, in whichever way: NULL is    *)
(* returned only when no row of free pages is as long as the one asked for, *)
(* and an ASSERT fails only when all the frames are taken (memory.c:198-251,*)
(* 442-485; bitmap.c:60-75).  That an ASSERT fails where NULL is promised is*)
(* what FailureIsNull is about.                                             *)
FailsOnlyWhenFull ==
    [][/\ malloc_panic' => pmem_bits = Frame
       /\ \A c \in Caller :
             call[c].pc = "vaddr_scan" /\ call'[c] = Idle =>
                FirstRow(vaddr_bits, PoolSize, call[c].page_count) = -1
      ]_memoryVars

(* The comments on get_kernel_pages and palloc: NULL on failure             *)
(* (memory.c:238-241,488-492). Asking for more than there is does not stop  *)
(* the kernel.                                                              *)
FailureIsNull == ~malloc_panic
=============================================================================
