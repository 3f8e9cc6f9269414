----------------------------- MODULE MemoryPools -----------------------------
(***************************************************************************)
(* How kernel/memory.c divides the memory that the loader found into the   *)
(* pool of the kernel and the pool of the user, and where it puts the three*)
(* bitmaps (mem_pool_init).                                                *)
(*                                                                         *)
(* Memory counts pages of 4 KB: the code divides by PAGE_SIZE at once, and *)
(* what is added up before is a multiple of it, so an unsigned number of 32*)
(* bits is a number of 20 bits here.  The bitmaps are measured in bytes,   *)
(* and their addresses counted from 0xc0000000.                            *)
(***************************************************************************)
EXTENDS Integers

CONSTANT AllMem     \* amounts of memory the loader may find

PAGE_SIZE == 4096

\* 2 to the power of 16, and the number of pages in 4 GB
TwoTo16     == 16 * PAGE_SIZE
PagesOf4GB  == 256 * PAGE_SIZE

\* The loader has written page tables up to the second megabyte.
ASSUME PoolsAssumption == AllMem \subseteq 512 .. PagesOf4GB - 1

VARIABLES
    all_mem,                \* argument of mem_pool_init, 0 before the call
    kernel_pmem_pool,       \* [bits, len, base_paddr, size]
    user_pmem_pool,
    kernel_vaddr_bitmap,    \* [bits, len]
    done

vars == <<all_mem, kernel_pmem_pool, user_pmem_pool, kernel_vaddr_bitmap, done>>

\* (uint16_t)
Uint16(n) == n % TwoTo16

\* 0xc009a000, and 0xc009e000, where the PCB of main is
MEM_BITMAP_BASE_MEM_ADDR == 154 * PAGE_SIZE
MainPcb == 158 * PAGE_SIZE

used_mem == 256 + 256

\* Deliberate error: the number is not cut to 16 bits.
all_free_pages_wide(m) == (m - used_mem) % PagesOf4GB

all_free_pages(m) == Uint16((m - used_mem) % PagesOf4GB)
k_free_pages(m)   == all_free_pages(m) \div 2
u_free_pages(m)   == all_free_pages(m) - k_free_pages(m)
k_bitmap_len(m)   == k_free_pages(m) \div 8
u_bitmap_len(m)   == u_free_pages(m) \div 8

Cleared == [bits |-> 0, len |-> 0]
NoPool  == [bits |-> 0, len |-> 0, base_paddr |-> 0, size |-> 0]

Init ==
    /\ all_mem = 0
    /\ kernel_pmem_pool = NoPool
    /\ user_pmem_pool = NoPool
    /\ kernel_vaddr_bitmap = Cleared
    /\ done = FALSE

mem_pool_init(m) ==
    /\ ~done
    /\ done' = TRUE
    /\ all_mem' = m
    /\ kernel_pmem_pool' =
          [bits |-> MEM_BITMAP_BASE_MEM_ADDR, len |-> k_bitmap_len(m),
           base_paddr |-> used_mem, size |-> k_free_pages(m)]
    /\ user_pmem_pool' =
          [bits |-> MEM_BITMAP_BASE_MEM_ADDR + k_bitmap_len(m),
           len |-> u_bitmap_len(m),
           base_paddr |-> used_mem + k_free_pages(m),
           size |-> u_free_pages(m)]
    /\ kernel_vaddr_bitmap' =
          [bits |-> MEM_BITMAP_BASE_MEM_ADDR + k_bitmap_len(m) + u_bitmap_len(m),
           len |-> k_bitmap_len(m)]

Next == \E m \in AllMem : mem_pool_init(m)

Spec == Init /\ [][Next]_vars

-----------------------------------------------------------------------------
(* Correctness *)

\* What a pool can give: base_paddr plus a page for each bit of its bitmap
LastFrame(pool) == pool.base_paddr + 8 * pool.len

(* The frames of the pools exist, lie behind the page tables, and no frame  *)
(* is in both pools, although the bitmaps are rounded down and the number of*)
(* pages is cut to 16 bits (memory.c:81-110).                               *)
PoolsInMemory ==
    done =>
        /\ kernel_pmem_pool.base_paddr >= 512
        /\ LastFrame(kernel_pmem_pool) <= user_pmem_pool.base_paddr
        /\ LastFrame(user_pmem_pool) <= all_mem

(* The three bitmaps, laid one behind the other from 0xc009a000 on, do not  *)
(* overlap and end below the PCB of main (memory.c:22-28,112-146): only     *)
(* because the number of pages has 16 bits.                                 *)
BitmapsFit ==
    done =>
        /\ kernel_pmem_pool.bits + kernel_pmem_pool.len <= user_pmem_pool.bits
        /\ user_pmem_pool.bits + user_pmem_pool.len <= kernel_vaddr_bitmap.bits
        /\ kernel_vaddr_bitmap.bits + kernel_vaddr_bitmap.len <= MainPcb

(* The pools and their bitmaps together                                     *)
PoolLayout == PoolsInMemory /\ BitmapsFit

(* Machines of up to 512 MB are supported (memory.c:22-28): all of their    *)
(* memory is in the pools, but for the pages lost to rounding.              *)
AllMemoryInPools ==
    done /\ all_mem <= 32 * PAGE_SIZE =>
        kernel_pmem_pool.size + user_pmem_pool.size = all_mem - used_mem
=============================================================================
