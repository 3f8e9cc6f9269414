----------------------------- MODULE PageTables ------------------------------
(***************************************************************************)
(* The page directory and the page tables: as the loader builds them       *)
(* (setup_page, boot/loader_load_kernel.S), as the processor walks them,   *)
(* and as mapping_vaddr_to_pmem (kernel/memory.c) enters pages through the *)
(* virtual addresses that pde_pointer and pte_pointer compute.             *)
(*                                                                         *)
(* Addresses count 4-byte words and a page has Entries of them, so that one*)
(* table fills a page; an entry is the frame it points to, or NONE when its*)
(* present bit is 0.  Attributes are left out.                             *)
(***************************************************************************)
EXTENDS Integers

CONSTANTS
    Entries,        \* 1024 in the code: entries of a table
    KernelEntry,    \* 768: the directory entry of 0xc0000000
    LowFrames,      \* 256: frames of the first megabyte
    PoolFrames,     \* bound: frames palloc can give
    Heap,           \* bound: pages that are asked for
    Leftover,       \* what the memory of a table may hold before it is written
    NONE

ASSUME PageTablesAssumption ==
    /\ Entries \in Nat /\ KernelEntry \in 1..Entries - 2
    /\ LowFrames \in 1..Entries
    /\ PoolFrames \in Nat
    /\ Heap \subseteq 0 .. Entries * Entries - 1
    /\ NONE \notin Int

VARIABLES
    tables,         \* the entries in the frames that may hold a table
    next_free,      \* the frame palloc gives next
    mapped,         \* auxiliary: the frame each page has been given
    panic           \* an ASSERT failed

tablesVars == <<tables, next_free, mapped, panic>>

\* PAGE_DIR_TABLE_BASE_ADDR; the tables of the kernel lie behind it.
Dir == LowFrames
FirstTable == Dir + 1
FirstFree == Dir + Entries - KernelEntry
LastFrame == FirstFree + PoolFrames - 1

Index == 0 .. Entries - 1

\* Deliberate error: the loop makes one round too many.
PageDirectoryOneMore ==
    [i \in Index |->
        IF i \in {0, KernelEntry} THEN FirstTable
        ELSE IF i > KernelEntry THEN FirstTable + (i - KernelEntry)
        ELSE NONE]

\* setup_page: a cleared directory, in which the entries 0 and KernelEntry have
\* one table in common, the entries behind KernelEntry have one each, and the
\* last one is the directory itself.
PageDirectory ==
    [i \in Index |->
        IF i \in {0, KernelEntry} THEN FirstTable
        ELSE IF i \in KernelEntry + 1 .. Entries - 2
             THEN FirstTable + (i - KernelEntry)
        ELSE IF i = Entries - 1 THEN Dir
        ELSE NONE]

\* setup_page writes LowFrames entries of the first table and leaves the rest
\* of it and the other tables as they are.
TablesInit ==
    /\ \E left \in [FirstTable .. LastFrame -> Leftover] :
          tables = [f \in Dir .. LastFrame |->
                    IF f = Dir THEN PageDirectory
                    ELSE [i \in Index |->
                             IF f = FirstTable /\ i < LowFrames THEN i
                             ELSE left[f]]]
    /\ next_free = FirstFree
    /\ mapped = [p \in Heap |-> NONE]
    /\ panic = FALSE

-----------------------------------------------------------------------------
(* The processor *)

PdeOf(m, page) == m[Dir][page \div Entries]

Translate(m, page) ==
    IF PdeOf(m, page) = NONE THEN NONE
    ELSE m[PdeOf(m, page)][page % Entries]

\* The word that virtual address v stands for
Where(m, v) == <<Translate(m, v \div Entries), v % Entries>>

Load(m, v) == m[Translate(m, v \div Entries)][v % Entries]

Store(m, v, entry) ==
    [m EXCEPT ![Translate(m, v \div Entries)][v % Entries] = entry]

-----------------------------------------------------------------------------
(* kernel/memory.c *)

\* Deliberate error: one level too deep, the pointer of the PTE.
pde_pointer_deep(v) ==
    (Entries - 1) * Entries * Entries
        + (v \div (Entries * Entries)) * Entries
        + ((v \div Entries) % Entries)

\* 0xfffff000 + (PDE_IDX(vaddr) << 2)
pde_pointer(v) ==
    (Entries * Entries - 1) * Entries + v \div (Entries * Entries)

\* Deliberate error: the bits of PTE_IDX are not masked out before the shift.
pte_pointer_unmasked(v) ==
    (Entries - 1) * Entries * Entries + v \div Entries
        + ((v \div Entries) % Entries)

\* 0xffc00000 + ((vaddr & 0xffc00000) >> 10) + (PTE_IDX(vaddr) << 2)
pte_pointer(v) ==
    (Entries - 1) * Entries * Entries
        + (v \div (Entries * Entries)) * Entries
        + ((v \div Entries) % Entries)

\* memset of the page that the pointer points into
ClearTableOf(m, pte) ==
    [m EXCEPT ![Translate(m, pte \div Entries)] = [i \in Index |-> NONE]]

\* palloc gives the frames of its pool in order: none is ever given back.
FreshFrame(n) == n

\* malloc_page's loop: a frame from palloc, then mapping_vaddr_to_pmem. Callers
\* that preempt each other bring the pages in any order, each page once.
MapPage(page) ==
    LET v   == page * Entries
        pde == pde_pointer(v)
        pte == pte_pointer(v)
        frame == FreshFrame(next_free)
        page_table == FreshFrame(next_free + 1)
        with_pde == Store(tables, pde, page_table)
    IN  /\ ~panic
        /\ mapped[page] = NONE
        /\ mapped' = [mapped EXCEPT ![page] = frame]
        /\ IF Load(tables, pde) # NONE
           THEN /\ next_free <= LastFrame
                /\ next_free' = next_free + 1
                /\ panic' = (Load(tables, pte) # NONE)
                /\ tables' = IF panic' THEN tables
                             ELSE Store(tables, pte, frame)
           ELSE /\ next_free + 1 <= LastFrame
                /\ next_free' = next_free + 2
                /\ tables' = Store(ClearTableOf(with_pde, pte), pte, page_table)
                /\ UNCHANGED panic

TablesNext == \E page \in Heap : MapPage(page)

TablesSpec == TablesInit /\ [][TablesNext]_tablesVars

-----------------------------------------------------------------------------
(* Correctness *)

MappedPages == {p \in Heap : mapped[p] # NONE}

(* The pointers lead, by the walk the processor makes, to the entries they  *)
(* are named after, for every address, however the tables fill              *)
(* (memory.c:259-381): the directory has to keep its own last entry.        *)
PointersReach ==
    \A page \in 0 .. Entries * Entries - 1 :
        LET v == page * Entries
        IN  /\ Where(tables, pde_pointer(v)) = <<Dir, page \div Entries>>
            /\ PdeOf(tables, page) # NONE =>
                  Where(tables, pte_pointer(v))
                      = <<PdeOf(tables, page), page % Entries>>

(* What mapping_vaddr_to_pmem promises: a page leads to the frame it was    *)
(* mapped to (memory.c:382-386), and still does after later mappings; and no*)
(* such frame is a table, the directory or in the first megabyte, so that   *)
(* writing to a page changes no mapping.                                    *)
MappingMaps ==
    ~panic => \A page \in MappedPages :
        /\ Translate(tables, page) = mapped[page]
        /\ mapped[page] \notin {tables[Dir][i] : i \in Index} \cup 0 .. Dir

(* A present entry never changes: the kernel never executes INVLPG, so the  *)
(* processor may go on using what it has once read.                         *)
EntriesStay ==
    [][\A page \in 0 .. Entries * Entries - 1 :
          Translate(tables, page) # NONE =>
              Translate(tables, page)' = Translate(tables, page)]_tablesVars

(* The ASSERT on the present bit of the entry: a page that has not been     *)
(* mapped yet has none (memory.c:398-400).                                  *)
PteAbsent == ~panic
=============================================================================
