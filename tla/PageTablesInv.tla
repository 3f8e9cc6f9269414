---------------------------- MODULE PageTablesInv -----------------------------
(***************************************************************************)
(* The inductive invariant behind the properties of PageTables, for a heap *)
(* that lies in the part of the address space whose tables exist.          *)
(***************************************************************************)
EXTENDS PageTables

\* The pages of kernel_vaddr: behind the entry of 0xc0000000, before the last
\* one, through which the tables themselves are seen.
KernelHeap == Heap \subseteq KernelEntry * Entries .. (Entries - 1) * Entries - 1

\* ... and behind the first megabyte, with tables in memory that was cleared
ClearedHeap ==
    /\ KernelHeap
    /\ \A page \in Heap : page >= KernelEntry * Entries + LowFrames
    /\ Leftover \subseteq {NONE}

Value == Int \cup {NONE} \cup Leftover

\* mapping_vaddr_to_pmem never writes to the directory.
TablesInv ==
    /\ tables \in [Dir .. LastFrame -> [Index -> Value]]
    /\ tables[Dir] = PageDirectory

FramesInv ==
    /\ next_free \in FirstFree .. LastFrame + 1
    /\ mapped \in [Heap -> FirstFree .. next_free - 1 \cup {NONE}]
    /\ panic \in BOOLEAN

\* What has been mapped is found again.
WalkInv ==
    ~panic => \A page \in Heap :
        mapped[page] # NONE => Translate(tables, page) = mapped[page]

IInv == TablesInv /\ FramesInv /\ WalkInv

\* What has not been mapped has an empty entry.
AbsentInv ==
    /\ ~panic
    /\ \A page \in Heap : mapped[page] = NONE => Translate(tables, page) = NONE
=============================================================================
