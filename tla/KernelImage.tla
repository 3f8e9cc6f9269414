------------------------------ MODULE KernelImage ------------------------------
(***************************************************************************)
(* How the loader puts the segments of the kernel where they were linked   *)
(* (kernel_init and mem_cpy of boot/loader_load_kernel.S).  Addresses count*)
(* words, as in DiskRead; the fields of the headers are known, and what is *)
(* copied is the memory the file was read to.                              *)
(***************************************************************************)
EXTENDS Integers, Sequences

CONSTANTS
    ImageBase,      \* KERNEL_BIN_BASE_MEM_ADDR
    RegisterValues  \* 2 to the power of 32

VARIABLES
    mem,
    headers,        \* of the kernel: [p_type, p_offset, p_vaddr, p_filesz]
    loader          \* [pc, ebx, ecx, esi, edi, n, saved]

PT_NULL == 0
PT_LOAD == 1

IdleLoader == [pc |-> "idle", ebx |-> 0, ecx |-> 0, esi |-> 0, edi |-> 0,
               n |-> 0, saved |-> 0]

\* e_phoff and e_phnum; ebx is the number of the header
kernel_init ==
    /\ loader.pc = "idle"
    /\ loader' = [IdleLoader EXCEPT !.pc = "each_segment", !.ebx = 1,
                                    !.ecx = Len(headers)]
    /\ UNCHANGED <<mem, headers>>

\* Deliberate error: the type is not tested.
IsNullNever(type) == FALSE

\* cmp byte: only the low byte of p_type is looked at.
IsNull(type) == type % 256 = PT_NULL

\* add ebx, edx / loop .each_segment
NextSegment(ecx) ==
    LET left == (ecx + RegisterValues - 1) % RegisterValues
    IN  [loader EXCEPT !.ebx = @ + 1, !.ecx = left,
                       !.pc = IF left = 0 THEN "done" ELSE "each_segment"]

SkipSegment ==
    /\ loader.pc = "each_segment"
    /\ IsNull(headers[loader.ebx].p_type)
    /\ loader' = NextSegment(loader.ecx)
    /\ UNCHANGED <<mem, headers>>

\* push size, src, dst / call mem_cpy, which saves ecx for the loop
CallMemCpy ==
    LET header == headers[loader.ebx] IN
    /\ loader.pc = "each_segment"
    /\ ~IsNull(header.p_type)
    /\ loader' = [loader EXCEPT !.pc = "movsb", !.saved = loader.ecx,
                                !.edi = header.p_vaddr,
                                !.esi = ImageBase + header.p_offset,
                                !.n = header.p_filesz]
    /\ UNCHANGED <<mem, headers>>

\* One round of rep movsb
Movsb ==
    /\ loader.pc = "movsb"
    /\ loader.n > 0
    /\ mem' = [mem EXCEPT ![loader.edi] = mem[loader.esi]]
    /\ loader' = [loader EXCEPT !.edi = @ + 1, !.esi = @ + 1, !.n = @ - 1]
    /\ UNCHANGED headers

\* pop ecx / ret, and on with the next header
MemCpyReturns ==
    /\ loader.pc = "movsb"
    /\ loader.n = 0
    /\ loader' = NextSegment(loader.saved)
    /\ UNCHANGED <<mem, headers>>

LoaderStep == SkipSegment \/ CallMemCpy \/ Movsb \/ MemCpyReturns

-----------------------------------------------------------------------------
(* Correctness *)

Loaded == loader.pc = "done"

Segments == {headers[i] : i \in {j \in DOMAIN headers : headers[j].p_type = PT_LOAD}}

(* When the kernel is entered, every loadable segment is at its address,    *)
(* word for word what the file holds, although later copies, of headers that*)
(* are not to be loaded too, go over earlier ones (loader_load_kernel.S:    *)
(* 649-692).                                                                *)
SegmentsInPlace(file) ==
    Loaded =>
        \A segment \in Segments : \A i \in 0 .. segment.p_filesz - 1 :
            mem[segment.p_vaddr + i] = file + segment.p_offset + i
=============================================================================
