-------------------------------- MODULE MCBoot --------------------------------
(***************************************************************************)
(* Machines and kernels for Boot: the ranges that the BIOS of a PC with a  *)
(* given amount of memory reports, and the headers that ld writes.         *)
(***************************************************************************)
EXTENDS BootInv, SequencesExt

AddressRange(base, end, type) ==
    [base |-> base, length |-> end - base, type |-> type]

Reserved == 2

\* Memory, and the ranges of the interrupt controllers and of the BIOS at 4 GB
Plain(end) ==
    {AddressRange(0, 10, 1), AddressRange(16, end, 1),
     AddressRange(65216, 65217, Reserved), AddressRange(65532, 65536, Reserved)}

\* The last 64 KB of memory hold the tables of ACPI.
WithAcpi(end) ==
    {AddressRange(0, 10, 1), AddressRange(16, end - 1, 1),
     AddressRange(end - 1, end, 3)}

\* As many ranges as fit into ARDS_buffer, nine of them for devices, or more
WithDevices(end, n) ==
    <<AddressRange(0, 10, 1), AddressRange(15, 16, Reserved),
      AddressRange(16, end, 1)>>
    \o [i \in 1 .. n |-> AddressRange(65000 + 2 * i, 65001 + 2 * i, Reserved)]

\* Machines of 8 MB to 2047 MB; those of 32 MB with their ranges in every order
MCMachines ==
    {SetToSeq(Plain(end)) : end \in {128, 256, 4096, 32752}}
       \cup SetToSeqs(Plain(512)) \cup {WithDevices(512, 9)}

AcpiMachines   == SetToSeqs(WithAcpi(512))
LargeMachines  == SetToSeqs(Plain(49152))
Machines512    == SetToSeqs(Plain(8192))

\* One range more than there is room for
ManyRanges == {WithDevices(512, 10)}

Header(type, offset, vaddr, filesz) ==
    [p_type |-> type, p_offset |-> offset, p_vaddr |-> vaddr, p_filesz |-> filesz]

\* Headers, code, constants and data in segments of their own; the stack and
\* the relocated data at the end, of types 0x6474e551 and 0x6474e552
ManySegments ==
    <<Header(1, 0, 5, 1), Header(1, 2, 7, 3), Header(1, 6, 11, 2),
      Header(1, 9, 14, 1), Header(1685382481, 0, 0, 0),
      Header(1685382482, 9, 14, 1)>>

\* One segment for headers, code and constants, and headers that are not used,
\* of types PT_NULL and PT_LOPROC
FewSegments ==
    <<Header(0, 3, 2, 4), Header(1, 0, 5, 7), Header(1, 7, 13, 2),
      Header(1879048192, 3, 6, 2)>>

MCKernels == {ManySegments, FewSegments}

\* What the machines have, in pages; 64 MB and 512 MB
MCAmounts == {2048, 4096, 8192, 65536, 524032, 16384, 131072}
===============================================================================
