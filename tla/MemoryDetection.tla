--------------------------- MODULE MemoryDetection ---------------------------
(***************************************************************************)
(* How the loader finds out how much memory there is                       *)
(* (boot/loader_load_kernel.S): it asks the BIOS for the address ranges one*)
(* by one (0xe820), and where a call fails for the sizes that functions    *)
(* 0xe801 and 0x88 give.  Addresses count 64 KB; a register of 32 bits     *)
(* holds 4 GB of them.                                                     *)
(***************************************************************************)
EXTENDS Integers, Sequences, FiniteSetsExt

CONSTANTS
    Machines,       \* address maps: sequences of [base, length, type]
    Capacity        \* 12 in the code: entries that fit into ARDS_buffer

FourGB == 65536
MB     == 16

Usable == 1         \* AddressRangeMemory; every other type is reserved

VARIABLES
    map,            \* the ranges the BIOS knows
    ebx,            \* how many of them it has returned; 0 after the last
    ARDS_buffer,
    ARDS_number,
    total_mem_bytes,
    phase,          \* what the loader does next
    answered        \* auxiliary: the function that has said how much there is

\* Where the memory of the machine that may be used ends
MemoryEnd == Max({map[i].base + map[i].length :
                     i \in {j \in DOMAIN map : map[j].type = Usable}})

DetectionInit ==
    /\ map \in Machines
    /\ ebx = 0
    /\ ARDS_buffer = <<>>
    /\ ARDS_number = 0
    /\ total_mem_bytes = 0
    /\ phase = "e820"
    /\ answered = "nothing"

\* Deliberate error: ebx is not looked at.
LastEntryNever == FALSE

LastEntry == ebx + 1 = Len(map)

\* One round of .e820_mem_get_loop. An entry behind the buffer has its
\* BaseAddrHigh, which is 0, where ARDS_number is, and its Type in the code of
\* the loop.
E820 ==
    /\ phase = "e820"
    /\ ARDS_buffer' = Append(ARDS_buffer, map[ebx + 1])
    /\ ARDS_number' = IF Len(ARDS_buffer) < Capacity THEN ARDS_number + 1 ELSE 1
    /\ ebx' = (ebx + 1) % Len(map)
    /\ phase' = IF LastEntry THEN "find_max"
                ELSE IF Len(ARDS_buffer) < Capacity THEN "e820"
                ELSE "wild"
    /\ UNCHANGED <<map, total_mem_bytes, answered>>

E820Fails ==
    /\ phase = "e820"
    /\ phase' = "e801"
    /\ UNCHANGED <<map, ebx, ARDS_buffer, ARDS_number, total_mem_bytes,
                   answered>>

\* Deliberate error: an unsigned comparison (jae).
GreaterUnsigned(eax, edx) == eax > edx

\* jge compares with a sign.
Greater(eax, edx) ==
    LET Signed(x) == IF x >= FourGB \div 2 THEN x - FourGB ELSE x
    IN  Signed(eax) > Signed(edx)

\* .find_max_mem_area, from 0 on, through the entries that were counted
FindMax ==
    /\ phase = "find_max"
    /\ LET ends == {(ARDS_buffer[i].base + ARDS_buffer[i].length) % FourGB :
                       i \in 1..ARDS_number} \cup {0}
       IN  total_mem_bytes' = CHOOSE edx \in ends :
                                 \A eax \in ends : ~Greater(eax, edx)
    /\ phase' = "mem_get_ok"
    /\ answered' = "e820"
    /\ UNCHANGED <<map, ebx, ARDS_buffer, ARDS_number>>

\* 0xe801: AX says what lies between 1 and 16 MB, BX what lies above it in
\* units of 64 KB, which the loader multiplies by 0x100000.
E801 ==
    /\ phase = "e801"
    /\ LET ax == Min({MemoryEnd - MB, 15 * MB})
           bx == Max({MemoryEnd - 16 * MB, 0})
       IN  total_mem_bytes' = (ax + MB + bx * MB) % FourGB
    /\ phase' = "mem_get_ok"
    /\ answered' = "e801"
    /\ UNCHANGED <<map, ebx, ARDS_buffer, ARDS_number>>

E801Fails ==
    /\ phase = "e801"
    /\ phase' = "88"
    /\ UNCHANGED <<map, ebx, ARDS_buffer, ARDS_number, total_mem_bytes,
                   answered>>

\* Deliberate error: the megabyte that 0x88 leaves out is not added.
LowestMBForgotten == 0

LowestMB == MB

\* 0x88: what lies above 1 MB, 63 MB at most
Get88 ==
    /\ phase = "88"
    /\ total_mem_bytes' = Min({MemoryEnd - MB, 63 * MB}) + LowestMB
    /\ phase' = "mem_get_ok"
    /\ answered' = "88"
    /\ UNCHANGED <<map, ebx, ARDS_buffer, ARDS_number>>

Get88Fails ==
    /\ phase = "88"
    /\ phase' = "error_halt"
    /\ UNCHANGED <<map, ebx, ARDS_buffer, ARDS_number, total_mem_bytes,
                   answered>>

Detect ==
    \/ E820 \/ E820Fails \/ FindMax
    \/ E801 \/ E801Fails
    \/ Get88 \/ Get88Fails

-----------------------------------------------------------------------------
(* Correctness *)

Found == phase = "mem_get_ok"

\* What the answer promises. It says nothing where 0xe801 answered for more
\* than 16 MB: that is what NeverTooMuch is about.
Exact == answered = "e801" => MemoryEnd <= 16 * MB

(* Whatever calls fail on the way and in whatever order the BIOS has its    *)
(* ranges, the loader finds where the usable memory ends: with 0xe820, for  *)
(* which the ranges that the BIOS keeps below 4 GB do not count although no *)
(* type is tested; with 0xe801 on a machine of up to 16 MB; and with 0x88,  *)
(* which says no more than 64 MB (loader_load_kernel.S:121-235).            *)
TotalIsMemory ==
    Found =>
        /\ answered = "e820" => total_mem_bytes = MemoryEnd
        /\ answered = "e801" /\ Exact => total_mem_bytes = MemoryEnd
        /\ answered = "88" => total_mem_bytes = Min({MemoryEnd, 64 * MB})

(* The loader never finds memory that is not there: BX of 0xe801 counts     *)
(* 64 KB, and the comment says that it is multiplied by 64 K                *)
(* (loader_load_kernel.S:164-165,195-203).                                  *)
NeverTooMuch == Found => total_mem_bytes <= MemoryEnd

(* The comment on the loop: the highest range may be used, so its type need *)
(* not be looked at (loader_load_kernel.S:143).                             *)
TopIsUsable ==
    Found /\ ARDS_number = Len(map) =>
        \A i \in DOMAIN map :
            map[i].base + map[i].length = total_mem_bytes =>
                map[i].type = Usable
=============================================================================
