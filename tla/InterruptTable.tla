---------------------------- MODULE InterruptTable ----------------------------
(***************************************************************************)
(* How the kernel gets ready for interrupts (idt_init of kernel/interrupt.c*)
(* and timer_init of device/timer.c), and what becomes of a request once   *)
(* they are enabled: which vector the 8259A chooses, whether there is a    *)
(* gate for it, and which function the stub calls.  What happens on the    *)
(* stack is in SwitchContext, who runs afterwards in KernelThreads.        *)
(***************************************************************************)
EXTENDS Integers, Sequences, FiniteSetsExt

CONSTANTS
    Lines,      \* of the 16 IRQ lines, those on which devices may raise requests
    Gone,       \* whether a request may be gone when the processor asks for
                \* its vector: {FALSE}, or BOOLEAN for lines that glitch
    NULL

VARIABLES
    IDT,        \* vectors that have a gate
    IDT_table,  \* [vector -> function the stub calls]
    idtr,       \* number of gates the processor knows of
    pic,        \* ["M" and "S" -> [icw, base, imr, isr]]: the two 8259A
    pit,        \* counter 0 of the 8253: its mode, the byte it waits for, the
                \* count it starts from and whether it counts
    outs,       \* how many of its writes pic_init or frequency_set has done
    irr,        \* lines that ask for an interrupt
    intr_on,    \* IF of EFLAGS
    hung        \* the processor does not leave default_intr_handler

IDT_DESC_COUNT == 33        \* 0x21
GeneralProtection == 13

Chips == {"M", "S"}
AllLines == 0 .. 7

\* What the BIOS leaves: no gates of protected mode, vectors from 8 and 0x70 on,
\* and a square wave of 18.2 Hz
TableInit ==
    /\ IDT = {}
    /\ IDT_table = [v \in 0 .. IDT_DESC_COUNT - 1 |-> NULL]
    /\ idtr = 0
    /\ pic = [c \in Chips |-> [icw |-> 0, base |-> IF c = "M" THEN 8 ELSE 112,
                               imr |-> {}, isr |-> {}]]
    /\ pit = [mode |-> 3, next |-> "low", count |-> 65536, counts |-> TRUE]
    /\ outs = 0
    /\ irr = {}
    /\ intr_on = FALSE
    /\ hung = FALSE

idt_desc_init ==
    /\ IDT' = 0 .. IDT_DESC_COUNT - 1
    /\ UNCHANGED <<IDT_table, idtr, pic, pit, outs, irr, intr_on, hung>>

exception_init ==
    /\ IDT_table' = [v \in 0 .. IDT_DESC_COUNT - 1 |-> "default_intr_handler"]
    /\ UNCHANGED <<IDT, idtr, pic, pit, outs, irr, intr_on, hung>>

\* The writes of pic_init: port, value
PicWrites ==
    << <<32, 17>>, <<33, 32>>, <<33, 4>>, <<33, 1>>,
       <<160, 17>>, <<161, 40>>, <<161, 2>>, <<161, 1>>,
       <<33, 254>>, <<161, 255>> >>

\* The lines that a value of the interrupt mask register masks
MaskOf(value) == {line \in AllLines : (value \div 2 ^ line) % 2 = 1}

\* What a 8259A does with a value: ICW1 starts the initialization and opens all
\* lines, three more words follow; afterwards a value at A0 = 1 is the mask.
Written(chip, a0, value) ==
    IF a0 = 0 THEN [chip EXCEPT !.icw = 2, !.imr = {}, !.isr = {}]
    ELSE IF chip.icw = 2 THEN [chip EXCEPT !.icw = 3, !.base = value]
    ELSE IF chip.icw = 3 THEN [chip EXCEPT !.icw = 4]
    ELSE IF chip.icw = 4 THEN [chip EXCEPT !.icw = 0]
    ELSE [chip EXCEPT !.imr = MaskOf(value)]

\* What the 8253 does with a value: a control word for counter 0 sets its mode
\* and stops it, the low and the high byte of the count start it again.
PitWritten(port, value) ==
    IF port = 67
    THEN [mode |-> (value \div 2) % 8, next |-> "low", count |-> 0,
          counts |-> FALSE]
    ELSE IF pit.next = "low" THEN [pit EXCEPT !.next = "high", !.count = value]
    ELSE [pit EXCEPT !.next = "low", !.count = @ + 256 * value, !.counts = TRUE]

\* A chip of the 8259A has two ports, the even one for A0 = 0; 0x40 is counter 0
\* of the 8253 and 0x43 its control word.
outb(port, data) ==
    /\ pic' = [c \in Chips |->
                 IF port \in (IF c = "M" THEN {32, 33} ELSE {160, 161})
                 THEN Written(pic[c], port % 2, data) ELSE pic[c]]
    /\ pit' = IF port \in {64, 67} THEN PitWritten(port, data) ELSE pit
    /\ outs' = outs + 1
    /\ UNCHANGED <<IDT, IDT_table, idtr, irr, intr_on, hung>>

PicOut ==
    /\ outs < Len(PicWrites)
    /\ outb(PicWrites[outs + 1][1], PicWrites[outs + 1][2])

lidt ==
    /\ outs = Len(PicWrites)
    /\ outs' = 0
    /\ idtr' = Cardinality(IDT)
    /\ UNCHANGED <<IDT, IDT_table, pic, pit, irr, intr_on, hung>>

\* INPUT_FREQUENCY / 1000, a uint16_t
TimerValue == (1193180 \div 1000) % 65536

\* Deliberate error: the high byte is written first.
PitWritesSwapped ==
    << <<67, 52>>, <<64, TimerValue \div 256>>, <<64, TimerValue % 256>> >>

\* The writes of frequency_set(TIMER0_PORT, TIMER0_NO, RWL_RW, MODE_2, ...):
\* port, value.  52 is 0 << 6 | RWL_RW << 4 | MODE_2 << 1.
PitWrites ==
    << <<67, 52>>, <<64, TimerValue % 256>>, <<64, TimerValue \div 256>> >>

PitOut ==
    /\ outs < Len(PitWrites)
    /\ outb(PitWrites[outs + 1][1], PitWrites[outs + 1][2])

\* After frequency_set
register_handler(v, function) ==
    /\ outs = Len(PitWrites)
    /\ outs' = 0
    /\ IDT_table' = [IDT_table EXCEPT ![v] = function]
    /\ UNCHANGED <<IDT, idtr, pic, pit, irr, intr_on, hung>>

intr_enable ==
    /\ intr_on' = TRUE
    /\ UNCHANGED <<IDT, IDT_table, idtr, pic, pit, outs, irr, hung>>

\* Modes 2 and 3 start again from the count whenever it has run out.
Periodic == pit.counts /\ pit.mode \in {2, 3}

\* A device raises a request; lines 8 to 15 are the slave's, behind line 2, and
\* line 0 is the output of counter 0.
Request(line) ==
    /\ line \notin irr
    /\ line = 0 => Periodic
    /\ irr' = irr \cup {line}
    /\ UNCHANGED <<IDT, IDT_table, idtr, pic, pit, outs, intr_on, hung>>

\* A request gets through when its line is open and nothing of its priority or
\* a higher one is in service.
Open(c, line) ==
    /\ pic[c].icw = 0
    /\ line \notin pic[c].imr
    /\ \A other \in pic[c].isr : line < other

Deliverable(line) ==
    IF line < 8 THEN Open("M", line)
    ELSE Open("M", 2) /\ Open("S", line - 8)

VectorOf(line) ==
    IF line < 8 THEN pic["M"].base + line ELSE pic["S"].base + line - 8

\* default_intr_handler returns for the vectors of IRQ 7 and 15 only.
Hangs(v) ==
    \/ v \notin IDT \/ v >= idtr        \* #GP, which is handled by default
    \/ IDT_table[v] = "default_intr_handler" /\ v \notin {39, 47}

\* The stub sends a non-specific EOI to both chips: the line of the highest
\* priority is no longer in service.
Eoi(isr) == IF isr = {} THEN {} ELSE isr \ {Min(isr)}

\* Where a request is in service until the EOI; one of the slave's in both
InService(c, line) ==
    CASE c = "M" /\ line < 8  -> {line}
      [] c = "M" /\ line >= 8 -> {2}
      [] c = "S" /\ line >= 8 -> {line - 8}
      [] OTHER                -> {}

\* The processor takes a request and comes back from the handler, which the
\* stub calls after the EOI. For a request that is gone the master answers with
\* the vector of line 7, and nothing is in service.
Serve(line) ==
    /\ intr_on /\ ~hung
    /\ line \in irr
    /\ Deliverable(line)
    /\ irr' = irr \ {line}
    /\ \E gone \in Gone :
          /\ hung' = Hangs(IF gone THEN pic["M"].base + 7 ELSE VectorOf(line))
          /\ pic' = [c \in Chips |->
                       [pic[c] EXCEPT !.isr =
                          Eoi(IF gone THEN @ ELSE @ \cup InService(c, line))]]
    /\ UNCHANGED <<IDT, IDT_table, idtr, pit, outs, intr_on>>

-----------------------------------------------------------------------------
(* Correctness *)

(* No request that a device can raise ends in default_intr_handler, which   *)
(* shows an exception and never returns: everything but the timer is masked *)
(* and the timer has a gate and its own handler before interrupts are       *)
(* enabled (interrupt.c:336-355,394-432; timer.c:222-235; init.c:19-26).    *)
NeverHangs == ~hung
=============================================================================
