--------------------------- MODULE SwitchContextInv ---------------------------
(***************************************************************************)
(* The inductive invariant of SwitchContext: what stands on every kernel   *)
(* stack whenever a handler calls or returns.                              *)
(***************************************************************************)
EXTENDS SwitchContext

Rows == 0 .. PageWords - 1

\* A machine has the registers, and its memory is pages of PageWords words.
IsMachine(m) ==
    /\ DOMAIN m = {"cpu", "mem"}
    /\ DOMAIN m.cpu = {"r", "page", "sp", "intr_on", "pc"}
    /\ m.cpu.r = [x \in Register |-> m.cpu.r[x]]
    /\ m.cpu.page \in Thread
    /\ m.cpu.sp \in 0 .. PageWords
    /\ DOMAIN m.mem = Thread
    /\ \A t \in Thread : DOMAIN m.mem[t] = Rows

\* The threads that have entered their functions
Started == {t \in created : received[t] # <<Junk, Junk>>}

\* The thread_stack that init_thread_stack lays out
Bottom == PageWords - Reserved

Bodies == {<<"body", 0>>, <<"body", 1>>}

\* The word j places below the part of the stack that t's own code uses
Below(m, t, j) == m.mem[t][own[t].sp - j]

-----------------------------------------------------------------------------
(* The words on a stack that are read again, from the gate down *)

\* What iretd, popad and the pops of the segments take back
GateFrame(m, t) ==
    /\ Below(m, t, 1) = Flags(TRUE)
    /\ Below(m, t, 3) = own[t].pc
    /\ Below(m, t, 5) = own[t].r["ds"]
    /\ Below(m, t, 6) = own[t].r["es"]
    /\ Below(m, t, 7) = own[t].r["fs"]
    /\ Below(m, t, 8) = own[t].r["gs"]
    /\ Below(m, t, 9) = own[t].r["eax"]
    /\ Below(m, t, 10) = own[t].r["ecx"]
    /\ Below(m, t, 11) = own[t].r["edx"]
    /\ Below(m, t, 12) = own[t].r["ebx"]
    /\ Below(m, t, 14) = own[t].r["ebp"]
    /\ Below(m, t, 15) = own[t].r["esi"]
    /\ Below(m, t, 16) = own[t].r["edi"]

\* The return address of the handler
StubReturn(m, t) == Below(m, t, 18) = Code("stub")

\* That of schedule
HandlerReturn(m, t) == Below(m, t, 20) = Code("handler_end")

\* The frame pointer of the handler, saved by schedule
ScheduleFrame(m, t) == Below(m, t, 21) = Addr(t, own[t].sp - 19)

\* The return address of switch_to
SwitchReturn(m, t) == Below(m, t, 27) = Code("schedule_end")

\* The registers of schedule, saved by switch_to
SwitchFrame(m, t) ==
    /\ Below(m, t, 28) = Temp(t, "esi")
    /\ Below(m, t, 29) = Temp(t, "edi")
    /\ Below(m, t, 30) = Temp(t, "ebx")
    /\ Below(m, t, 31) = Addr(t, own[t].sp - 21)

\* A thread that has left the processor: self_kstack points at what switch_to
\* pops. A new one pops the words of thread_stack.
Suspended(m, t) ==
    IF t \in Started
    THEN /\ m.mem[t][0] = Addr(t, own[t].sp - 31)
         /\ GateFrame(m, t) /\ StubReturn(m, t) /\ HandlerReturn(m, t)
         /\ ScheduleFrame(m, t) /\ SwitchReturn(m, t) /\ SwitchFrame(m, t)
    ELSE /\ m.mem[t][0] = Addr(t, Bottom)
         /\ m.mem[t][Bottom + 4] = Code("kernel_thread")
         /\ m.mem[t][Bottom + 6] = Func(t)
         /\ m.mem[t][Bottom + 7] = Arg(t)

-----------------------------------------------------------------------------
(* The parts of the invariant *)

\* What a thread's code last had is a context with IF set, and its part of the
\* stack, from floor down, has at most MaxOwn words.
IsOwn(o, from) ==
    /\ o = [r |-> o.r, pc |-> o.pc, intr_on |-> TRUE, sp |-> o.sp,
            stack |-> o.stack]
    /\ o.r = [x \in Register |-> o.r[x]]
    /\ o.pc \in Bodies
    /\ o.stack = [i \in o.sp .. PageWords - 1 |-> o.stack[i]]
    /\ from \in {PageWords, Bottom + 2}
    /\ o.sp \in Int /\ from - MaxOwn <= o.sp /\ o.sp <= from

OwnInv ==
    /\ own = [t \in Thread |-> own[t]]
    /\ floor = [t \in Thread |-> floor[t]]
    /\ \A t \in Started : IsOwn(own[t], floor[t])

\* kernel_thread gives a thread its function and its argument once.
StartInv ==
    /\ created \subseteq Thread
    /\ received = [t \in Thread |-> received[t]]
    /\ \A t \in Thread : \/ received[t] = <<Junk, Junk>>
                         \/ t \in created /\ received[t] = Arguments(t)

\* The part of its stack that a thread's code uses is as it left it.
KeptInv(m) ==
    \A t \in Started : \A i \in Rows :
        i >= own[t].sp => m.mem[t][i] = own[t].stack[i]

SuspendedInv(m) ==
    \A t \in created : t # m.cpu.page => Suspended(m, t)

-----------------------------------------------------------------------------
(* Where the thread that has the processor is, and what is on its stack *)

\* ESP points k words below the thread's own part of its stack, and EBP k words.
EspAt(m, k) ==
    m.cpu.page \in Started /\ m.cpu.sp = own[m.cpu.page].sp - k

EbpAt(m, k) == m.cpu.r["ebp"] = Addr(m.cpu.page, own[m.cpu.page].sp - k)

TempsIn(m) ==
    \A x \in {"ebx", "esi", "edi"} : m.cpu.r[x] = Temp(m.cpu.page, x)

\* switch_to(current, next)
SwitchArguments(m) ==
    /\ Below(m, m.cpu.page, 26) = Addr(m.cpu.page, 0)
    /\ \E next \in created : Below(m, m.cpu.page, 25) = Addr(next, 0)

BodyPoint(m) ==
    /\ m.cpu.pc \in Bodies
    /\ m.cpu.page \in Started
    /\ Context(m) = own[m.cpu.page]

NewPoint(m) ==
    /\ m.cpu.pc = Code("kernel_thread")
    /\ m.cpu.page \in created \ Started
    /\ m.cpu.sp = Bottom + 5
    /\ m.mem[m.cpu.page][Bottom + 6] = Func(m.cpu.page)
    /\ m.mem[m.cpu.page][Bottom + 7] = Arg(m.cpu.page)

HandlerPoint(m) ==
    /\ m.cpu.pc = Code("handler") /\ EspAt(m, 18)
    /\ GateFrame(m, m.cpu.page) /\ StubReturn(m, m.cpu.page)

SchedulePoint(m) ==
    /\ m.cpu.pc = Code("schedule") /\ EspAt(m, 20) /\ EbpAt(m, 19)
    /\ GateFrame(m, m.cpu.page) /\ StubReturn(m, m.cpu.page)
    /\ HandlerReturn(m, m.cpu.page)

SwitchPoint(m) ==
    /\ m.cpu.pc = Code("switch_to") /\ EspAt(m, 27) /\ EbpAt(m, 21)
    /\ GateFrame(m, m.cpu.page) /\ StubReturn(m, m.cpu.page)
    /\ HandlerReturn(m, m.cpu.page) /\ ScheduleFrame(m, m.cpu.page)
    /\ SwitchReturn(m, m.cpu.page) /\ SwitchArguments(m) /\ TempsIn(m)

ScheduleEndPoint(m) ==
    /\ m.cpu.pc = Code("schedule_end") /\ EspAt(m, 26) /\ EbpAt(m, 21)
    /\ GateFrame(m, m.cpu.page) /\ StubReturn(m, m.cpu.page)
    /\ HandlerReturn(m, m.cpu.page) /\ ScheduleFrame(m, m.cpu.page)
    /\ TempsIn(m)

HandlerEndPoint(m) ==
    /\ m.cpu.pc = Code("handler_end") /\ EspAt(m, 19) /\ EbpAt(m, 19)
    /\ GateFrame(m, m.cpu.page) /\ StubReturn(m, m.cpu.page)

StubPoint(m) ==
    m.cpu.pc = Code("stub") /\ EspAt(m, 17) /\ GateFrame(m, m.cpu.page)

PointInv(m) ==
    \/ BodyPoint(m) \/ NewPoint(m) \/ HandlerPoint(m) \/ SchedulePoint(m)
    \/ SwitchPoint(m) \/ ScheduleEndPoint(m) \/ HandlerEndPoint(m)
    \/ StubPoint(m)

MachineInv(m) ==
    IsMachine(m) /\ KeptInv(m) /\ SuspendedInv(m) /\ PointInv(m)

IInv == StartInv /\ OwnInv /\ MachineInv(Machine)
=============================================================================
