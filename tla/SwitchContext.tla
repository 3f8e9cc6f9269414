---------------------------- MODULE SwitchContext ----------------------------
(***************************************************************************)
(* What is on the kernel stacks: the words that the interrupt gate, the    *)
(* entry stub (kernel/kernel_interrupt.S), the C frames between the stub   *)
(* and switch_to, switch_to itself (thread/switch.S) and init_thread_stack *)
(* (thread/thread.c) push, pop and lay out.  KernelThreads says when a     *)
(* thread leaves the processor; this module says that it gets its registers*)
(* and its stack back.                                                     *)
(*                                                                         *)
(* A word is a tuple whose first component is its kind.  The stack of a    *)
(* thread is the upper part of the page that holds its PCB, whose word 0   *)
(* is self_kstack.  The handler runs with IF clear from the gate to iretd  *)
(* (InterruptsOnlyInThreadCode in KernelThreads): a step is a stretch of   *)
(* its code up to a call or a return.                                      *)
(***************************************************************************)
EXTENDS Integers, Sequences

CONSTANTS
    Thread,         \* PCB pages
    MainThread,     \* the thread that runs main()
    PcbWords,       \* words of a page that the task_struct takes
    PageWords,      \* 1024 in the code
    Reserved,       \* 108 in the code: sizeof counted in words
    MaxOwn          \* bound: words a thread function keeps on its stack

\* The least room: from the function of a new thread to the end of switch_to
\* it takes 29 words more than the PCB, the gap and the function's own.
ASSUME SwitchAssumption ==
    /\ MainThread \in Thread
    /\ PcbWords \in Nat \ {0} /\ MaxOwn \in Nat
    /\ Reserved \in Nat /\ Reserved >= 8
    /\ PageWords \in Nat
    /\ PageWords >= PcbWords + Reserved + MaxOwn + 29

VARIABLES
    cpu,            \* registers, ESP as page and offset, IF, program counter
    mem,            \* the words of every page
    created,        \* threads that thread_create has made
    floor,          \* where the part of each stack its function uses begins
    own,            \* auxiliary: what each thread's own code last had
    received        \* auxiliary: what kernel_thread was called with

vars == <<cpu, mem, created, floor, own, received>>

General  == {"eax", "ecx", "edx", "ebx", "ebp", "esi", "edi"}
Segments == {"ds", "es", "fs", "gs"}
Register == General \cup Segments

Junk      == <<"junk">>
Zero      == <<"zero">>
Flags(on) == <<"flags", on>>
Addr(t, offset) == <<"addr", t, offset>>
Code(label)     == <<"code", label>>
Func(t)   == <<"func", t>>
Arg(t)    == <<"arg", t>>

Arguments(t) == <<Func(t), Arg(t)>>

\* What the code of thread t puts into a register, in one of two versions
Data(t, r, n) == <<"data", t, r, n>>

\* What schedule itself keeps in a register on behalf of thread t
Temp(t, r) == <<"temp", t, r>>

-----------------------------------------------------------------------------
(* Instructions, on a machine [cpu, mem] *)

Peek(m, i) == m.mem[m.cpu.page][m.cpu.sp + i]

\* ESP := t + sp. What lies below ESP may be gone at the next interrupt.
SetEsp(m, t, sp) ==
    [m EXCEPT !.cpu.page = t, !.cpu.sp = sp,
              !.mem[t] = [i \in DOMAIN @ |->
                             IF i >= PcbWords /\ i < sp THEN Junk ELSE @[i]]]

Drop(m, n) == SetEsp(m, m.cpu.page, m.cpu.sp + n)

\* push the words, the first one first
PushAll(m, words) ==
    LET top == m.cpu.sp
    IN  [Drop(m, -Len(words)) EXCEPT
           !.mem[m.cpu.page] = [i \in DOMAIN @ |->
              IF i < top /\ i >= top - Len(words) THEN words[top - i] ELSE @[i]]]

Push(m, word) == PushAll(m, <<word>>)

\* pop into the registers, the first one first
PopAll(m, regs) ==
    [Drop(m, Len(regs)) EXCEPT
        !.cpu.r = [r \in Register |->
           IF \E i \in DOMAIN regs : regs[i] = r
           THEN Peek(m, (CHOOSE i \in DOMAIN regs : regs[i] = r) - 1)
           ELSE @[r]]]

Regs(m, names) == [i \in DOMAIN names |-> m.cpu.r[names[i]]]

Jump(m, code) == [m EXCEPT !.cpu.pc = code]

Call(m, label, back) == Jump(Push(m, Code(back)), Code(label))

Ret(m) == Jump(Drop(m, 1), Peek(m, 0))

\* mov esp, word
LoadEsp(m, word) == SetEsp(m, word[2], word[3])

\* push ebp; mov ebp, esp
Enter(m) ==
    LET pushed == Push(m, m.cpu.r["ebp"])
    IN  [pushed EXCEPT !.cpu.r["ebp"] = Addr(pushed.cpu.page, pushed.cpu.sp)]

\* leave; ret
LeaveRet(m) ==
    Ret(PopAll(LoadEsp(m, m.cpu.r["ebp"]), <<"ebp">>))

\* A C function that needs them saves the registers of its caller behind the
\* frame pointer, and takes them back at its end.
SaveCallers(m) ==
    [PushAll(m, Regs(m, <<"ebx", "esi", "edi">>)) EXCEPT
        !.cpu.r["ebx"] = Temp(m.cpu.page, "ebx"),
        !.cpu.r["esi"] = Temp(m.cpu.page, "esi"),
        !.cpu.r["edi"] = Temp(m.cpu.page, "edi")]

RestoreCallers(m) ==
    LET ebp == m.cpu.r["ebp"]
    IN  PopAll(SetEsp(m, ebp[2], ebp[3] - 3), <<"edi", "esi", "ebx">>)

\* A C function may leave anything in the registers its caller has to save.
Clobber(m) ==
    [m EXCEPT !.cpu.r["eax"] = Junk, !.cpu.r["ecx"] = Junk,
              !.cpu.r["edx"] = Junk]

Machine == [cpu |-> cpu, mem |-> mem]

Becomes(m) == cpu' = m.cpu /\ mem' = m.mem

At(label) == cpu.pc = Code(label)

-----------------------------------------------------------------------------
(* A thread's own code *)

InBody(c) == c.pc[1] = "body"

\* A page nobody has written to
Page0 == [i \in 0..PageWords - 1 |-> Junk]

Stack(m, t, sp) == [i \in sp..PageWords - 1 |-> m.mem[t][i]]

\* What the thread that has the processor can see of the machine
Context(m) == [r |-> m.cpu.r, pc |-> m.cpu.pc, intr_on |-> m.cpu.intr_on,
               sp |-> m.cpu.sp, stack |-> Stack(m, m.cpu.page, m.cpu.sp)]

Selectors == [s \in Segments |-> <<"selector",
                                   IF s = "gs" THEN "video" ELSE "data">>]

InCode(m, t, n) ==
    [Jump(m, <<"body", n>>) EXCEPT
        !.cpu.r = [r \in Register |-> IF r \in General THEN Data(t, r, n)
                                                     ELSE Selectors[r]]]

\* main runs on the page it was given as its stack, after its intr_enable.
Init ==
    LET start == InCode([cpu |-> [r |-> Selectors, page |-> MainThread,
                                  sp |-> PageWords, intr_on |-> TRUE,
                                  pc |-> Junk],
                         mem |-> [t \in Thread |-> Page0]], MainThread, 0)
    IN  /\ cpu = start.cpu
        /\ mem = start.mem
        /\ created = {MainThread}
        /\ own = [t \in Thread |-> Context(start)]
        /\ floor = [t \in Thread |-> PageWords]
        /\ received = [t \in Thread |-> IF t = MainThread THEN Arguments(t)
                                        ELSE <<Junk, Junk>>]

\* The thread that has the processor goes on in its own code.
Own(m) ==
    /\ Becomes(m)
    /\ own' = [own EXCEPT ![m.cpu.page] = Context(m)]

\* It computes, whatever it does to its registers.
Compute(n) ==
    /\ InBody(cpu)
    /\ Own(InCode(Machine, cpu.page, n))
    /\ UNCHANGED <<created, floor, received>>

\* It pushes a word of its own, or drops one.
UseStack ==
    /\ InBody(cpu)
    /\ \/ floor[cpu.page] - cpu.sp < MaxOwn /\ Own(Push(Machine, cpu.r["eax"]))
       \/ cpu.sp < floor[cpu.page] /\ Own(Drop(Machine, 1))
    /\ UNCHANGED <<created, floor, received>>

\* Deliberate error: thread_stack has no place for a return address.
ThreadCreateNoPlace(t) ==
    LET bottom == PageWords - Reserved
        fields == <<Zero, Zero, Zero, Zero, Code("kernel_thread"), Func(t),
                    Arg(t), Junk>>
    IN  /\ InBody(cpu)
        /\ t \notin created
        /\ created' = created \cup {t}
        /\ mem' = [mem EXCEPT ![t] = [i \in DOMAIN @ |->
                      IF i = 0 THEN Addr(t, bottom)
                      ELSE IF i \in bottom .. bottom + 7
                           THEN fields[i - bottom + 1]
                      ELSE @[i]]]
        /\ UNCHANGED <<cpu, own, floor, received>>

\* Deliberate error: the gap for intr_stack is taken twice.
ThreadCreateGapTwice(t) ==
    LET bottom == PageWords - 2 * Reserved
        fields == <<Zero, Zero, Zero, Zero, Code("kernel_thread"), Junk,
                    Func(t), Arg(t)>>
    IN  /\ InBody(cpu)
        /\ t \notin created
        /\ created' = created \cup {t}
        /\ mem' = [mem EXCEPT ![t] = [i \in DOMAIN @ |->
                      IF i = 0 THEN Addr(t, bottom)
                      ELSE IF i \in bottom .. bottom + 7
                           THEN fields[i - bottom + 1]
                      ELSE @[i]]]
        /\ UNCHANGED <<cpu, own, floor, received>>

\* thread_create: init_thread_pcb and init_thread_stack fill the new page, which
\* no other thread has as long as the calls of get_kernel_pages do not overlap
\* (OneAtATime of KernelThreads; Memory has the calls themselves). The fields
\* of thread_stack from its lowest word on: ebp, ebx, edi, esi, eip,
\* unused_ret_addr, function, func_args.
ThreadCreate(t) ==
    LET bottom == PageWords - Reserved
        fields == <<Zero, Zero, Zero, Zero, Code("kernel_thread"), Junk,
                    Func(t), Arg(t)>>
    IN  /\ InBody(cpu)
        /\ t \notin created
        /\ created' = created \cup {t}
        /\ mem' = [mem EXCEPT ![t] = [i \in DOMAIN @ |->
                      IF i = 0 THEN Addr(t, bottom)
                      ELSE IF i \in bottom .. bottom + 7
                           THEN fields[i - bottom + 1]
                      ELSE @[i]]]
        /\ UNCHANGED <<cpu, own, floor, received>>

\* kernel_thread(function, func_args): set IF, call function(func_args)
KernelThread ==
    /\ At("kernel_thread")
    /\ LET entered  == Enter(Machine)
           function == Peek(entered, 2)
           args     == Peek(entered, 3)
           called   == Call(Push(Clobber(entered), args), "", "kernel_thread")
           running  == [Jump(called, <<"body", 0>>) EXCEPT !.cpu.intr_on = TRUE]
       IN  /\ Own(running)
           /\ floor' = [floor EXCEPT ![cpu.page] = running.cpu.sp]
           /\ received' = [received EXCEPT ![cpu.page] = <<function, args>>]
    /\ UNCHANGED created

-----------------------------------------------------------------------------
(* The timer interrupt *)

PushOrder == <<"ds", "es", "fs", "gs">>
\* Deliberate error: popped in the order of the pushes.
PopOrderAsPushed == PushOrder

PopOrder == <<"gs", "fs", "es", "ds">>

\* The interrupt gate pushes EFLAGS, CS and EIP; intr0x20_entry pushes an error
\* code, the segment registers, pushad's eight words and the vector number, and
\* calls the handler.
Interrupt ==
    LET gate   == PushAll(Machine, <<Flags(cpu.intr_on), Junk, cpu.pc>>)
        masked == [gate EXCEPT !.cpu.intr_on = FALSE]
        saved  == PushAll(masked, <<Zero>> \o Regs(masked, PushOrder))
        pushad == PushAll(saved,
                     Regs(saved, <<"eax", "ecx", "edx", "ebx">>)
                       \o <<Addr(saved.cpu.page, saved.cpu.sp)>>
                       \o Regs(saved, <<"ebp", "esi", "edi">>))
    IN  /\ InBody(cpu)
        /\ cpu.intr_on
        /\ Becomes(Call(Push(Clobber(pushad), Zero), "handler", "stub"))
        /\ UNCHANGED <<created, own, floor, received>>

\* intr_timer_handler: return, or call schedule
TimerHandler ==
    LET entered == Clobber(Enter(Machine))
    IN  /\ At("handler")
        /\ \/ Becomes(LeaveRet(entered))
           \/ Becomes(Call(entered, "schedule", "handler_end"))
        /\ UNCHANGED <<created, own, floor, received>>

\* schedule calls switch_to(current, next).
Schedule(next) ==
    /\ At("schedule")
    /\ next \in created
    /\ LET entered == SaveCallers(Clobber(Enter(Machine)))
           current == cpu.page
       IN  Becomes(Call(PushAll(entered, <<Addr(next, 0), Addr(current, 0)>>),
                        "switch_to", "schedule_end"))
    /\ UNCHANGED <<created, own, floor, received>>

\* Deliberate error: esi and edi are popped in the order of the pushes.
SwitchToSwapped ==
    LET saved   == PushAll(Machine,
                           Regs(Machine, <<"esi", "edi", "ebx", "ebp">>))
        current == Peek(saved, 5)
        stored  == [saved EXCEPT !.mem[current[2]][current[3]] =
                       Addr(saved.cpu.page, saved.cpu.sp)]
        next    == Peek(stored, 6)
        loaded  == [LoadEsp(stored, stored.mem[next[2]][next[3]]) EXCEPT
                       !.cpu.r["eax"] = next]
    IN  /\ At("switch_to")
        /\ Becomes(Ret(PopAll(loaded, <<"ebp", "ebx", "esi", "edi">>)))
        /\ UNCHANGED <<created, own, floor, received>>

SwitchTo ==
    LET saved   == PushAll(Machine,
                           Regs(Machine, <<"esi", "edi", "ebx", "ebp">>))
        current == Peek(saved, 5)
        stored  == [saved EXCEPT !.mem[current[2]][current[3]] =
                       Addr(saved.cpu.page, saved.cpu.sp)]
        next    == Peek(stored, 6)
        loaded  == [LoadEsp(stored, stored.mem[next[2]][next[3]]) EXCEPT
                       !.cpu.r["eax"] = next]
    IN  /\ At("switch_to")
        /\ Becomes(Ret(PopAll(loaded, <<"ebp", "ebx", "edi", "esi">>)))
        /\ UNCHANGED <<created, own, floor, received>>

\* The end of schedule, and that of intr_timer_handler
ScheduleEnd ==
    /\ At("schedule_end")
    /\ Becomes(LeaveRet(RestoreCallers(Clobber(Machine))))
    /\ UNCHANGED <<created, own, floor, received>>

HandlerEnd ==
    /\ At("handler_end")
    /\ Becomes(LeaveRet(Clobber(Machine)))
    /\ UNCHANGED <<created, own, floor, received>>

\* The rest of intr0x20_entry: popad leaves out the word for ESP.
StubEnd ==
    LET popad == PopAll(Drop(PopAll(Drop(Machine, 1), <<"edi", "esi", "ebp">>),
                             1), <<"ebx", "edx", "ecx", "eax">>)
        popped == Drop(PopAll(popad, PopOrder), 1)
    IN  /\ At("stub")
        /\ Becomes([Jump(Drop(popped, 3), Peek(popped, 0)) EXCEPT
                       !.cpu.intr_on = Peek(popped, 2)[2]])
        /\ UNCHANGED <<created, own, floor, received>>

Next ==
    \/ \E n \in {0, 1} : Compute(n)
    \/ UseStack
    \/ \E t \in Thread : ThreadCreate(t)
    \/ KernelThread
    \/ Interrupt
    \/ TimerHandler
    \/ \E next \in Thread : Schedule(next)
    \/ SwitchTo
    \/ ScheduleEnd
    \/ HandlerEnd
    \/ StubEnd

Spec == Init /\ [][Next]_vars

-----------------------------------------------------------------------------
(* Correctness *)

(* Whatever the interrupt, the stub, the C functions and switch_to push and *)
(* pop, a thread that goes on in its own code finds its registers, IF, ESP, *)
(* EIP and stack as it left them, although other threads have run in between*)
(* (kernel_interrupt.S:29-63; switch.S:13-38).                              *)
ContextKept == InBody(cpu) => Context(Machine) = own[cpu.page]

(* While a thread does not run, nothing is written to the part of its page  *)
(* that its own code uses, and ESP never gets down to a PCB: the stack magic*)
(* would survive (thread.h:105-117; timer.c:202).                           *)
StacksApart ==
    /\ cpu.sp >= PcbWords
    /\ \A t \in created :
          received[t] # <<Junk, Junk>> =>
             Stack(Machine, t, own[t].sp) = own[t].stack

(* The calling convention, across a switch: when switch_to returns to a     *)
(* schedule that called it, perhaps long ago, the registers a callee has to *)
(* preserve hold what that schedule had in them (thread.h:66-77).           *)
CalleeSaved ==
    At("schedule_end") =>
        \A r \in {"ebx", "esi", "edi"} : cpu.r[r] = Temp(cpu.page, r)

(* A thread that runs for the first time enters kernel_thread with the      *)
(* function and the argument that thread_create was given, although nobody  *)
(* has called it (thread.c:108-132).                                        *)
FirstRunArguments ==
    \A t \in Thread : received[t] \in {<<Junk, Junk>>, Arguments(t)}
=============================================================================
