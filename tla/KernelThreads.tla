--------------------------- MODULE KernelThreads ----------------------------
(***************************************************************************)
(* The kernel threads of HandwritingOS on their one processor: creation    *)
(* (thread/thread.c), the timer interrupt from the request line to iretd   *)
(* (device/timer.c, kernel/kernel_interrupt.S), the scheduler, and the     *)
(* critical sections of the list operations it uses (lib/kernel/list.c),   *)
(* which save, clear and restore EFLAGS.IF (kernel/interrupt.c).           *)
(*                                                                         *)
(* A thread's kernel stack is a row of activations: activation 0 is the    *)
(* thread's own code, activation k > 0 is the handler of the k-th timer    *)
(* interrupt that has been accepted on that stack and has not returned.    *)
(* An activation is a record:                                              *)
(*   pc   the operation it is in,                                          *)
(*   cs   for a list operation, how far its critical section has got:      *)
(*        "out" before intr_disable, "in" before the links are changed,    *)
(*        "done" before intr_set_status,                                   *)
(*   old  the old_status the critical section saved.                       *)
(*                                                                         *)
(* Every step is taken by the activation on top of the stack of cur, the   *)
(* thread whose page ESP points into, by the interval timer, or by the     *)
(* processor accepting an interrupt; an interrupt may come between any two *)
(* steps at which IF is set.  A queue is a sequence here; ThreadLists has  *)
(* the pointers.                                                           *)
(***************************************************************************)
EXTENDS Integers, Sequences

CONSTANTS
    Thread,         \* PCB pages: every thread that may ever exist
    MainThread,     \* the thread that runs main()
    BootThread,     \* threads main creates before it enables interrupts
    Spawner,        \* threads whose function calls thread_create
    Priority,       \* the priority argument, an int, of each thread
    OneAtATime,     \* whether calls of get_kernel_pages never overlap
    MaxDepth,       \* bound: handler activations one stack page may hold
    TickModulus     \* 2^32 in the code: elapsed_ticks and ticks are uint32_t

ASSUME ThreadAssumption ==
    /\ MainThread \in Thread
    /\ BootThread \subseteq Thread \ {MainThread}
    /\ Spawner \subseteq Thread
    /\ Priority \in [Thread -> Int]
    /\ MaxDepth \in Nat \ {0}
    /\ TickModulus \in Nat \ {0}

ASSUME OverlapAssumption == OneAtATime \in BOOLEAN

VARIABLES
    cur,            \* running_thread(): the thread whose stack is in use
    intr_on,        \* EFLAGS.IF
    request,        \* the master 8259A has latched IR0
    in_service,     \* IR0 was accepted and no EOI has been sent
    status,         \* task_struct.status, "NONE" before thread_create
    slice,          \* task_struct.ticks
    elapsed,        \* task_struct.elapsed_ticks
    ticks,          \* the global tick count
    ready,          \* ready_thread_queue
    all,            \* all_thread_queue
    thread_tag,     \* thread_tag: the thread last taken off ready
    newborn,        \* pthread of the thread_create a thread is executing
    depth,          \* number of handler activations on each stack
    frame,          \* the activations of each stack
    panic           \* an ASSERT failed and the kernel spins

pcb  == <<status, slice, elapsed, ticks>>
pic  == <<request, in_service>>
vars == <<cur, intr_on, pic, pcb, ready, all, thread_tag, newborn,
          depth, frame, panic>>

-----------------------------------------------------------------------------
(* Control points and data *)

ListOps == {"create_ready", "create_all", "sched_append", "sched_pop"}

ThreadPoints == {"start", "body", "create_page", "create_check_ready",
                 "create_ready", "create_check_all", "create_all"}

HandlerPoints == {"eoi", "handler", "sched", "sched_check", "sched_append",
                  "sched_reset", "sched_nonempty", "sched_head", "sched_pop",
                  "sched_switch", "iret"}

Activation == [pc : ThreadPoints \cup HandlerPoints,
               cs : {"out", "in", "done"},
               old : BOOLEAN]

Fresh(point) == [pc |-> point, cs |-> "out", old |-> FALSE]
\* task_struct.priority is a uint8_t: init_thread_pcb drops the high bits.
StoredPriority == [t \in Thread |-> Priority[t] % 256]

Members(q) == {q[i] : i \in DOMAIN q}

Created == {t \in Thread : status[t] # "NONE"}

Top == frame[cur][depth[cur]]

\* The running thread is about to execute this point, outside any critical
\* section of a list operation.
At(point) == ~panic /\ Top.pc = point /\ Top.cs = "out"

Goto(point) == frame' = [frame EXCEPT ![cur][depth[cur]] = Fresh(point)]

\* ASSERT: panic_spin disables interrupts and never returns.
KernelAssert(condition) ==
    /\ panic' = ~condition
    /\ intr_on' = (intr_on /\ condition)

-----------------------------------------------------------------------------
(* Initial state: init_all has returned, main has become a thread and no   *)
(* instruction has set IF yet.                                             *)

Init ==
    /\ cur = MainThread
    /\ intr_on = FALSE
    /\ request = FALSE
    /\ in_service = FALSE
    /\ status = [t \in Thread |-> IF t = MainThread THEN "RUNNING" ELSE "NONE"]
    /\ slice = [t \in Thread |->
                   IF t = MainThread THEN StoredPriority[t] ELSE 0]
    /\ elapsed = [t \in Thread |-> 0]
    /\ ticks = 0
    /\ ready = <<>>
    /\ all = <<MainThread>>
    /\ thread_tag = MainThread
    /\ newborn = [t \in Thread |-> MainThread]
    /\ depth = [t \in Thread |-> 0]
    /\ frame = [t \in Thread |-> [d \in 0..MaxDepth |->
                   Fresh(IF t = MainThread THEN "body" ELSE "start")]]
    /\ panic = FALSE

-----------------------------------------------------------------------------
(* The critical sections of list_insert_before and list_remove *)

\* old_status = intr_disable()
Disable(op) ==
    /\ At(op)
    /\ intr_on' = FALSE
    /\ frame' = [frame EXCEPT ![cur][depth[cur]] =
                    [pc |-> op, cs |-> "in", old |-> intr_on]]
    /\ UNCHANGED <<cur, pic, pcb, ready, all, thread_tag, newborn, depth,
                   panic>>

\* The links are about to be, or have been, changed.
InSection(op) == ~panic /\ Top.pc = op /\ Top.cs = "in"

LeaveSection == frame' = [frame EXCEPT ![cur][depth[cur]].cs = "done"]

\* Deliberate error: leave the critical section with sti, not with the
\* status saved on entry.
RestoreBySti(op, next) ==
    /\ ~panic /\ Top.pc = op /\ Top.cs = "done"
    /\ intr_on' = TRUE
    /\ Goto(next)
    /\ UNCHANGED <<cur, pic, pcb, ready, all, thread_tag, newborn, depth,
                   panic>>

\* intr_set_status(old_status), and the return to the operation's caller
Restore(op, next) ==
    /\ ~panic /\ Top.pc = op /\ Top.cs = "done"
    /\ intr_on' = Top.old
    /\ Goto(next)
    /\ UNCHANGED <<cur, pic, pcb, ready, all, thread_tag, newborn, depth,
                   panic>>

-----------------------------------------------------------------------------
(* Threads: their first instructions and thread_create *)

\* Deliberate error: kernel_thread calls the function with IF as it was left
\* by the handler that switched to the thread.
KernelThreadNoSti ==
    /\ At("start")
    /\ Goto("body")
    /\ UNCHANGED <<cur, intr_on, pic, pcb, ready, all, thread_tag, newborn,
                   depth, panic>>

\* kernel_thread: intr_enable, then the thread's function
KernelThread ==
    /\ At("start")
    /\ intr_on' = TRUE
    /\ Goto("body")
    /\ UNCHANGED <<cur, pic, pcb, ready, all, thread_tag, newborn, depth,
                   panic>>

\* main's own intr_enable, once it has created its threads
EnableInterrupts ==
    /\ At("body")
    /\ cur = MainThread
    /\ ~intr_on
    /\ BootThread \subseteq Created
    /\ intr_on' = TRUE
    /\ UNCHANGED <<cur, pic, pcb, ready, all, thread_tag, newborn, depth,
                   frame, panic>>

GettingPage(c) == frame[c][0].pc = "create_page"

\* thread_create calls get_kernel_pages, whose bitmap_scan finds a page that
\* no PCB has. The caller can be preempted before it has marked the page; main
\* does without that, since it creates its threads before it sets IF.
ThreadCreate(t) ==
    /\ At("body")
    /\ status[t] = "NONE"
    /\ IF t \in BootThread THEN cur = MainThread /\ ~intr_on
                           ELSE cur \in Spawner /\ intr_on
    /\ OneAtATime => \A c \in Thread : ~GettingPage(c)
    /\ newborn' = [newborn EXCEPT ![cur] = t]
    /\ Goto("create_page")
    /\ UNCHANGED <<cur, intr_on, pic, pcb, ready, all, thread_tag, depth,
                   panic>>

\* The page is marked and mapped, with the ASSERT that it was not mapped yet;
\* then init_thread_pcb and init_thread_stack.
CreatePage ==
    LET t == newborn[cur]
    IN  /\ At("create_page")
        /\ KernelAssert(status[t] = "NONE")
        /\ IF status[t] = "NONE"
           THEN /\ status' = [status EXCEPT ![t] = "READY"]
                /\ slice' = [slice EXCEPT ![t] = StoredPriority[t]]
                /\ elapsed' = [elapsed EXCEPT ![t] = 0]
           ELSE UNCHANGED <<status, slice, elapsed>>
        /\ Goto("create_check_ready")
        /\ UNCHANGED <<cur, pic, ticks, ready, all, thread_tag, newborn,
                       depth>>

\* ASSERT(!list_has_elem(&ready_thread_queue, ...))
CreateCheckReady ==
    /\ At("create_check_ready")
    /\ KernelAssert(newborn[cur] \notin Members(ready))
    /\ Goto("create_ready")
    /\ UNCHANGED <<cur, pic, pcb, ready, all, thread_tag, newborn, depth>>
\* Deliberate error: list_append_left instead of list_append.
CreateAppendReadyLeft ==
    /\ InSection("create_ready")
    /\ ready' = <<newborn[cur]>> \o ready
    /\ LeaveSection
    /\ UNCHANGED <<cur, intr_on, pic, pcb, all, thread_tag, newborn, depth,
                   panic>>

\* list_append(&ready_thread_queue, ...): the thread may run from here on
CreateAppendReady ==
    /\ InSection("create_ready")
    /\ ready' = Append(ready, newborn[cur])
    /\ LeaveSection
    /\ UNCHANGED <<cur, intr_on, pic, pcb, all, thread_tag, newborn, depth,
                   panic>>

\* ASSERT(!list_has_elem(&all_thread_queue, ...))
CreateCheckAll ==
    /\ At("create_check_all")
    /\ KernelAssert(newborn[cur] \notin Members(all))
    /\ Goto("create_all")
    /\ UNCHANGED <<cur, pic, pcb, ready, all, thread_tag, newborn, depth>>
\* Deliberate error: the tag of the creator is linked, not that of the new PCB.
CreateAppendAllCurrent ==
    /\ InSection("create_all")
    /\ all' = Append(all, cur)
    /\ LeaveSection
    /\ UNCHANGED <<cur, intr_on, pic, pcb, ready, thread_tag, newborn, depth,
                   panic>>

\* list_append(&all_thread_queue, ...)
CreateAppendAll ==
    /\ InSection("create_all")
    /\ all' = Append(all, newborn[cur])
    /\ LeaveSection
    /\ UNCHANGED <<cur, intr_on, pic, pcb, ready, thread_tag, newborn, depth,
                   panic>>

-----------------------------------------------------------------------------
(* The timer interrupt *)

\* Counter 0 reaches its count; a tick that finds IR0 already latched is lost.
TimerTick ==
    /\ ~request
    /\ request' = TRUE
    /\ UNCHANGED <<cur, intr_on, in_service, pcb, ready, all, thread_tag,
                   newborn, depth, frame, panic>>
\* Deliberate error: a trap gate, which leaves IF set.
InterruptTrapGate ==
    /\ ~panic
    /\ intr_on /\ request /\ ~in_service
    /\ depth[cur] < MaxDepth
    /\ request' = FALSE
    /\ in_service' = TRUE
    /\ depth' = [depth EXCEPT ![cur] = @ + 1]
    /\ frame' = [frame EXCEPT ![cur][depth[cur] + 1] = Fresh("eoi")]
    /\ UNCHANGED <<cur, intr_on, pcb, ready, all, thread_tag, newborn, panic>>

\* The processor accepts IR0 through an interrupt gate: EFLAGS is pushed with
\* IF set, IF is cleared, and intr0x20_entry starts on the current stack.
Interrupt ==
    /\ ~panic
    /\ intr_on /\ request /\ ~in_service
    /\ depth[cur] < MaxDepth
    /\ request' = FALSE
    /\ in_service' = TRUE
    /\ intr_on' = FALSE
    /\ depth' = [depth EXCEPT ![cur] = @ + 1]
    /\ frame' = [frame EXCEPT ![cur][depth[cur] + 1] = Fresh("eoi")]
    /\ UNCHANGED <<cur, pcb, ready, all, thread_tag, newborn, panic>>

\* Deliberate error: the stub does not send the EOI before the call.
SkipEoi ==
    /\ At("eoi")
    /\ Goto("handler")
    /\ UNCHANGED <<cur, intr_on, pic, pcb, ready, all, thread_tag, newborn,
                   depth, panic>>

\* The stub saves the registers and sends the EOI before it calls the handler.
SendEoi ==
    /\ At("eoi")
    /\ in_service' = FALSE
    /\ Goto("handler")
    /\ UNCHANGED <<cur, intr_on, request, pcb, ready, all, thread_tag,
                   newborn, depth, panic>>

\* intr_timer_handler: account for the tick; schedule on the tick that finds
\* nothing left of the time slice.
TimerHandler ==
    /\ At("handler")
    /\ elapsed' = [elapsed EXCEPT ![cur] = (@ + 1) % TickModulus]
    /\ ticks' = (ticks + 1) % TickModulus
    /\ IF slice[cur] = 0
       THEN slice' = slice /\ Goto("sched")
       ELSE slice' = [slice EXCEPT ![cur] = @ - 1] /\ Goto("iret")
    /\ UNCHANGED <<cur, intr_on, pic, status, ready, all, thread_tag,
                   newborn, depth, panic>>

\* popad ... iretd: EFLAGS comes back as it was pushed, with IF set.
InterruptReturn ==
    /\ At("iret")
    /\ intr_on' = TRUE
    /\ depth' = [depth EXCEPT ![cur] = @ - 1]
    /\ UNCHANGED <<cur, pic, pcb, ready, all, thread_tag, newborn, frame,
                   panic>>

-----------------------------------------------------------------------------
(* schedule *)

\* ASSERT(intr_get_status() == INTR_OFF), and the test of the status
ScheduleEntry ==
    /\ At("sched")
    /\ KernelAssert(~intr_on)
    /\ Goto(IF status[cur] = "RUNNING" THEN "sched_check"
                                       ELSE "sched_nonempty")
    /\ UNCHANGED <<cur, pic, pcb, ready, all, thread_tag, newborn, depth>>

\* ASSERT(!list_has_elem(&ready_thread_queue, ...))
ScheduleCheck ==
    /\ At("sched_check")
    /\ KernelAssert(cur \notin Members(ready))
    /\ Goto("sched_append")
    /\ UNCHANGED <<cur, pic, pcb, ready, all, thread_tag, newborn, depth>>

\* list_append(&ready_thread_queue, &current->general_queue_tag)
ScheduleAppend ==
    /\ InSection("sched_append")
    /\ ready' = Append(ready, cur)
    /\ LeaveSection
    /\ UNCHANGED <<cur, intr_on, pic, pcb, all, thread_tag, newborn, depth,
                   panic>>

\* A new time slice and the status of a thread that waits
ScheduleReset ==
    /\ At("sched_reset")
    /\ slice' = [slice EXCEPT ![cur] = StoredPriority[cur]]
    /\ status' = [status EXCEPT ![cur] = "READY"]
    /\ Goto("sched_nonempty")
    /\ UNCHANGED <<cur, intr_on, pic, elapsed, ticks, ready, all, thread_tag,
                   newborn, depth, panic>>

\* ASSERT(!list_empty(&ready_thread_queue))
ScheduleNonEmpty ==
    /\ At("sched_nonempty")
    /\ KernelAssert(ready # <<>>)
    /\ Goto("sched_head")
    /\ UNCHANGED <<cur, pic, pcb, ready, all, thread_tag, newborn, depth>>

\* list_pop_left reads the first element before list_remove disables
\* interrupts; it is the value schedule puts into thread_tag.
ScheduleHead ==
    /\ At("sched_head")
    /\ thread_tag' = Head(ready)
    /\ Goto("sched_pop")
    /\ UNCHANGED <<cur, intr_on, pic, pcb, ready, all, newborn, depth, panic>>
\* Deliberate error: the first element is read but not removed.
ScheduleRemoveNothing ==
    /\ InSection("sched_pop")
    /\ LeaveSection
    /\ UNCHANGED <<cur, intr_on, pic, pcb, ready, all, thread_tag, newborn,
                   depth, panic>>

\* list_remove(plist->head.next)
ScheduleRemove ==
    /\ InSection("sched_pop")
    /\ ready' = Tail(ready)
    /\ LeaveSection
    /\ UNCHANGED <<cur, intr_on, pic, pcb, all, thread_tag, newborn, depth,
                   panic>>
\* Deliberate error: the next thread is not marked TASK_RUNNING.
ScheduleSwitchNoStatus ==
    /\ At("sched_switch")
    /\ cur' = thread_tag
    /\ Goto("iret")
    /\ UNCHANGED <<intr_on, pic, pcb, ready, all, thread_tag, newborn, depth,
                   panic>>

\* next->status = TASK_RUNNING; switch_to(current, next): the stack of next
\* is in use from here on, at the point where next left the processor. The
\* old thread will come back to the end of its handler.
ScheduleSwitch ==
    /\ At("sched_switch")
    /\ status' = [status EXCEPT ![thread_tag] = "RUNNING"]
    /\ cur' = thread_tag
    /\ Goto("iret")
    /\ UNCHANGED <<intr_on, pic, slice, elapsed, ticks, ready, all,
                   thread_tag, newborn, depth, panic>>

-----------------------------------------------------------------------------
(* The kernel *)

Schedule ==
    \/ ScheduleEntry
    \/ ScheduleCheck
    \/ Disable("sched_append")
    \/ ScheduleAppend
    \/ Restore("sched_append", "sched_reset")
    \/ ScheduleReset
    \/ ScheduleNonEmpty
    \/ ScheduleHead
    \/ Disable("sched_pop")
    \/ ScheduleRemove
    \/ Restore("sched_pop", "sched_switch")
    \/ ScheduleSwitch

Handler == SendEoi \/ TimerHandler \/ Schedule \/ InterruptReturn

CreateRest ==
    \/ CreatePage
    \/ CreateCheckReady
    \/ Disable("create_ready")
    \/ CreateAppendReady
    \/ Restore("create_ready", "create_check_all")
    \/ CreateCheckAll
    \/ Disable("create_all")
    \/ CreateAppendAll
    \/ Restore("create_all", "body")

Boot == EnableInterrupts \/ \E t \in BootThread : ThreadCreate(t)

Spawn == \E t \in Thread \ BootThread : ThreadCreate(t)

\* What the processor executes whether or not a thread asks for anything.
CpuStep == KernelThread \/ CreateRest \/ Handler

Next == TimerTick \/ Interrupt \/ CpuStep \/ Boot \/ Spawn

Spec == Init /\ [][Next]_vars

\* The timer keeps ticking, the processor keeps executing and accepts an
\* interrupt that stays possible, and main gets through its start-up code.
\* A handler takes far less than the millisecond between two ticks, so a thread
\* that gets the processor again and again executes its own instructions too.
\* Whether a thread creates more threads is its own affair: no fairness.
Fairness ==
    /\ WF_vars(TimerTick)
    /\ WF_vars(Interrupt)
    /\ WF_vars(CpuStep)
    /\ WF_vars(Boot)
    /\ \A t \in Thread : SF_vars(cur = t /\ CreateRest)

FairSpec == Spec /\ Fairness

-----------------------------------------------------------------------------
(* Correctness *)

TypeOK ==
    /\ cur \in Thread
    /\ intr_on \in BOOLEAN
    /\ request \in BOOLEAN
    /\ in_service \in BOOLEAN
    /\ status \in [Thread -> {"NONE", "READY", "RUNNING"}]
    /\ slice \in [Thread -> 0..255]
    /\ elapsed \in [Thread -> 0..TickModulus - 1]
    /\ ticks \in 0..TickModulus - 1
    /\ ready \in Seq(Thread)
    /\ all \in Seq(Thread)
    /\ thread_tag \in Thread
    /\ newborn \in [Thread -> Thread]
    /\ depth \in [Thread -> 0..MaxDepth]
    /\ frame \in [Thread -> [0..MaxDepth -> Activation]]
    /\ panic \in BOOLEAN

NoDuplicates(q) == \A i, j \in DOMAIN q : q[i] = q[j] => i = j

\* Activation f of schedule has put cur at the end of ready ...
AfterAppend(f) ==
    \/ f.pc = "sched_append" /\ f.cs = "done"
    \/ f.pc \in {"sched_reset", "sched_nonempty", "sched_head", "sched_pop",
                 "sched_switch"}

\* ... and has taken thread_tag off its front, but has not switched yet.
AfterPop(f) ==
    \/ f.pc = "sched_pop" /\ f.cs = "done"
    \/ f.pc = "sched_switch"

Appended == AfterAppend(Top)
Popped == AfterPop(Top)

\* Activation f of a thread_create has yet to link its thread into ready.
BeforeReady(f) ==
    \/ f.pc = "create_check_ready"
    \/ f.pc = "create_ready" /\ f.cs # "done"

\* Activation f of a thread_create has yet to link its thread into all.
BeforeAll(f) ==
    \/ f.pc \in {"create_check_ready", "create_ready", "create_check_all"}
    \/ f.pc = "create_all" /\ f.cs # "done"

Linking == {t \in Thread : \E c \in Thread :
                               newborn[c] = t /\ BeforeReady(frame[c][0])}

Unlisted == {t \in Thread : \E c \in Thread :
                               newborn[c] = t /\ BeforeAll(frame[c][0])}

\* The threads that belong in ready_thread_queue at this point of the code.
Queued ==
    LET waiting == (Created \ Linking) \ {cur}
        with_current == IF Appended THEN waiting \cup {cur} ELSE waiting
    IN  IF Popped THEN with_current \ {thread_tag} ELSE with_current

(* As long as calls of get_kernel_pages do not overlap, no ASSERT of        *)
(* schedule or thread_create and none on the page of a PCB ever fires, in   *)
(* any interleaving of thread creation with the timer interrupt             *)
(* (thread.c:153,157,182,188,198; memory.c:399). With OneAtATime = FALSE two*)
(* creators can find one page, and the second one's ASSERT fires.           *)
NoPanic == ~panic

(* No thread is lost and none is queued twice: at every instruction         *)
(* ready_thread_queue holds exactly the created threads other than the      *)
(* running one, those still being linked by their creator, and the one      *)
(* schedule holds in thread_tag.                                            *)
NoThreadLost == NoDuplicates(ready) /\ Members(ready) = Queued

(* all_thread_queue holds every created thread once, except one whose       *)
(* creator is still between the two appends of thread_create: such a thread *)
(* may already be running (thread.c:154-158).                               *)
AllThreadsListed ==
    NoDuplicates(all) /\ Members(all) = Created \ Unlisted

(* Interrupts are possible only in a thread's own code outside the critical *)
(* sections: never in the handler, the scheduler, a half-changed list, or   *)
(* before kernel_thread's intr_enable, although list operations called with *)
(* interrupts on and off share their code (list.c:42-53,82-90).             *)
InterruptsOnlyInThreadCode ==
    intr_on => depth[cur] = 0 /\ Top.pc # "start" /\ Top.cs = "out"

(* A kernel stack never holds two handler activations, and a thread that    *)
(* does not run waits where switch_to can resume it: at kernel_thread with  *)
(* no handler below it, or at the end of its one handler.                   *)
SuspendedResumable ==
    /\ \A t \in Thread : depth[t] <= 1
    /\ \A t \in Created \ {cur} :
          frame[t][depth[t]] = Fresh(IF depth[t] = 0 THEN "start" ELSE "iret")

(* The processor goes to another thread only with the timer interrupt       *)
(* acknowledged and masked: a thread that runs for the first time never     *)
(* returns through the stub that could send the EOI                         *)
(* (kernel_interrupt.S:46-52), and only the current handler holds the CPU.  *)
HandoverAcknowledged == [][cur' # cur => ~in_service /\ ~intr_on]_vars

(* Round robin without starvation: every thread that thread_create made     *)
(* gets back, again and again, to its own code with interrupts possible     *)
(* (thread.c:52-60,180-205; timer.c:198-215).                               *)
NoStarvation ==
    \A t \in Thread :
        t \in Created ~> cur = t /\ depth[t] = 0 /\ intr_on

(* A created thread is eventually in all_thread_queue, however its creator  *)
(* is preempted between the two appends (thread.c:144-161).                 *)
CreationCompletes ==
    \A t \in Thread : t \in Created ~> t \in Members(all)

-----------------------------------------------------------------------------
(* Refinement: the abstract hand-over is the switch; until then the thread  *)
(* that schedule has appended still counts as running with nothing left,    *)
(* and the one it has popped is still first in the queue.                   *)

Front(q) == SubSeq(q, 1, Len(q) - 1)

WaitingQueue ==
    CASE ~Appended -> ready
      [] Appended /\ ~Popped -> Front(ready)
      [] Popped /\ thread_tag = cur -> <<>>
      [] Popped /\ thread_tag # cur -> <<thread_tag>> \o Front(ready)

Allowance == [t \in Thread |->
                IF t \notin Created THEN StoredPriority[t]
                ELSE IF t = cur /\ Appended THEN 0
                ELSE slice[t]]

RR == INSTANCE RoundRobin WITH
        Quantum <- StoredPriority,
        running <- cur,
        queue <- WaitingQueue,
        left <- Allowance

(* The handler, the scheduler and thread_create, interleaved as they are,   *)
(* give the threads what RoundRobin promises: turns in order of arrival,    *)
(* each of exactly the stored priority plus one ticks.                      *)
ImplementsRoundRobin == RR!RRSpec
=============================================================================
