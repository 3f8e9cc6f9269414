-------------------------- MODULE KernelThreadsInv --------------------------
(***************************************************************************)
(* The inductive invariant behind the safety theorems about KernelThreads, *)
(* in four layers: what is on the stacks and which interrupts are possible *)
(* (ControlInv), who is getting a page (PageInv), where each thread is     *)
(* (QueueInv), and what the running thread has left and where it stands in *)
(* the queue while schedule gives its turn away (TurnInv).  The second and *)
(* what follows from it need OneAtATime.                                   *)
(***************************************************************************)
EXTENDS KernelThreads

\* Activations 0 and 1 of a stack, and which of them can be in use together:
\* a handler starts only above thread code outside its critical sections.
Shape(t) ==
    /\ depth[t] \in {0, 1}
    /\ frame[t][0].pc \in ThreadPoints
    /\ frame[t][0].cs # "out" => frame[t][0].pc \in {"create_ready",
                                                     "create_all"}
    /\ depth[t] = 1 =>
         /\ frame[t][0].pc # "start"
         /\ frame[t][0].cs = "out"
         /\ frame[t][1].pc \in HandlerPoints
         /\ frame[t][1].cs # "out" =>
              /\ frame[t][1].pc \in {"sched_append", "sched_pop"}
              /\ ~frame[t][1].old

\* A thread that is not running has never run, or is inside switch_to.
Suspended(t) ==
    \/ depth[t] = 0 /\ frame[t][0] = Fresh("start")
    \/ depth[t] = 1 /\ frame[t][1] = Fresh("iret") /\ t \in Created

\* When interrupts are masked and when the EOI is outstanding.
Masked ==
    /\ depth[cur] = 1 => ~intr_on
    /\ Top.pc = "start" \/ Top.cs # "out" => ~intr_on
    /\ in_service => depth[cur] = 1 /\ Top.pc = "eoi"

\* What schedule takes off the queue is a thread that exists.
NextExists ==
    /\ Members(ready) \subseteq Created
    /\ \A c \in Thread : BeforeReady(frame[c][0]) => newborn[c] \in Created
    /\ Top.pc = "sched_head" /\ ~panic => ready # <<>>
    /\ Top.pc = "sched_pop" /\ Top.cs # "done" /\ ~panic =>
         ready # <<>> /\ thread_tag = Head(ready)
    /\ Top.pc = "sched_switch" \/ Top.pc = "sched_pop" =>
         thread_tag \in Created

ControlInv ==
    /\ TypeOK
    /\ cur \in Created
    /\ \A t \in Thread : Shape(t)
    /\ \A t \in Thread \ {cur} : Suspended(t)
    /\ Masked
    /\ NextExists

\* The page that a thread_create is about to take is still free, and no other
\* is about to take it.
PageInv ==
    /\ \A c \in Thread : GettingPage(c) => newborn[c] \notin Created
    /\ \A c, d \in Thread : GettingPage(c) /\ GettingPage(d) => c = d

\* The running thread is TASK_RUNNING until ScheduleReset.
StatusInv ==
    \/ Top.pc \in {"sched_nonempty", "sched_head", "sched_pop",
                   "sched_switch"}
    \/ status[cur] = "RUNNING"

\* Two executions of thread_create never work on one PCB, the PCB is not that
\* of the running thread until it is linked, and its creator is another thread.
CreateInv ==
    /\ \A c \in Thread : BeforeReady(frame[c][0]) => newborn[c] # cur
    /\ \A c \in Thread : BeforeAll(frame[c][0]) => newborn[c] \in Created
    /\ \A c, d \in Thread :
          /\ BeforeAll(frame[c][0])
          /\ BeforeAll(frame[d][0])
          /\ newborn[c] = newborn[d]
          => c = d

QueueInv ==
    /\ StatusInv
    /\ CreateInv
    /\ Popped => thread_tag \notin Linking
    /\ NoThreadLost
    /\ AllThreadsListed
    /\ NoPanic

\* Where schedule still has to renew the time slice, and where it has.
SpentPoints == {"sched", "sched_check", "sched_append"}
RenewedPoints == {"sched_nonempty", "sched_head", "sched_pop", "sched_switch"}

\* schedule is entered with nothing left of the time slice and switches with
\* a new one; the thread it has appended stays the last in the queue, unless
\* that thread is also the one it has taken off the front.
TurnInv ==
    /\ Top.pc \in SpentPoints => slice[cur] = 0
    /\ Top.pc \in RenewedPoints => slice[cur] = StoredPriority[cur]
    /\ Appended =>
         IF Popped /\ thread_tag = cur THEN ready = <<>>
         ELSE ready # <<>> /\ ready[Len(ready)] = cur

IInv == ControlInv /\ PageInv /\ QueueInv /\ TurnInv
=============================================================================
