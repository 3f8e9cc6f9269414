----------------------------- MODULE RoundRobin -----------------------------
(***************************************************************************)
(* What the scheduler of thread/thread.c and device/timer.c promises to    *)
(* the threads it runs, with no interrupts, flags, locks or stacks: one    *)
(* thread runs, the others wait in the order they arrived, a timer tick    *)
(* takes one unit from the running thread's allowance, and the tick that   *)
(* finds the allowance exhausted hands the processor to the first thread   *)
(* in the queue and gives the old one a fresh allowance at the back.       *)
(*                                                                         *)
(* KernelThreads is the detailed specification that implements this one.   *)
(***************************************************************************)
EXTENDS Naturals, Sequences

CONSTANTS
    Thread,     \* every thread that may ever exist
    MainThread, \* the thread main() becomes
    Quantum     \* the allowance of each thread, its priority as stored

VARIABLES
    running,    \* the thread that has the processor
    queue,      \* the threads that wait for it, in order
    left        \* what is left of each thread's allowance

rrvars == <<running, queue, left>>

Waiting == {queue[i] : i \in DOMAIN queue}

RRInit ==
    /\ running = MainThread
    /\ queue = <<>>
    /\ left = Quantum

\* A new thread waits behind all others.
Arrive(t) ==
    /\ t \notin Waiting \cup {running}
    /\ queue' = Append(queue, t)
    /\ UNCHANGED <<running, left>>

\* A tick while the running thread still has allowance.
Tick ==
    /\ left[running] > 0
    /\ left' = [left EXCEPT ![running] = @ - 1]
    /\ UNCHANGED <<running, queue>>

\* The tick after the last one: the thread at the front takes over. With no
\* other thread it is the running thread itself that is at the front.
Rotate ==
    /\ left[running] = 0
    /\ LET q == Append(queue, running)
       IN  running' = Head(q) /\ queue' = Tail(q)
    /\ left' = [left EXCEPT ![running] = Quantum[running]]

RRNext ==
    \/ \E t \in Thread : Arrive(t)
    \/ Tick
    \/ Rotate

RRSpec == RRInit /\ [][RRNext]_rrvars
=============================================================================
