--------------------------- MODULE MCKernelThreads --------------------------
(***************************************************************************)
(* Values of the constants of KernelThreads for TLC: like thread_test of   *)
(* kernel/main.c, main creates a thread before it enables interrupts; then *)
(* main and that thread create the other two while they are preempted.     *)
(***************************************************************************)
EXTENDS KernelThreadsInv, TLC

CONSTANTS main, kthread_a, kthread_b, kthread_c

Threads  == {main, kthread_a, kthread_b, kthread_c}
Boots    == {kthread_a}
Spawners == {main, kthread_a}

\* A priority argument of 256 is stored as 0.
Priorities == main :> 256 @@ kthread_a :> 1 @@ kthread_b :> 0 @@ kthread_c :> 0
=============================================================================
