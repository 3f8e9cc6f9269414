---------------------------- MODULE MCThreadLists ----------------------------
(* Values of the constants of ThreadLists for TLC.                          *)
EXTENDS ThreadListsInv, TLC

CONSTANTS main, kthread_a, kthread_b, kthread_c

\* main creates kthread_a, and then both create a thread.
Threads  == {main, kthread_a, kthread_b, kthread_c}
Spawners == {main, kthread_a}
=============================================================================
