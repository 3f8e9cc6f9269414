-------------------------------- MODULE Queues -------------------------------
(***************************************************************************)
(* What the thread code expects of ready_thread_queue and all_thread_queue *)
(* whatever their links look like: sequences of threads that grow at the   *)
(* end by one thread that is not in them, and a scheduler that puts the    *)
(* running thread last and takes the first.                                *)
(***************************************************************************)
EXTENDS Sequences, Integers

CONSTANTS Thread, MainThread

VARIABLES running, content

QueueName == {"ready", "all"}

In(q, t) == \E i \in DOMAIN content[q] : content[q][i] = t

QInit ==
    /\ running = MainThread
    /\ content = [q \in QueueName |->
                     IF q = "all" THEN <<MainThread>> ELSE <<>>]

Enqueue(q, t) ==
    /\ ~In(q, t)
    /\ t # running
    /\ content' = [content EXCEPT ![q] = Append(@, t)]
    /\ UNCHANGED running

Rotate ==
    LET waiting == Append(content["ready"], running)
    IN  /\ ~In("ready", running)
        /\ running' = Head(waiting)
        /\ content' = [content EXCEPT !["ready"] = Tail(waiting)]

QNext == Rotate \/ \E q \in QueueName, t \in Thread : Enqueue(q, t)

QSpec == QInit /\ [][QNext]_<<running, content>>
=============================================================================
