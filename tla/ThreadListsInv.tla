---------------------------- MODULE ThreadListsInv ----------------------------
(***************************************************************************)
(* The inductive invariant behind the properties of ThreadLists: which     *)
(* sequence of threads the links of each queue spell, how far the insertion*)
(* under way has changed them, and where the threads that are about to be  *)
(* linked, and the searches of preempted threads, stand.                   *)
(***************************************************************************)
EXTENDS ThreadLists

\* The i-th element of a list that holds the sequence s: 0 is its head, and the
\* one behind the last is its tail.
Station(s, i) ==
    IF i = 0 THEN HeadElem ELSE IF i <= Len(s) THEN s[i] ELSE TailElem

Distinct(s) == \A i, j \in 1..Len(s) : s[i] = s[j] => i = j

NextSpells(l, s) ==
    \A i \in 0..Len(s) : l.next[Station(s, i)] = Station(s, i + 1)

PrevSpells(l, s) ==
    \A i \in 0..Len(s) : l.prev[Station(s, i + 1)] = Station(s, i)

Content(q) == Forward(links[q])

Inserts(q, point) == Me.pc = point /\ Me.q = q

\* The links of queue q: between LinkNext and LinkPrev only those that lead
\* forward, and those that lead back from the new element, are up to date.
LinksInv(q) ==
    LET s == Content(q)
        l == links[q]
        n == Len(s)
    IN  /\ s \in Seq(Thread) /\ Distinct(s) /\ NextSpells(l, s)
        /\ Inserts(q, "link_next") =>
              l.prev[Me.elem] = l.prev[TailElem] /\ l.next[Me.elem] = TailElem
        /\ IF Inserts(q, "link_prev")
           THEN /\ n > 0 /\ s[n] = Me.elem
                /\ l.prev[TailElem] = Station(s, n - 1)
                /\ \A i \in 0..n - 1 : l.prev[Station(s, i + 1)] = Station(s, i)
           ELSE PrevSpells(l, s)

\* Whether thread t has yet to link its new thread into queue q
ToLink == {"first", "empty", "search", "disable", "link_elem", "link_next"}

Unlinked(t, q) ==
    /\ call[t].pc # "body"
    /\ IF call[t].q = q THEN call[t].pc \in ToLink ELSE call[t].q = "ready"

\* A thread that has not been linked yet is in no queue, and does not run.
ElemInv ==
    /\ cur \in created /\ cur \notin Members(Content("ready"))
    /\ \A q \in QueueName : Members(Content(q)) \subseteq created
    /\ \A t \in Thread : call[t].pc # "body" => call[t].elem \in created \ {t}
    /\ \A t, u \in Thread :
          t # u /\ call[t].pc # "body" /\ call[u].pc # "body" =>
             call[t].elem # call[u].elem
    /\ \A t \in Thread, q \in QueueName :
          Unlinked(t, q) => call[t].elem \notin Members(Content(q))
    /\ \A t \in Thread : Unlinked(t, "ready") => call[t].elem # cur

\* Interrupts are off while links change, so only the running thread does it.
Linking == {"link_elem", "link_next", "link_prev", "restore"}

LockInv ==
    /\ ~panic
    /\ Me.pc \in Linking => ~intr_on
    /\ \A t \in Thread \ {cur} : call[t].pc \notin Linking

\* A search of the ready queue stands on another thread than the searching one;
\* when that thread gets the processor it leaves the queue until it is preempted.
SearchInv ==
    \A t \in Thread : LET c == call[t] IN
        c.pc \in {"empty", "search"} =>
           /\ \/ c.pelem \in Members(Content(c.q)) \cup {TailElem}
              \/ c.q = "ready" /\ c.pelem = cur
           /\ c.q = "ready" => c.pelem # t

IInv ==
    /\ TypeOK
    /\ LockInv
    /\ ElemInv
    /\ \A q \in QueueName : LinksInv(q)
    /\ SearchInv

-----------------------------------------------------------------------------
(* What a search has still to see *)

\* The running thread and behind it the ready queue, a ring that schedule turns
\* by one place; all_thread_queue stands still.
Ring(q, i) ==
    IF i = 0 THEN IF q = "ready" THEN cur ELSE NULL ELSE Content(q)[i]

\* Where the search of thread t began to go round
Origin(t, q) == IF q = "ready" THEN t ELSE NULL

\* Going round from i one meets j before k.
Cyclic(i, j, k) ==
    (i < j /\ j < k) \/ (j < k /\ k < i) \/ (k < i /\ i < j)

\* A thread in the middle of thread_create is in the ready queue or runs.
ActiveInv ==
    \A t \in Thread : call[t].pc # "body" =>
        t = cur \/ t \in Members(Content("ready"))

\* What the search of thread t has not seen lies ahead of it, going round from
\* the thread itself.
Ahead(t) ==
    LET q == call[t].q
        pelem == call[t].pelem
    IN  /\ pelem = TailElem => unvisited[t] = {}
        /\ \A e \in unvisited[t] :
              /\ e \in Members(Content(q)) \/ (q = "ready" /\ e = cur)
              /\ q = "ready" => e # t
        /\ \A i, j, k \in 0..Len(Content(q)) :
              /\ Ring(q, i) = Origin(t, q)
              /\ Ring(q, j) \in unvisited[t]
              /\ Ring(q, k) = pelem
              => ~Cyclic(i, j, k)

VisitInv ==
    /\ ActiveInv
    /\ \A t \in Thread : call[t].pc \in {"empty", "search"} => Ahead(t)
=============================================================================
