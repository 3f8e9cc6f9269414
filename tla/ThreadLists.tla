----------------------------- MODULE ThreadLists -----------------------------
(***************************************************************************)
(* ready_thread_queue and all_thread_queue as lib/kernel/list.c keeps      *)
(* them: doubly linked through the two tags of every PCB, searched by      *)
(* list_has_elem with interrupts possible at every step, and changed by    *)
(* list_insert_before and list_remove with interrupts off.                 *)
(*                                                                         *)
(* The threads create threads (thread/thread.c:144-161), one memory access *)
(* a step.  The timer handler may call schedule between any two of those   *)
(* steps at which IF is set; it runs with interrupts off from beginning to *)
(* end (InterruptsOnlyInThreadCode in KernelThreads), so it is one step.   *)
(***************************************************************************)
EXTENDS Integers, Sequences, FiniteSets

CONSTANTS
    Thread,         \* PCB pages; also the tags in them, which link the PCBs
    MainThread,     \* the thread that runs main()
    Spawner,        \* threads whose code calls thread_create
    HeadElem, TailElem,     \* the two list_elem of a list
    NULL

ASSUME ListsAssumption ==
    /\ IsFiniteSet(Thread)
    /\ MainThread \in Thread
    /\ Spawner \subseteq Thread
    /\ HeadElem \notin Thread /\ TailElem \notin Thread \cup {HeadElem}
    /\ NULL \notin Thread \cup {HeadElem, TailElem}

VARIABLES
    cur,            \* the thread that has the processor
    intr_on,        \* EFLAGS.IF in its code
    created,        \* threads whose PCB has been initialised
    links,          \* prev and next of every element, for each list
    call,           \* what thread_create is doing in each thread
    unvisited,      \* auxiliary: elements a search has still to look at
    panic           \* an ASSERT failed

vars == <<cur, intr_on, created, links, call, unvisited, panic>>

QueueName == {"ready", "all"}

Elem == Thread \cup {HeadElem, TailElem}

Links == [next : [Elem -> Elem \cup {NULL}], prev : [Elem -> Elem \cup {NULL}]]

Points == {"body", "first", "empty", "search", "disable", "link_elem",
           "link_next", "link_prev", "restore"}

Call == [pc : Points, q : QueueName, elem : Thread,
         pelem : Thread \cup {TailElem}, old_status : BOOLEAN]

-----------------------------------------------------------------------------
(* lib/kernel/list.c as functions of the links of one list *)

\* list_init, on a list whose tags are in zeroed pages
EmptyList ==
    [next |-> [e \in Elem |-> IF e = HeadElem THEN TailElem ELSE NULL],
     prev |-> [e \in Elem |-> IF e = TailElem THEN HeadElem ELSE NULL]]

list_empty(l) == l.prev[TailElem] = HeadElem

\* The assignments of list_insert_before: the new element's own links, ...
LinkElem(l, before, pelem) ==
    [l EXCEPT !.prev[pelem] = l.prev[before], !.next[pelem] = before]

\* ... before->prev->next = pelem, ...
LinkNext(l, before, pelem) == [l EXCEPT !.next[l.prev[before]] = pelem]

\* ... before->prev = pelem.
LinkPrev(l, before, pelem) == [l EXCEPT !.prev[before] = pelem]

list_append(l, pelem) ==
    LET own  == LinkElem(l, TailElem, pelem)
        next == LinkNext(own, TailElem, pelem)
    IN  LinkPrev(next, TailElem, pelem)

\* The removed element keeps its own links.
list_remove(l, pelem) ==
    LET forward == [l EXCEPT !.next[l.prev[pelem]] = l.next[pelem]]
    IN  [forward EXCEPT !.prev[forward.next[pelem]] = forward.prev[pelem]]

\* The threads found by following one kind of link from an end of the list;
\* a list that does not end is cut off after more threads than exist.
Walk(link, start, end) ==
    LET at[n \in Nat] ==
            LET here == IF n = 0 THEN start ELSE at[n - 1]
            IN  IF here \in {end, NULL} THEN here ELSE link[here]
        long == Cardinality({n \in 0..Cardinality(Thread) : at[n] \in Thread})
    IN  [i \in 1..long |-> at[i - 1]]

Forward(l)  == Walk(l.next, HeadElem, TailElem)
Backward(l) == Walk(l.prev, TailElem, HeadElem)

Members(w) == {w[i] : i \in DOMAIN w}

list_has_elem(l, obj_elem) ==
    ~list_empty(l) /\ obj_elem \in Members(Forward(l))

-----------------------------------------------------------------------------
(* Initial state: make_main_thread has linked main into all_thread_queue *)

Init ==
    /\ cur = MainThread
    /\ intr_on = FALSE
    /\ created = {MainThread}
    /\ links = [q \in QueueName |->
                   IF q = "all" THEN list_append(EmptyList, MainThread)
                                ELSE EmptyList]
    /\ call = [t \in Thread |->
                  [pc |-> "body", q |-> "ready", elem |-> MainThread,
                   pelem |-> TailElem, old_status |-> FALSE]]
    /\ unvisited = [t \in Thread |-> {}]
    /\ panic = FALSE

-----------------------------------------------------------------------------
(* thread_create, one access to shared memory a step *)

Me == call[cur]
MyLinks == links[Me.q]

At(point) == ~panic /\ Me.pc = point

Goto(point) == call' = [call EXCEPT ![cur].pc = point]

\* main's intr_enable
EnableInterrupts ==
    /\ At("body")
    /\ cur = MainThread
    /\ ~intr_on
    /\ intr_on' = TRUE
    /\ UNCHANGED <<cur, created, links, call, unvisited, panic>>

\* A new PCB, whose tags are about to be linked into both queues: a page that no
\* other thread has, as long as the calls of get_kernel_pages do not overlap
\* (OneAtATime of KernelThreads)
ThreadCreate(t) ==
    /\ At("body")
    /\ cur \in Spawner
    /\ t \notin created
    /\ created' = created \cup {t}
    /\ call' = [call EXCEPT ![cur].pc = "first", ![cur].q = "ready",
                            ![cur].elem = t]
    /\ UNCHANGED <<cur, intr_on, links, unvisited, panic>>

\* Deliberate error: the search starts behind the first element.
HasElemSecond ==
    /\ At("first")
    /\ LET first == MyLinks.next[HeadElem]
       IN  call' = [call EXCEPT ![cur].pelem = IF first = TailElem THEN first
                                               ELSE MyLinks.next[first],
                                ![cur].pc = "empty"]
    /\ unvisited' = [unvisited EXCEPT ![cur] = Members(Forward(MyLinks))]
    /\ UNCHANGED <<cur, intr_on, created, links, panic>>

\* list_has_elem: pelem = plist->head.next
HasElemFirst ==
    /\ At("first")
    /\ call' = [call EXCEPT ![cur].pelem = MyLinks.next[HeadElem],
                            ![cur].pc = "empty"]
    /\ unvisited' = [unvisited EXCEPT ![cur] = Members(Forward(MyLinks))]
    /\ UNCHANGED <<cur, intr_on, created, links, panic>>

\* ... if (list_empty(plist)) return false
HasElemEmpty ==
    /\ At("empty")
    /\ Goto(IF list_empty(MyLinks) THEN "disable" ELSE "search")
    /\ UNCHANGED <<cur, intr_on, created, links, unvisited, panic>>

\* Deliberate error: the loop does not go on to the next element.
HasElemSearchStands ==
    /\ At("search")
    /\ IF Me.pelem = TailElem
       THEN Goto("disable") /\ UNCHANGED <<unvisited, panic>>
       ELSE /\ panic' = (Me.pelem = Me.elem)
            /\ unvisited' = [unvisited EXCEPT ![cur] = @ \ {Me.pelem}]
            /\ UNCHANGED call
    /\ UNCHANGED <<cur, intr_on, created, links>>

\* Deliberate error: the loop ends at a null pointer, not at the tail.
HasElemSearchToNull ==
    /\ At("search")
    /\ IF Me.pelem = NULL
       THEN Goto("disable") /\ UNCHANGED <<unvisited, panic>>
       ELSE /\ panic' = (Me.pelem = Me.elem)
            /\ call' = [call EXCEPT ![cur].pelem = MyLinks.next[Me.pelem]]
            /\ unvisited' = [unvisited EXCEPT ![cur] = @ \ {Me.pelem}]
    /\ UNCHANGED <<cur, intr_on, created, links>>

\* One round of the loop: stop at tail, ASSERT that the element is another
\* one, go on to its successor.
HasElemSearch ==
    /\ At("search")
    /\ IF Me.pelem = TailElem
       THEN Goto("disable") /\ UNCHANGED <<unvisited, panic>>
       ELSE /\ panic' = (Me.pelem = Me.elem)
            /\ call' = [call EXCEPT ![cur].pelem = MyLinks.next[Me.pelem]]
            /\ unvisited' = [unvisited EXCEPT ![cur] = @ \ {Me.pelem}]
    /\ UNCHANGED <<cur, intr_on, created, links>>

\* Deliberate error: list_insert_before leaves interrupts as they are.
DisableNothing ==
    /\ At("disable")
    /\ call' = [call EXCEPT ![cur].pc = "link_elem",
                            ![cur].old_status = intr_on]
    /\ UNCHANGED <<cur, intr_on, created, links, unvisited, panic>>

\* list_append -> list_insert_before(&plist->tail, pelem): intr_disable
Disable ==
    /\ At("disable")
    /\ intr_on' = FALSE
    /\ call' = [call EXCEPT ![cur].pc = "link_elem",
                            ![cur].old_status = intr_on]
    /\ UNCHANGED <<cur, created, links, unvisited, panic>>

\* One assignment to the links of the list thread_create works on
Assign(point, Change(_, _, _), next) ==
    /\ At(point)
    /\ links' = [links EXCEPT ![Me.q] = Change(MyLinks, TailElem, Me.elem)]
    /\ Goto(next)
    /\ UNCHANGED <<cur, intr_on, created, unvisited, panic>>

Insert ==
    \/ Assign("link_elem", LinkElem, "link_next")
    \/ Assign("link_next", LinkNext, "link_prev")
    \/ Assign("link_prev", LinkPrev, "restore")

\* intr_set_status(old_status); from ready_thread_queue thread_create goes on
\* to all_thread_queue, from there it returns.
Restore ==
    /\ At("restore")
    /\ intr_on' = Me.old_status
    /\ call' = [call EXCEPT ![cur].pc = IF Me.q = "ready" THEN "first"
                                                          ELSE "body",
                            ![cur].q = "all"]
    /\ UNCHANGED <<cur, created, links, unvisited, panic>>

-----------------------------------------------------------------------------
(* schedule, called by the timer handler on the stack of cur: cur goes to   *)
(* the end of ready_thread_queue, and list_pop_left chooses the next. The   *)
(* next thread goes on in its own code with IF set.                         *)

Schedule ==
    /\ ~panic
    /\ intr_on
    /\ IF list_has_elem(links["ready"], cur)
       THEN panic' = TRUE /\ UNCHANGED <<cur, links>>
       ELSE LET appended == list_append(links["ready"], cur)
                pelem    == appended.next[HeadElem]
            IN  /\ panic' = list_empty(appended)
                /\ links' = [links EXCEPT !["ready"] =
                                list_remove(appended, pelem)]
                /\ cur' = pelem
    /\ UNCHANGED <<intr_on, created, call, unvisited>>

ThreadStep ==
    \/ HasElemFirst
    \/ HasElemEmpty
    \/ HasElemSearch
    \/ Disable
    \/ Insert
    \/ Restore

Next ==
    \/ EnableInterrupts
    \/ \E t \in Thread : ThreadCreate(t)
    \/ ThreadStep
    \/ Schedule

Spec == Init /\ [][Next]_vars

\* Every thread that gets the processor again and again executes its own code.
FairSpec ==
    /\ Spec
    /\ WF_vars(EnableInterrupts)
    /\ WF_vars(Schedule)
    /\ \A t \in Thread : SF_vars(cur = t /\ ThreadStep)

-----------------------------------------------------------------------------
(* Correctness *)

TypeOK ==
    /\ cur \in Thread
    /\ intr_on \in BOOLEAN
    /\ created \subseteq Thread
    /\ links \in [QueueName -> Links]
    /\ call \in [Thread -> Call]
    /\ unvisited \in [Thread -> SUBSET Thread]
    /\ panic \in BOOLEAN

Reversed(w) == [i \in DOMAIN w |-> w[Len(w) + 1 - i]]

(* Whenever an interrupt may be accepted, both lists can be walked from     *)
(* either end and read the same backwards: schedule never meets a list that *)
(* list_insert_before has half changed (list.c:42-53).                      *)
ListsIntact ==
    intr_on => \A q \in QueueName :
                  Backward(links[q]) = Reversed(Forward(links[q]))

(* A search by list_has_elem, which takes no lock, stands on an element of  *)
(* the list it was started on or at its tail, although schedule has unlinked*)
(* and appended that very element while the searching thread was preempted  *)
(* (list.c:163-181).                                                        *)
SearchStaysInList ==
    Me.pc \in {"empty", "search"} =>
        Me.pelem \in Members(Forward(MyLinks)) \cup {TailElem}

(* A search that answers "not there" has looked at every thread that was in *)
(* the list when it began: rotations of ready_thread_queue in the middle of *)
(* it hide no element.                                                      *)
SearchVisitsAll ==
    [][cur' = cur /\ Me.pc \in {"empty", "search"} /\ Me'.pc = "disable"
           => unvisited'[cur] = {}]_vars

(* Every search by list_has_elem ends, although the scheduler may unlink and*)
(* append the element it stands on at every step (list.c:163-181).          *)
SearchEnds ==
    \A t \in Thread : call[t].pc \in {"empty", "search"} ~>
                          call[t].pc \notin {"empty", "search"}

-----------------------------------------------------------------------------
(* The links implement sequences: an element is in the sequence from the    *)
(* moment its predecessor points to it.                                     *)

Q == INSTANCE Queues WITH
        running <- cur,
        content <- [q \in QueueName |-> Forward(links[q])]

(* Seen through the forward links, every operation on the lists is one      *)
(* append at the end or one rotation, whatever the interleaving: no element *)
(* is lost, doubled or reordered.                                           *)
ImplementsQueues == Q!QSpec
=============================================================================
