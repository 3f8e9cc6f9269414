------------------------------ MODULE MemoryInv ------------------------------
(***************************************************************************)
(* The inductive invariant of the page allocator when its calls do not     *)
(* overlap: the kernel never gives a page back, so the pages that have a   *)
(* frame are the first ones of the pool, page n has frame n, and a running *)
(* call works on the first page that has none.                             *)
(***************************************************************************)
EXTENDS Memory

\* Interrupts are off during a call, or there is nobody else to call.
OneAtATime == ~Preemptible \/ \A c, d \in Caller : c = d

\* Where a caller has taken its row of pages
RowTaken == {"palloc_scan", "palloc_set", "mapping"}

Mappers == {c \in Caller : call[c].pc \in RowTaken}

Row(c) == Rows(call[c].vaddr, call[c].page_count)

\* The pool when the first m pages have their frames
PoolInv(m) ==
    /\ pte = [p \in Page |-> IF p < m THEN p ELSE NO_FRAME]
    /\ pmem_bits = 0 .. m - 1 \cup Claimed
    /\ \A p \in Frame : p \in vaddr_bits <=> \/ p < m
                                            \/ \E c \in Mappers : p \in Row(c)

\* What a caller has worked out where it is, k being its entry of call
CallerInv(k, m) ==
    /\ k.pc = "idle" => k = Idle
    /\ k.pc # "idle" => k.page_count >= 1
    /\ k.pc = "vaddr_set" => k.vaddr = m
    /\ k.pc \in {"vaddr_scan", "vaddr_set"} => k.mapped = 0
    /\ k.pc \in {"vaddr_set"} \cup RowTaken =>
          k.vaddr + k.page_count <= PoolSize + 1
    /\ k.pc \in RowTaken => k.vaddr + k.mapped = m /\ k.mapped < k.page_count
    /\ k.pc \in {"palloc_set", "mapping"} => k.frame = m /\ m < PoolSize

\* The rows that callers have been given lie below the row of the running call.
GrantInv(m) ==
    /\ \A c, d \in Caller : c # d => granted[c] \cap granted[d] = {}
    /\ \A c \in Caller : \A p \in granted[c] :
          p < m /\ \A d \in Mappers : p < call[d].vaddr

IInv ==
    /\ TypeOK
    /\ \A c, d \in Caller : c # d => call[c] = Idle \/ call[d] = Idle
    /\ \E m \in 0..PoolSize :
          /\ PoolInv(m)
          /\ \A c \in Caller : CallerInv(call[c], m)
          /\ GrantInv(m)
=============================================================================
