--------------------------- MODULE PageTablesProofs ---------------------------
(***************************************************************************)
(* The page tables lead every page to its frame, for tables of any size and*)
(* any heap that lies behind the entry of 0xc0000000.                      *)
(***************************************************************************)
EXTENDS PageTablesInv, TLAPS

-----------------------------------------------------------------------------
(* Arithmetic of page and table numbers *)

LEMMA Quotient ==
    ASSUME NEW n \in Nat \ {0}, NEW a \in Nat, NEW b \in 0 .. n - 1
    PROVE  (a * n + b) \div n = a /\ (a * n + b) % n = b
OBVIOUS

LEMMA Parts ==
    ASSUME NEW n \in Nat \ {0}, NEW v \in Nat
    PROVE  /\ v \div n \in Nat /\ v % n \in 0 .. n - 1
           /\ v = (v \div n) * n + (v % n)
<1>1. v \div n \in Nat /\ v % n \in 0 .. n - 1
  OBVIOUS
<1>2. v = (v \div n) * n + (v % n)
  BY Z3T(30)
<1> QED BY <1>1, <1>2

LEMMA Products ==
    ASSUME NEW n \in Nat \ {0}, NEW a \in Nat, NEW b \in Nat
    PROVE  /\ a * n \in Nat
           /\ a <= b => a * n <= b * n
           /\ a < b => a * n + n <= b * n
OBVIOUS

LEMMA Frames ==
    /\ Entries \in Nat \ {0} /\ KernelEntry \in 1 .. Entries - 2
    /\ Dir \in Nat \ {0} /\ FirstTable = Dir + 1 /\ FirstFree >= Dir + 2
    /\ FirstFree \in Nat /\ LastFrame \in Nat /\ FirstFree <= LastFrame + 1
    /\ Entries - 1 \in Index /\ NONE \notin Int
BY PageTablesAssumption DEF Dir, FirstTable, FirstFree, LastFrame, Index

\* A page number consists of an entry of the directory and one of a table.
LEMMA PageParts ==
    ASSUME NEW page \in 0 .. Entries * Entries - 1
    PROVE  /\ page \in Nat /\ page \div Entries \in Index /\ page % Entries \in Index
           /\ page = (page \div Entries) * Entries + (page % Entries)
<1> DEFINE i == page \div Entries
           x == page % Entries
<1>1. Entries \in Nat \ {0} /\ page \in Nat
  BY Products, PageTablesAssumption
<1>2. i \in Nat /\ x \in 0 .. Entries - 1 /\ page = i * Entries + x
  BY <1>1, Parts
<1> HIDE DEF i, x
<1>3. i < Entries
  <2>1. i >= Entries => Entries * Entries <= i * Entries
    BY <1>1, <1>2, Products
  <2> DEFINE whole == Entries * Entries
             part == i * Entries
  <2>2. whole \in Nat /\ part \in Nat /\ page < whole
    BY <1>1, <1>2, Products
  <2> HIDE DEF whole, part
  <2>3. page = part + x /\ (i >= Entries => whole <= part)
    BY <1>2, <2>1 DEF whole, part
  <2> QED BY <1>1, <1>2, <2>2, <2>3
<1> QED BY <1>1, <1>2, <1>3 DEF i, x, Index

\* The directory entry of a word, and the two parts of its page
LEMMA WordParts ==
    ASSUME NEW page \in 0 .. Entries * Entries - 1
    PROVE  /\ (page * Entries) \div Entries = page
           /\ (page * Entries) \div (Entries * Entries) = page \div Entries
<1> DEFINE n == Entries
           i == page \div n
           x == page % n
           square == n * n
           low == x * n
<1>1. n \in Nat \ {0} /\ page \in Nat /\ i \in 0 .. n - 1 /\ x \in 0 .. n - 1
      /\ page = i * n + x
  <2>1. n \in Nat \ {0}
    BY Frames
  <2>2. page \in Nat /\ i \in Index /\ x \in Index /\ page = i * n + x
    BY PageParts
  <2> QED BY <2>1, <2>2 DEF Index
<1>2. (page * n + 0) \div n = page
  BY <1>1, Quotient
<1> HIDE DEF n, i, x
<1>3. square \in Nat \ {0} /\ low \in 0 .. square - 1
  <2>1. x * n + n <= n * n /\ x * n \in Nat
    BY <1>1, Products
  <2> DEFINE sq == n * n
             lo == x * n
  <2>2. lo + n <= sq /\ lo \in Nat /\ sq \in Int
    BY <1>1, <2>1
  <2> HIDE DEF sq, lo
  <2>3. sq \in Nat \ {0} /\ lo \in 0 .. sq - 1
    BY <1>1, <2>2
  <2> QED BY <2>3 DEF sq, lo
<1>4. page * n = i * square + low
  <2>1. page * n = (i * n + x) * n
    BY <1>1
  <2>2. (i * n + x) * n = i * (n * n) + x * n
    BY <1>1
  <2> QED BY <2>1, <2>2
<1> HIDE DEF square, low
<1>5. (i * square + low) \div square = i
  BY <1>1, <1>3, Quotient
<1>6. page * n + 0 = page * n
  BY <1>1
<1> QED BY <1>2, <1>4, <1>5, <1>6 DEF n, i, square

-----------------------------------------------------------------------------
(* The directory *)

LEMMA Directory ==
    /\ \A i \in Index : PageDirectory[i] \in FirstTable .. FirstFree - 1 \cup {Dir, NONE}
    /\ PageDirectory[Entries - 1] = Dir
    /\ \A i \in KernelEntry .. Entries - 2 :
          /\ PageDirectory[i] = FirstTable + (i - KernelEntry)
          /\ PageDirectory[i] \in FirstTable .. FirstFree - 1
    /\ FirstTable .. FirstFree - 1 \subseteq Dir .. LastFrame
    /\ PageDirectory \in [Index -> Value]
<1>1. \A i \in KernelEntry .. Entries - 2 :
         /\ i \in Index
         /\ PageDirectory[i] = FirstTable + (i - KernelEntry)
         /\ PageDirectory[i] \in FirstTable .. FirstFree - 1
  BY Frames DEF PageDirectory, Index, FirstFree, FirstTable
<1>2. PageDirectory[Entries - 1] = Dir
  BY Frames DEF PageDirectory
<1>3. ASSUME NEW i \in Index
      PROVE  PageDirectory[i] \in FirstTable .. FirstFree - 1 \cup {Dir, NONE}
  <2>1. i = 0 => PageDirectory[i] = FirstTable
    BY DEF PageDirectory
  <2>2. i = Entries - 1 \/ i \in KernelEntry .. Entries - 2 \/ i \in 0 .. KernelEntry - 1
    BY Frames DEF Index
  <2>3. i \in 1 .. KernelEntry - 1 => PageDirectory[i] = NONE
    BY Frames DEF PageDirectory, Index
  <2>4. FirstTable \in FirstTable .. FirstFree - 1
    BY Frames
  <2> QED BY <1>1, <1>2, <2>1, <2>2, <2>3, <2>4, Frames
<1>4. FirstTable .. FirstFree - 1 \subseteq Dir .. LastFrame
  BY Frames
<1>5. PageDirectory \in [Index -> Value]
  <2>1. \A i \in Index : PageDirectory[i] \in Value
    BY <1>3, Frames DEF Value
  <2> QED BY <2>1 DEF PageDirectory
<1> QED BY <1>1, <1>2, <1>3, <1>4, <1>5

\* Seen through the last entry the tables are pages, and the directory is the
\* last of them.
LEMMA SeenThroughLast ==
    ASSUME NEW m, m[Dir] = PageDirectory, NEW i \in Index
    PROVE  Translate(m, (Entries - 1) * Entries + i) = PageDirectory[i]
<1> DEFINE last == Entries - 1
           page == last * Entries + i
<1>1. last \in Nat /\ i \in 0 .. Entries - 1 /\ Entries \in Nat \ {0}
  BY Frames DEF Index
<1>2. page \div Entries = last /\ page % Entries = i
  BY <1>1, Quotient
<1>3. PageDirectory[last] = Dir /\ Dir # NONE
  BY Directory, Frames
<1> HIDE DEF page
<1>4. Translate(m, page) = PageDirectory[i]
  BY <1>2, <1>3 DEF Translate, PdeOf, last
<1> QED BY <1>4 DEF page

\* Where the two pointers lead
LEMMA Pointers ==
    ASSUME NEW m, m[Dir] = PageDirectory, NEW page \in 0 .. Entries * Entries - 1
    PROVE  LET v == page * Entries
               i == page \div Entries
               x == page % Entries
           IN  /\ Translate(m, pde_pointer(v) \div Entries) = Dir
               /\ pde_pointer(v) % Entries = i
               /\ Translate(m, pte_pointer(v) \div Entries) = PageDirectory[i]
               /\ pte_pointer(v) % Entries = x
<1> DEFINE n == Entries
           v == page * n
           i == page \div n
           x == page % n
           square == n * n
<1>1. n \in Nat \ {0} /\ n - 1 \in Index /\ n - 1 \in Nat
  BY Frames
<1>2. page \in Nat /\ i \in Index /\ x \in Index
  BY PageParts
<1>3. v \div n = page /\ v \div square = i
  BY WordParts
<1>4. pde_pointer(v) \div n = (n - 1) * n + (n - 1) /\ pde_pointer(v) % n = i
  <2> DEFINE a == (n - 1) * n + (n - 1)
  <2>1. a = n * n - 1 /\ a \in Nat
    BY <1>1, Products
  <2>2. pde_pointer(v) = a * n + i
    BY <1>3, <2>1 DEF pde_pointer
  <2> HIDE DEF a, i, v
  <2>3. (a * n + i) \div n = a /\ (a * n + i) % n = i
    BY <1>1, <1>2, <2>1, Quotient DEF Index
  <2> QED BY <2>2, <2>3 DEF a
<1>5. pte_pointer(v) \div n = (n - 1) * n + i /\ pte_pointer(v) % n = x
  <2> DEFINE a == (n - 1) * n + i
  <2>1. a \in Nat
    BY <1>1, <1>2, Products DEF Index
  <2>2. pte_pointer(v) = (n - 1) * n * n + i * n + x
    BY <1>3 DEF pte_pointer
  <2> HIDE DEF i, x, v
  <2>3. (n - 1) * n * n + i * n + x = a * n + x
    BY <1>1, <1>2 DEF Index
  <2> HIDE DEF a
  <2>4. (a * n + x) \div n = a /\ (a * n + x) % n = x
    BY <1>1, <1>2, <2>1, Quotient DEF Index
  <2> QED BY <2>2, <2>3, <2>4 DEF a
<1> HIDE DEF i, x, v
<1>6. Translate(m, (n - 1) * n + (n - 1)) = PageDirectory[n - 1]
  BY <1>1, SeenThroughLast
<1>7. Translate(m, (n - 1) * n + i) = PageDirectory[i]
  BY <1>2, SeenThroughLast
<1>8. PageDirectory[n - 1] = Dir
  BY Directory
<1> HIDE DEF n
<1> QED BY <1>4, <1>5, <1>6, <1>7, <1>8 DEF n, v, i, x

-----------------------------------------------------------------------------
(* The invariant *)

\* The entries a page of the heap leads through
LEMMA HeapPage ==
    ASSUME KernelHeap, NEW page \in Heap
    PROVE  /\ page \in 0 .. Entries * Entries - 1
           /\ page \div Entries \in KernelEntry .. Entries - 2
           /\ PageDirectory[page \div Entries] \in FirstTable .. FirstFree - 1
           /\ PageDirectory[page \div Entries]
                = FirstTable + (page \div Entries - KernelEntry)
           /\ page % Entries \in Index
<1> DEFINE i == page \div Entries
           x == page % Entries
<1>1. Entries \in Nat \ {0} /\ KernelEntry \in 1 .. Entries - 2
  BY Frames
<1>2. page \in 0 .. Entries * Entries - 1
  BY PageTablesAssumption
<1>3. page \in KernelEntry * Entries .. (Entries - 1) * Entries - 1
  BY DEF KernelHeap
<1>4. i \in Index /\ x \in Index /\ page = i * Entries + x
  BY <1>2, PageParts
<1> HIDE DEF i, x
<1>5. i >= KernelEntry
  <2> DEFINE first == KernelEntry * Entries
             mine == i * Entries
  <2>1. i < KernelEntry => mine + Entries <= first
    BY <1>1, <1>4, Products DEF Index
  <2>2. first \in Nat /\ mine \in Nat /\ page >= first /\ page = mine + x
    BY <1>1, <1>3, <1>4, Products DEF Index
  <2> HIDE DEF first, mine
  <2> QED BY <1>1, <1>4, <2>1, <2>2 DEF Index
<1>6. i < Entries - 1
  <2> DEFINE end == (Entries - 1) * Entries
             mine == i * Entries
  <2>1. i >= Entries - 1 => end <= mine
    BY <1>1, <1>4, Products DEF Index
  <2>2. end \in Nat /\ mine \in Nat /\ page < end /\ page = mine + x
    BY <1>1, <1>3, <1>4, Products DEF Index
  <2> HIDE DEF end, mine
  <2> QED BY <1>1, <1>4, <2>1, <2>2 DEF Index
<1>7. i \in KernelEntry .. Entries - 2
  BY <1>1, <1>4, <1>5, <1>6 DEF Index
<1>8. /\ PageDirectory[i] = FirstTable + (i - KernelEntry)
      /\ PageDirectory[i] \in FirstTable .. FirstFree - 1
  BY <1>7, Directory
<1> QED BY <1>2, <1>4, <1>7, <1>8 DEF i, x

\* What mapping_vaddr_to_pmem does to a page of the heap: the entry of the
\* directory is there, so one entry of one table is written.
LEMMA MapStep ==
    ASSUME KernelHeap, IInv, NEW page \in Heap, MapPage(page)
    PROVE  LET table == PageDirectory[page \div Entries]
               x == page % Entries
           IN  /\ ~panic /\ mapped[page] = NONE /\ next_free <= LastFrame
               /\ mapped' = [mapped EXCEPT ![page] = next_free]
               /\ next_free' = next_free + 1
               /\ panic' = (tables[table][x] # NONE)
               /\ tables' = IF tables[table][x] # NONE THEN tables
                         ELSE [tables EXCEPT ![table][x] = next_free]
<1> DEFINE v == page * Entries
           pde == pde_pointer(v)
           pte == pte_pointer(v)
           i == page \div Entries
           x == page % Entries
           table == PageDirectory[i]
<1>1. tables[Dir] = PageDirectory
  BY DEF IInv, TablesInv
<1>2. page \in 0 .. Entries * Entries - 1 /\ table \in FirstTable .. FirstFree - 1
  BY HeapPage
<1>3. /\ Translate(tables, pde \div Entries) = Dir /\ pde % Entries = i
      /\ Translate(tables, pte \div Entries) = table /\ pte % Entries = x
  BY <1>1, <1>2, Pointers
<1> HIDE DEF pde, pte
<1>4. Load(tables, pde) = table /\ Load(tables, pte) = tables[table][x]
  BY <1>1, <1>3 DEF Load
<1>5. table # NONE
  BY <1>2, Frames
<1>6. Store(tables, pte, next_free) = [tables EXCEPT ![table][x] = next_free]
  BY <1>3 DEF Store
<1>7. /\ ~panic /\ mapped[page] = NONE /\ next_free <= LastFrame
      /\ mapped' = [mapped EXCEPT ![page] = next_free]
      /\ next_free' = next_free + 1
      /\ panic' = (Load(tables, pte) # NONE)
      /\ tables' = IF panic' THEN tables ELSE Store(tables, pte, next_free)
  BY <1>4, <1>5 DEF MapPage, FreshFrame, pde, pte
<1> HIDE DEF table, x
<1> QED BY <1>4, <1>6, <1>7 DEF table, x, i

LEMMA InitInv ==
    ASSUME TablesInit
    PROVE  IInv
<1>1. PICK left \in [FirstTable .. LastFrame -> Leftover] :
         tables = [f \in Dir .. LastFrame |->
                   IF f = Dir THEN PageDirectory
                   ELSE [i \in Index |->
                            IF f = FirstTable /\ i < LowFrames THEN i ELSE left[f]]]
  BY DEF TablesInit
<1>2. tables[Dir] = PageDirectory
  BY <1>1, Frames
<1>3. tables \in [Dir .. LastFrame -> [Index -> Value]]
  <2>1. ASSUME NEW f \in Dir .. LastFrame, f # Dir
        PROVE  tables[f] \in [Index -> Value]
    <3>1. f \in FirstTable .. LastFrame
      BY <2>1, Frames
    <3>2. left[f] \in Value
      BY <3>1 DEF Value
    <3>3. tables[f] = [i \in Index |->
                      IF f = FirstTable /\ i < LowFrames THEN i ELSE left[f]]
      BY <1>1, <2>1
    <3>4. \A i \in Index : i \in Value
      BY Frames DEF Index, Value
    <3> QED BY <3>2, <3>3, <3>4
  <2>2. tables[Dir] \in [Index -> Value]
    BY <1>2, Directory
  <2> QED BY <1>1, <2>1, <2>2
<1>4. FramesInv /\ WalkInv
  <2>1. /\ next_free = FirstFree /\ panic = FALSE
        /\ mapped = [page \in Heap |-> NONE]
    BY DEF TablesInit
  <2>2. next_free \in FirstFree .. LastFrame + 1
    BY <2>1, Frames
  <2>3. mapped \in [Heap -> FirstFree .. next_free - 1 \cup {NONE}]
    BY <2>1
  <2>4. \A page \in Heap : mapped[page] = NONE
    BY <2>1
  <2> QED BY <2>1, <2>2, <2>3, <2>4 DEF FramesInv, WalkInv
<1> QED BY <1>2, <1>3, <1>4 DEF IInv, TablesInv

\* An entry that is written had been empty: no other entry changes.
LEMMA OthersStay ==
    ASSUME KernelHeap, IInv, NEW page \in Heap, MapPage(page),
           NEW other \in 0 .. Entries * Entries - 1, Translate(tables, other) # NONE
    PROVE  Translate(tables', other) = Translate(tables, other)
<1> DEFINE table == PageDirectory[page \div Entries]
           x == page % Entries
           t == PageDirectory[other \div Entries]
           y == other % Entries
<1>1. /\ tables' = IF tables[table][x] # NONE THEN tables
                ELSE [tables EXCEPT ![table][x] = next_free]
      /\ tables[Dir] = PageDirectory /\ tables \in [Dir .. LastFrame -> [Index -> Value]]
  BY MapStep DEF IInv, TablesInv
<1>2. /\ table \in FirstTable .. FirstFree - 1 /\ x \in Index
      /\ table \in Dir .. LastFrame
  BY HeapPage, Directory
<1>3. y \in Index /\ t \in FirstTable .. FirstFree - 1 \cup {Dir, NONE}
  BY PageParts, Directory
<1>4. table # Dir
  BY <1>2, Frames
<1> HIDE DEF table, x
<1>5. tables'[Dir] = PageDirectory
  BY <1>1, <1>2, <1>4
<1>6. t # NONE /\ tables[t][y] # NONE
  BY <1>1 DEF Translate, PdeOf
<1>7. t \in Dir .. LastFrame
  BY <1>3, <1>6, Directory, Frames
<1> HIDE DEF t, y
<1>8. tables'[t][y] = tables[t][y]
  BY <1>1, <1>2, <1>3, <1>6, <1>7
<1> QED BY <1>1, <1>5, <1>8 DEF Translate, PdeOf, t, y

LEMMA NextInv ==
    ASSUME KernelHeap, IInv, [TablesNext]_tablesVars
    PROVE  IInv'
<1>1. CASE UNCHANGED tablesVars
  BY <1>1 DEF tablesVars, IInv, TablesInv, FramesInv, WalkInv, Translate, PdeOf
<1>2. ASSUME NEW page \in Heap, MapPage(page)
      PROVE  IInv'
  <2> DEFINE table == PageDirectory[page \div Entries]
             x == page % Entries
  <2>1. /\ ~panic /\ mapped[page] = NONE /\ next_free <= LastFrame
        /\ mapped' = [mapped EXCEPT ![page] = next_free]
        /\ next_free' = next_free + 1
        /\ panic' = (tables[table][x] # NONE)
        /\ tables' = IF tables[table][x] # NONE THEN tables
                  ELSE [tables EXCEPT ![table][x] = next_free]
    BY <1>2, MapStep
  <2>2. /\ tables[Dir] = PageDirectory /\ tables \in [Dir .. LastFrame -> [Index -> Value]]
        /\ next_free \in FirstFree .. LastFrame + 1
        /\ mapped \in [Heap -> FirstFree .. next_free - 1 \cup {NONE}]
    BY DEF IInv, TablesInv, FramesInv
  <2>3. /\ table \in FirstTable .. FirstFree - 1 /\ x \in Index
        /\ table \in Dir .. LastFrame /\ table # Dir /\ next_free \in Value
    <3>1. next_free \in Int
      BY <2>2, Frames
    <3>2. /\ table \in FirstTable .. FirstFree - 1 /\ x \in Index
          /\ table \in Dir .. LastFrame
      BY HeapPage, Directory
    <3> HIDE DEF table, x
    <3> QED BY <3>1, <3>2, Frames DEF Value
  <2>4. page \div Entries \in Index /\ page \in 0 .. Entries * Entries - 1
    BY HeapPage, PageParts
  <2> HIDE DEF x
  <2>5. TablesInv'
    <3> HIDE DEF table
    <3>1. tables'[Dir] = PageDirectory
      BY <2>1, <2>2, <2>3
    <3>2. tables' \in [Dir .. LastFrame -> [Index -> Value]]
      BY <2>1, <2>2, <2>3
    <3> QED BY <3>1, <3>2 DEF TablesInv
  <2>6. FramesInv'
    BY <2>1, <2>2, Frames DEF FramesInv
  <2>7. WalkInv'
    <3> SUFFICES ASSUME ~panic', NEW p \in Heap, mapped'[p] # NONE
                 PROVE  Translate(tables', p) = mapped'[p]
      BY DEF WalkInv
    <3>1. CASE p = page
      <4>1. tables' = [tables EXCEPT ![table][x] = next_free] /\ mapped'[p] = next_free
        BY <2>1, <2>2, <3>1
      <4>2. tables'[Dir] = PageDirectory
        BY <2>5 DEF TablesInv
      <4>3. tables'[table][x] = next_free
        <5> HIDE DEF table
        <5> QED BY <2>2, <2>3, <4>1
      <4>4. table # NONE
        BY <2>3, Frames
      <4> QED BY <3>1, <4>1, <4>2, <4>3, <4>4 DEF Translate, PdeOf, x
    <3>2. CASE p # page
      <4>1. mapped'[p] = mapped[p] /\ mapped[p] # NONE
        BY <2>1, <2>2, <3>2
      <4>2. Translate(tables, p) = mapped[p]
        BY <2>1, <4>1 DEF IInv, WalkInv
      <4>3. p \in 0 .. Entries * Entries - 1
        BY HeapPage
      <4> QED BY <1>2, <4>1, <4>2, <4>3, OthersStay
    <3> QED BY <3>1, <3>2
  <2> QED BY <2>5, <2>6, <2>7 DEF IInv
<1> QED BY <1>1, <1>2 DEF TablesNext

(* The directory stays as setup_page left it, and what has been mapped is   *)
(* found by the processor's walk, whatever the heap's size.                 *)
THEOREM DirectoryStays ==
    ASSUME KernelHeap
    PROVE  TablesSpec => []IInv
<1>1. TablesInit => IInv
  BY InitInv
<1>2. IInv /\ [TablesNext]_tablesVars => IInv'
  BY NextInv
<1> QED BY <1>1, <1>2, PTL DEF TablesSpec

(* pde_pointer and pte_pointer lead to the entries they are named after, for*)
(* every address and tables of any size (memory.c:259-381).                 *)
THEOREM PointersLead ==
    ASSUME KernelHeap
    PROVE  TablesSpec => []PointersReach
<1>1. IInv => PointersReach
  <2> SUFFICES ASSUME IInv, NEW page \in 0 .. Entries * Entries - 1
               PROVE  LET v == page * Entries
                      IN  /\ Where(tables, pde_pointer(v)) = <<Dir, page \div Entries>>
                          /\ Where(tables, pte_pointer(v))
                               = <<PdeOf(tables, page), page % Entries>>
    BY DEF PointersReach
  <2>1. tables[Dir] = PageDirectory
    BY DEF IInv, TablesInv
  <2> QED BY <2>1, Pointers DEF Where, PdeOf
<1> QED BY <1>1, DirectoryStays, PTL

(* Every page leads to the frame it was given, also after later mappings,   *)
(* and none of those frames holds a table (memory.c:382-429).               *)
THEOREM PagesMapped ==
    ASSUME KernelHeap
    PROVE  TablesSpec => []MappingMaps
<1>1. IInv => MappingMaps
  <2> SUFFICES ASSUME IInv, ~panic, NEW page \in MappedPages
               PROVE  /\ Translate(tables, page) = mapped[page]
                      /\ mapped[page] \notin
                            {tables[Dir][i] : i \in Index} \cup 0 .. Dir
    BY DEF MappingMaps
  <2>1. page \in Heap /\ mapped[page] # NONE
    BY DEF MappedPages
  <2>2. Translate(tables, page) = mapped[page]
    BY <2>1 DEF IInv, WalkInv
  <2>3. mapped[page] \in FirstFree .. next_free - 1 /\ tables[Dir] = PageDirectory
        /\ next_free \in Int
    BY <2>1, Frames DEF IInv, FramesInv, TablesInv
  <2>4. \A i \in Index : PageDirectory[i] # mapped[page]
    BY <2>3, Directory, Frames
  <2>5. mapped[page] \notin 0 .. Dir
    BY <2>3, Frames
  <2> QED BY <2>2, <2>3, <2>4, <2>5
<1> QED BY <1>1, DirectoryStays, PTL

(* A present entry never changes, so that the processor may go on using what*)
(* it has read once: the kernel executes no INVLPG.                         *)
THEOREM PresentEntriesStay ==
    ASSUME KernelHeap
    PROVE  TablesSpec => EntriesStay
<1>1. IInv /\ [TablesNext]_tablesVars =>
         [\A page \in 0 .. Entries * Entries - 1 :
             Translate(tables, page) # NONE =>
                 Translate(tables, page)' = Translate(tables, page)]_tablesVars
  BY OthersStay DEF TablesNext
<1> QED BY <1>1, DirectoryStays, PTL DEF TablesSpec, EntriesStay

-----------------------------------------------------------------------------
(* The ASSERT on the present bit *)

LEMMA AbsentInit ==
    ASSUME ClearedHeap, TablesInit
    PROVE  AbsentInv
<1>1. ~panic /\ tables[Dir] = PageDirectory
  BY InitInv DEF TablesInit, IInv, TablesInv
<1>2. PICK left \in [FirstTable .. LastFrame -> Leftover] :
         tables = [f \in Dir .. LastFrame |->
                   IF f = Dir THEN PageDirectory
                   ELSE [i \in Index |->
                            IF f = FirstTable /\ i < LowFrames THEN i ELSE left[f]]]
  BY DEF TablesInit
<1>3. ASSUME NEW page \in Heap
      PROVE  Translate(tables, page) = NONE
  <2> DEFINE i == page \div Entries
             x == page % Entries
             table == PageDirectory[i]
  <2>1. /\ page \in 0 .. Entries * Entries - 1 /\ i \in KernelEntry .. Entries - 2
        /\ table \in FirstTable .. FirstFree - 1
        /\ table = FirstTable + (i - KernelEntry) /\ x \in Index
    BY HeapPage DEF ClearedHeap
  <2>2. page = i * Entries + x /\ page >= KernelEntry * Entries + LowFrames
    BY <2>1, PageParts DEF ClearedHeap
  <2>3. table # NONE /\ table # Dir /\ table \in FirstTable .. LastFrame
        /\ table \in Dir .. LastFrame
    BY <2>1, Frames
  <2>4. left[table] = NONE
    BY <2>3 DEF ClearedHeap
  <2> HIDE DEF i, x
  <2>5. table = FirstTable => x >= LowFrames
    <3> SUFFICES ASSUME table = FirstTable PROVE x >= LowFrames
      OBVIOUS
    <3>1. i = KernelEntry
      BY <2>1, Frames
    <3> DEFINE first == KernelEntry * Entries
    <3>2. page = first + x /\ page >= first + LowFrames /\ first \in Nat
      BY <2>2, <3>1, Products, Frames
    <3> HIDE DEF first
    <3> QED BY <2>1, <3>2, PageTablesAssumption DEF Index
  <2> HIDE DEF table
  <2>6. tables[table][x] = NONE
    <3>1. tables[table] = [j \in Index |->
             IF table = FirstTable /\ j < LowFrames THEN j ELSE left[table]]
      BY <1>2, <2>3
    <3>2. ~(table = FirstTable /\ x < LowFrames)
      BY <2>1, <2>5, PageTablesAssumption DEF Index
    <3> QED BY <2>1, <2>4, <3>1, <3>2
  <2> QED BY <1>1, <2>6 DEF Translate, PdeOf, table, i, x
<1> QED BY <1>1, <1>3 DEF AbsentInv

LEMMA AbsentNext ==
    ASSUME ClearedHeap, IInv, AbsentInv, [TablesNext]_tablesVars
    PROVE  AbsentInv'
<1>1. CASE UNCHANGED tablesVars
  BY <1>1 DEF tablesVars, AbsentInv, Translate, PdeOf
<1>2. ASSUME NEW page \in Heap, MapPage(page)
      PROVE  AbsentInv'
  <2> DEFINE table == PageDirectory[page \div Entries]
             x == page % Entries
  <2>1. /\ ~panic /\ mapped[page] = NONE /\ next_free <= LastFrame
        /\ mapped' = [mapped EXCEPT ![page] = next_free]
        /\ panic' = (tables[table][x] # NONE)
        /\ tables' = IF tables[table][x] # NONE THEN tables
                  ELSE [tables EXCEPT ![table][x] = next_free]
    BY <1>2, MapStep DEF ClearedHeap
  <2>2. /\ tables[Dir] = PageDirectory /\ tables \in [Dir .. LastFrame -> [Index -> Value]]
        /\ mapped \in [Heap -> FirstFree .. next_free - 1 \cup {NONE}]
        /\ next_free \in Int
    BY Frames DEF IInv, TablesInv, FramesInv
  <2>3. Translate(tables, page) = NONE
    BY <2>1 DEF AbsentInv
  <2>4. /\ table \in FirstTable .. FirstFree - 1 /\ x \in Index
        /\ table \in Dir .. LastFrame /\ table # Dir /\ table # NONE
    BY HeapPage, Directory, Frames DEF ClearedHeap
  <2>5. tables[table][x] = NONE
    BY <2>2, <2>3, <2>4 DEF Translate, PdeOf
  <2>6. ASSUME NEW p \in Heap, mapped'[p] = NONE
        PROVE  Translate(tables', p) = NONE
    <3> DEFINE t == PageDirectory[p \div Entries]
               y == p % Entries
    <3>1. mapped[p] = NONE /\ p # page
      BY <2>1, <2>2, <2>6, Frames
    <3>2. Translate(tables, p) = NONE
      BY <3>1 DEF AbsentInv
    <3>3. /\ t \in FirstTable .. FirstFree - 1 /\ y \in Index
          /\ t \in Dir .. LastFrame /\ t # Dir /\ t # NONE
      BY HeapPage, Directory, Frames DEF ClearedHeap
    <3>4. tables[t][y] = NONE
      BY <2>2, <3>2, <3>3 DEF Translate, PdeOf
    <3>5. ~(t = table /\ y = x)
      <4>1. /\ t = FirstTable + (p \div Entries - KernelEntry)
            /\ table = FirstTable + (page \div Entries - KernelEntry)
            /\ p \div Entries \in KernelEntry .. Entries - 2
            /\ page \div Entries \in KernelEntry .. Entries - 2
            /\ p \in 0 .. Entries * Entries - 1 /\ page \in 0 .. Entries * Entries - 1
        BY HeapPage DEF ClearedHeap
      <4>2. /\ p = (p \div Entries) * Entries + y
            /\ page = (page \div Entries) * Entries + x
        BY <4>1, PageParts
      <4> DEFINE i == p \div Entries
                 j == page \div Entries
      <4>3. t = table => i = j
        <5> HIDE DEF i, j, t, table
        <5>1. t = FirstTable + (i - KernelEntry)
              /\ table = FirstTable + (j - KernelEntry)
              /\ i \in KernelEntry .. Entries - 2 /\ j \in KernelEntry .. Entries - 2
          BY <4>1 DEF i, j
        <5> QED BY <5>1, Frames
      <4> HIDE DEF t, table, x, y
      <4> QED BY <3>1, <4>2, <4>3
    <3> HIDE DEF t, table, x, y
    <3>6. tables'[t][y] = NONE /\ tables'[Dir] = PageDirectory
      BY <2>1, <2>2, <2>4, <2>5, <3>3, <3>4, <3>5
    <3> QED BY <3>6 DEF Translate, PdeOf, t, y
  <2> QED BY <2>1, <2>5, <2>6 DEF AbsentInv
<1> QED BY <1>1, <1>2 DEF TablesNext

(* The ASSERT of mapping_vaddr_to_pmem (memory.c:398-400) holds if the memory*)
(* of the tables was cleared, which setup_page leaves to the machine.       *)
THEOREM AssertHolds ==
    ASSUME ClearedHeap
    PROVE  TablesSpec => []PteAbsent
<1>1. TablesInit => IInv /\ AbsentInv
  BY InitInv, AbsentInit
<1>2. (IInv /\ AbsentInv) /\ [TablesNext]_tablesVars => (IInv /\ AbsentInv)'
  BY NextInv, AbsentNext DEF ClearedHeap
<1>3. AbsentInv => PteAbsent
  BY DEF AbsentInv, PteAbsent
<1> QED BY <1>1, <1>2, <1>3, PTL DEF TablesSpec
=============================================================================
