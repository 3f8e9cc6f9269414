-------------------------------- MODULE MCTests -------------------------------
(***************************************************************************)
(* The parts of the kernel that main tries out one at a time: main.c calls *)
(* string_test, bitmap_test or memory_test and leaves the others out.  The *)
(* models of these parts, of which memory_test has two, share no state, so *)
(* a behaviour is one of one of them and the others stay as they are.      *)
(***************************************************************************)
EXTENDS Library, Memory, PageTables

VARIABLE part       \* whose operations are called

vars == <<part, libraryVars, memoryVars, tablesVars>>

\* Of a part that is not used, one of the states it may begin in
Init ==
    /\ part \in {"library", "allocator", "tables"}
    /\ LibraryInit
    /\ part # "library" =>
          test = "string_test" /\ \A a \in Address : memory[a] = 1
    /\ MemoryInit
    /\ part # "allocator" => vaddr_bits = {}
    /\ TablesInit

Next ==
    /\ UNCHANGED part
    /\ \/ /\ part = "library" /\ LibraryNext
          /\ UNCHANGED <<memoryVars, tablesVars>>
       \/ /\ part = "allocator" /\ MemoryNext
          /\ UNCHANGED <<libraryVars, tablesVars>>
       \/ /\ part = "tables" /\ TablesNext
          /\ UNCHANGED <<libraryVars, memoryVars>>

Spec == Init /\ [][Next]_vars
=============================================================================
