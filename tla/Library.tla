-------------------------------- MODULE Library -------------------------------
(***************************************************************************)
(* Callers of the library, as the tests of kernel/main.c are: bitmap_test  *)
(* sets and clears the bits of a bitmap with any content in the byte behind*)
(* it, string_test copies strings about in a memory with any content.      *)
(* main runs one of them.  What the callers of string.c owe is in the      *)
(* guards: strings end, destinations have room, a source is not overwritten*)
(* before it is read.                                                      *)
(***************************************************************************)
EXTENDS Bitmap, Strings, FiniteSets

CONSTANTS
    BitmapLen,            \* bitmap_bytes_len
    MaxCount,       \* bound: the longest row asked for
    Top             \* bound: the last address of the strings' memory

ASSUME LibraryAssumption ==
    /\ BitmapLen \in Nat \ {0} /\ MaxCount \in Nat \ {0} /\ Top \in Nat \ {0}

VARIABLES test, bits, memory, panicked

libraryVars == <<test, bits, memory, panicked>>

Size == BitmapLen * ByteBits
Address == 1 .. Top
Values == 0 .. ByteValues - 1

\* bitmap_init on memory that held anything
BitmapInit ==
    /\ test = "bitmap_test"
    /\ \E before \in SUBSET (0 .. Size + ByteBits - 1) :
          bits = bitmap_init(before, BitmapLen)
    /\ memory = [a \in {NULL} \cup Address |-> 0]

StringInit ==
    /\ test = "string_test"
    /\ bits = {}
    /\ \E content \in [Address -> Values] :
          memory = [a \in {NULL} \cup Address |->
                       IF a = NULL THEN 0 ELSE content[a]]

LibraryInit == panicked = FALSE /\ (BitmapInit \/ StringInit)

BitmapCall ==
    /\ test = "bitmap_test"
    /\ \/ \E i \in 0 .. Size - 1, v \in {0, 1} :
             bits' = bitmap_set(bits, i, v) /\ UNCHANGED panicked
       \/ panicked' = ScanPanics(bits, BitmapLen) /\ UNCHANGED bits
    /\ UNCHANGED <<test, memory>>

-----------------------------------------------------------------------------
(* Strings, by their definition rather than by the loops *)

Zeros(str) == {a \in str .. Top : memory[a] = 0}
IsString(str) == str \in Address /\ Zeros(str) # {}
End(str) == Least(Zeros(str))
Text(str) == str .. End(str) - 1
Length(str) == End(str) - str

\* size bytes from src to dst, both in memory and dst not in the unread rest
MayCopy(dst, src, size) ==
    /\ src + size - 1 <= Top
    /\ dst + size - 1 <= Top
    /\ dst \notin src + 1 .. src + size - 1

MayStrcpy(dst, src) == IsString(src) /\ MayCopy(dst, src, Length(src) + 1)

MayStrcat(dst, src) ==
    /\ IsString(dst)
    /\ MayStrcpy(End(dst), src)
    /\ End(dst) # src

\* A call that writes: it panics when one of its pointers is NULL.
Write(pointers, may, after) ==
    /\ IF Asserted(pointers)
       THEN may /\ memory' = after /\ UNCHANGED panicked
       ELSE panicked' = TRUE /\ UNCHANGED memory

StringCall ==
    /\ test = "string_test"
    /\ \E dst, src \in {NULL} \cup Address :
          \/ Write({dst, src}, MayStrcpy(dst, src), strcpy(memory, dst, src))
          \/ Write({dst, src}, MayStrcat(dst, src), strcat(memory, dst, src))
          \/ \E size \in 0 .. Top :
                Write({dst, src}, MayCopy(dst, src, size),
                      memcpy(memory, dst, src, size))
          \/ \E size \in 0 .. Top, value \in Values :
                Write({dst}, dst + size - 1 <= Top,
                      memset(memory, dst, value, size))
    /\ UNCHANGED <<test, bits>>

\* A call that only reads
StringRead ==
    /\ test = "string_test"
    /\ \E a, b \in {NULL} \cup Address :
          panicked' \in {~Asserted({a, b}), ~memcmp_asserted(a, b)}
    /\ UNCHANGED <<test, bits, memory>>

LibraryNext == ~panicked /\ (BitmapCall \/ StringCall \/ StringRead)

LibrarySpec == LibraryInit /\ [][LibraryNext]_libraryVars

-----------------------------------------------------------------------------
(* Correctness *)

(* bitmap_scan is first fit, whatever is in the bitmap and in the byte      *)
(* behind it (bitmap.c:47-110).                                             *)
ScanIsFirstFit == \A count \in 1..MaxCount : FirstFit(bits, BitmapLen, count)

(* The comment on bitmap_scan: a row of count bits of the bitmap            *)
(* (bitmap.c:42-44).                                                        *)
ScanStaysInside ==
    ~ScanPanics(bits, BitmapLen) =>
        \A count \in 1..MaxCount :
            LET start == bitmap_scan(bits, BitmapLen, count)
            IN  start # -1 => start + count <= Size

\* after has at dst what memory has at src, and the rest of memory as it was
Copied(after, dst, src, size) ==
    after = [a \in DOMAIN memory |->
                IF a \in dst .. dst + size - 1 THEN memory[src + a - dst]
                ELSE memory[a]]

\* after has value in size bytes from dst on, and the rest as it was
Filled(after, dst, value, size) ==
    after = [a \in DOMAIN memory |->
                IF a \in dst .. dst + size - 1 THEN value ELSE memory[a]]

(* A call that writes, of memset, memcpy, strcpy or strcat, leaves what it  *)
(* should at the destination and nothing else changed, also where a string  *)
(* is moved down over itself; and nothing is ever written through NULL      *)
(* (string.c:19-47,85-92,189-199).                                          *)
CopiesRight ==
    /\ memory[NULL] = 0
    /\ \A dst \in Address, value \in Values, size \in 0 .. Top :
          dst + size - 1 <= Top =>
             Filled(memset(memory, dst, value, size), dst, value, size)
    /\ \A dst, src \in Address :
          /\ MayStrcpy(dst, src) =>
                Copied(strcpy(memory, dst, src), dst, src, Length(src) + 1)
          /\ MayStrcat(dst, src) =>
                Copied(strcat(memory, dst, src), End(dst), src, Length(src) + 1)
          /\ \A size \in 0 .. Top :
                MayCopy(dst, src, size) =>
                   Copied(memcpy(memory, dst, src, size), dst, src, size)

\* The order of size bytes at a and b: that of the first in which they differ
Order(a, b, size) ==
    LET differ == {i \in 0 .. size - 1 : memory[a + i] # memory[b + i]}
        i      == Least(differ)
    IN  IF differ = {} THEN 0
        ELSE IF Char(memory[a + i]) < Char(memory[b + i]) THEN -1 ELSE 1

Found(str, chr) == {a \in Text(str) : memory[a] = chr}

\* As the comments promise them, for a character of ASCII
SearchRight(str, chr) ==
    LET found == Found(str, chr)
    IN  /\ strchr(memory, str, chr) = IF found = {} THEN NULL ELSE Least(found)
        /\ strrchr(memory, str, chr) =
              IF found = {} THEN NULL ELSE Greatest(found)
        /\ strchrs(memory, str, chr) = Cardinality(found)

StringOrder(a, b) == Order(a, b, 1 + Least({Length(a), Length(b)}))

\* 0 if the strings are equal, 1 if a is the greater one, and neither else
CompareRight(a, b) ==
    /\ strcmp(memory, a, b) = 0 <=> StringOrder(a, b) = 0
    /\ strcmp(memory, a, b) = 1 <=> StringOrder(a, b) = 1

(* The lengths, searches and comparisons of string.c give what the strings  *)
(* have: the length, the first and the last occurrence and the number of    *)
(* occurrences of a character of ASCII, whether two strings are equal or the*)
(* first is the greater one, and the order of two blocks                    *)
(* (string.c:59-75,100-180,207-222). What strcmp returns when the first     *)
(* string is the smaller one, and the characters from 0x80 on, are left to  *)
(* CommentsHold.                                                            *)
SearchesRight ==
    /\ \A str \in Address :
          IsString(str) =>
             /\ strlen(memory, str) = Length(str)
             /\ \A chr \in 0 .. ByteValues \div 2 - 1 : SearchRight(str, chr)
             /\ \A b \in Address : IsString(b) => CompareRight(str, b)
    /\ \A a, b \in Address :
          \A size \in 0 .. Top + 1 - Greatest({a, b}) :
             memcmp(memory, a, b, size) = Order(a, b, size)

(* The comments on the searches and on strcmp: every character is found and *)
(* a smaller string gives -1 (string.c:126-130,135-141,158-164,201-206).    *)
CommentsHold ==
    \A str \in Address :
       IsString(str) =>
          /\ \A chr \in Values :
                strchr(memory, str, chr) # NULL <=> Found(str, chr) # {}
          /\ \A b \in Address :
                IsString(b) => strcmp(memory, str, b) = StringOrder(str, b)
=============================================================================
