-------------------------------- MODULE Strings ------------------------------
(***************************************************************************)
(* The functions of lib/string.c on a memory, which is a function from     *)
(* addresses to bytes.  A function that writes returns the memory it       *)
(* leaves.  A loop is a recursive function: of the rounds that are made, or *)
(* of where its pointer is.  A call whose ASSERT fails does not come so far:*)
(* see Asserted and memcmp_asserted.                                       *)
(***************************************************************************)
EXTENDS Integers

CONSTANT ByteValues     \* 256 in the code: values of a uint8_t

ASSUME StringsAssumption == ByteValues \in Nat \ {0} /\ ByteValues % 2 = 0

NULL == 0

\* What a char, which is signed, makes of a byte
Char(byte) == IF byte < ByteValues \div 2 THEN byte ELSE byte - ByteValues

\* A value returned as uint8_t
Uint8(value) == value % 256

\* ASSERT((dst_ != NULL) && (src_ != NULL)), or with one pointer
Asserted(pointers) == NULL \notin pointers

\* memcmp: ASSERT((a != NULL) || (b != NULL))
memcmp_asserted(a, b) == a # NULL \/ b # NULL

-----------------------------------------------------------------------------
(* Writing: the memory after some rounds of the loop *)

memset(m, dst, value, size) ==
    LET after[i \in 0 .. size] ==
            IF i = 0 THEN m ELSE [after[i - 1] EXCEPT ![dst + i - 1] = value]
    IN  after[size]

memcpy(m, dst, src, size) ==
    LET after[i \in 0 .. size] ==
            IF i = 0 THEN m
            ELSE LET before == after[i - 1]
                 IN  [before EXCEPT ![dst + i - 1] = before[src + i - 1]]
    IN  after[size]

\* Where a string may begin: no further than the last zero
Strings(m) == {p \in DOMAIN m : \E q \in DOMAIN m : p <= q /\ m[q] = 0}

\* Where the zero of the string is
Terminator(m, p) ==
    LET from[q \in Strings(m)] == IF m[q] = 0 THEN q ELSE from[q + 1]
    IN  from[p]

\* Deliberate error: the loop ends in front of the terminating zero.
strcpy_unterminated(m, dst, src) ==
    memcpy(m, dst, src, Terminator(m, src) - src)

\* The loop copies bytes until the one it has just copied is 0.
strcpy(m, dst, src) ==
    LET Ends(i) == memcpy(m, dst, src, i)[dst + i - 1] = 0
        rounds == CHOOSE i \in DOMAIN m \ {NULL} :
                      Ends(i) /\ \A j \in 1 .. i - 1 : ~Ends(j)
    IN  memcpy(m, dst, src, rounds)

\* Behind the string the loop of strcat is that of strcpy.
strcat(m, dst, src) == strcpy(m, Terminator(m, dst), src)

-----------------------------------------------------------------------------
(* Reading *)

strlen(m, str) == Terminator(m, str) - str

memcmp(m, a, b, size) ==
    LET from[i \in 0 .. size] ==
            IF i = size THEN 0
            ELSE IF m[a + i] # m[b + i]
                 THEN IF Char(m[a + i]) > Char(m[b + i]) THEN 1 ELSE -1
            ELSE from[i + 1]
    IN  from[0]

\* The loop ends with the shorter string at the latest.
strcmp(m, a, b) ==
    LET from[i \in {k \in 0 .. strlen(m, a) : k <= strlen(m, b)}] ==
            IF m[a + i] # 0 /\ m[a + i] = m[b + i] THEN from[i + 1]
            ELSE IF Char(m[a + i]) < Char(m[b + i]) THEN Uint8(-1)
            ELSE IF Char(m[a + i]) > Char(m[b + i]) THEN 1 ELSE 0
    IN  from[0]

\* The searches compare a char of the string with a uint8_t.
strchr(m, str, chr) ==
    LET from[p \in Strings(m)] ==
            IF m[p] = 0 THEN NULL
            ELSE IF Char(m[p]) = chr THEN p
            ELSE from[p + 1]
    IN  from[str]

\* Deliberate error: the first occurrence is kept.
strrchr_first(m, str, chr) ==
    LET last_char[p \in str .. Terminator(m, str)] ==
            IF p = str THEN NULL
            ELSE LET before == last_char[p - 1]
                 IN  IF Char(m[p - 1]) = chr /\ before = NULL
                     THEN p - 1 ELSE before
    IN  last_char[Terminator(m, str)]

\* last_char when the loop has come to p
strrchr(m, str, chr) ==
    LET last_char[p \in str .. Terminator(m, str)] ==
            IF p = str THEN NULL
            ELSE IF Char(m[p - 1]) = chr THEN p - 1 ELSE last_char[p - 1]
    IN  last_char[Terminator(m, str)]

\* char_count when the loop has come to p
strchrs(m, str, chr) ==
    LET char_count[p \in str .. Terminator(m, str)] ==
            IF p = str THEN 0
            ELSE char_count[p - 1] + (IF Char(m[p - 1]) = chr THEN 1 ELSE 0)
    IN  char_count[Terminator(m, str)]
=============================================================================
