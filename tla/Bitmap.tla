-------------------------------- MODULE Bitmap -------------------------------
(***************************************************************************)
(* The operations of lib/kernel/bitmap.c.  A bitmap is the set of the      *)
(* indices whose bits are 1, together with a length in bytes; the set may  *)
(* hold indices behind the length, which stand for the bits of whatever    *)
(* lies behind the bitmap in memory.                                       *)
(***************************************************************************)
EXTENDS Integers

CONSTANT ByteBits       \* 8 in the code: bits of a byte

ASSUME BitmapAssumption == ByteBits \in Nat \ {0}

Least(S) == CHOOSE i \in S : \A j \in S : i <= j

Byte(b) == b * ByteBits .. (b + 1) * ByteBits - 1

\* bitmap_init: memset of the bitmap's own bytes
bitmap_init(bits, len) == bits \ (0 .. len * ByteBits - 1)

bitmap_scan_test(bits, bit_index) == bit_index \in bits

bitmap_set(bits, bit_index, value) ==
    IF value = 1 THEN bits \cup {bit_index} ELSE bits \ {bit_index}

-----------------------------------------------------------------------------
(* bitmap_scan *)

\* The first byte other than 0xff; len when every byte is 0xff.
FreeByte(bits, len) ==
    Least({b \in 0..len : b = len \/ ~(Byte(b) \subseteq bits)})

\* ASSERT(free_byte_index < btmp->bitmap_bytes_len)
ScanPanics(bits, len) == FreeByte(bits, len) = len

FreeBit(bits, len) == Least(Byte(FreeByte(bits, len)) \ bits)

Greatest(S) == CHOOSE i \in S : \A j \in S : i >= j

\* cnt when the loop has looked at bit i: it started at 1 for the first free
\* bit, goes up by 1 at a free bit and back to 0 at a used one.
Count(bits, first, i) ==
    i - Greatest({first - 1} \cup {j \in first..i : bitmap_scan_test(bits, j)})

\* Deliberate error: the loop ends one bit early.
LastLookedShort(len) == len * ByteBits - 2

\* The loop runs bit_remain times from the bit behind the first free one: the
\* last bit it looks at is the one with index 8 * bitmap_bytes_len.
LastLooked(len) == len * ByteBits

\* The result when the ASSERT holds
bitmap_scan(bits, len, count) ==
    LET first == FreeBit(bits, len)
        found == {i \in first + 1 .. LastLooked(len) :
                     Count(bits, first, i) = count}
    IN  IF count = 1 THEN first
        ELSE IF found = {} THEN -1
        ELSE Least(found) - count + 1

-----------------------------------------------------------------------------
(* What the header comment of bitmap_scan promises: the start of a row of   *)
(* count free bits, the first there is, or -1.                              *)

FreeRow(bits, start, count) == (start .. start + count - 1) \cap bits = {}

FirstRow(bits, size, count) ==
    LET rows == {s \in 0 .. size - count : FreeRow(bits, s, count)}
    IN  IF rows = {} THEN -1 ELSE Least(rows)

\* Where the bitmap has a row of count free bits, bitmap_scan returns the
\* first; where it has none, -1 or a free row that ends with the bit just
\* behind the bitmap; and it panics on a full bitmap only.
FirstFit(bits, len, count) ==
    LET size == len * ByteBits
        start == bitmap_scan(bits, len, count)
        first == FirstRow(bits, size, count)
    IN  /\ ScanPanics(bits, len) <=> 0 .. size - 1 \subseteq bits
        /\ ~ScanPanics(bits, len) =>
              IF first # -1 THEN start = first
              ELSE start # -1 => /\ start \in Nat /\ start = size + 1 - count
                                 /\ FreeRow(bits, start, count)
=============================================================================
