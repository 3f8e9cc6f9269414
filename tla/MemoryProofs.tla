----------------------------- MODULE MemoryProofs -----------------------------
(***************************************************************************)
(* bitmap_scan finds the first row of free bits, in bitmaps of any length, *)
(* with bytes of any number of bits and whatever lies behind the bitmap;   *)
(* and what the page allocator promises when its calls do not overlap, for *)
(* pools of every size and any number of callers.                          *)
(***************************************************************************)
EXTENDS MemoryInv, WellFoundedInduction, TLAPS

-----------------------------------------------------------------------------
(* Least and greatest elements *)

LEMMA LeastNatural ==
    ASSUME NEW S \in SUBSET Nat, S # {}
    PROVE  Least(S) \in S /\ \A j \in S : Least(S) <= j
<1>1. PICK x \in S : \A y \in S : <<y, x>> \notin OpToRel(<, Nat)
  BY NatLessThanWellFounded, WFMin, Zenon
<1>2. \A y \in S : x <= y
  <2> SUFFICES ASSUME NEW y \in S PROVE x <= y
    OBVIOUS
  <2>1. y \in Nat /\ x \in Nat /\ ~(y < x)
    BY <1>1 DEF OpToRel
  <2> QED BY <2>1
<1>3. x \in S /\ \A y \in S : x <= y
  BY <1>2
<1> HIDE <1>1
<1> QED BY <1>3 DEF Least

LEMMA LeastIs ==
    ASSUME NEW S \in SUBSET Int, NEW x \in S, \A y \in S : x <= y
    PROVE  Least(S) = x
<1>1. Least(S) \in S /\ \A j \in S : Least(S) <= j
  BY DEF Least
<1>2. Least(S) \in Int /\ x \in Int /\ Least(S) <= x /\ x <= Least(S)
  BY <1>1
<1> QED BY <1>2

LEMMA GreatestBounded ==
    ASSUME NEW S \in SUBSET Int, S # {}, NEW m \in Int, \A j \in S : j <= m
    PROVE  Greatest(S) \in S /\ \A j \in S : Greatest(S) >= j
<1> DEFINE T == {n \in Nat : m - n \in S}
<1>1. T \in SUBSET Nat /\ T # {}
  <2>1. PICK j \in S : TRUE
    OBVIOUS
  <2>2. m - j \in T
    BY <2>1
  <2> QED BY <2>2
<1>2. PICK n \in T : \A k \in T : n <= k
  BY <1>1, LeastNatural
<1>3. m - n \in S /\ \A j \in S : m - n >= j
  <2>1. ASSUME NEW j \in S PROVE m - j \in T
    OBVIOUS
  <2> QED BY <1>2, <2>1
<1> QED BY <1>3 DEF Greatest

LEMMA GreatestIs ==
    ASSUME NEW S \in SUBSET Int, NEW x \in S, \A y \in S : x >= y
    PROVE  Greatest(S) = x
<1>1. Greatest(S) \in S /\ \A j \in S : Greatest(S) >= j
  BY DEF Greatest
<1>2. Greatest(S) \in Int /\ x \in Int /\ Greatest(S) >= x /\ x >= Greatest(S)
  BY <1>1
<1> QED BY <1>2

-----------------------------------------------------------------------------
(* Bytes *)

LEMMA ByteBounds ==
    ASSUME NEW b \in Nat
    PROVE  /\ b * ByteBits \in Nat
           /\ (b + 1) * ByteBits = b * ByteBits + ByteBits
           /\ Byte(b) = b * ByteBits .. b * ByteBits + ByteBits - 1
           /\ Byte(b) \subseteq Nat /\ b * ByteBits \in Byte(b)
           /\ b <= b * ByteBits
BY BitmapAssumption DEF Byte

LEMMA ByteOrder ==
    ASSUME NEW b \in Nat, NEW c \in Nat, b < c
    PROVE  (b + 1) * ByteBits <= c * ByteBits
BY BitmapAssumption

\* The bits of an earlier byte come first.
LEMMA InByte ==
    ASSUME NEW b \in Nat, NEW i \in Byte(b)
    PROVE  /\ i \in Nat
           /\ \A c \in Nat : c <= b => c * ByteBits <= i
           /\ \A c \in Nat : b < c => i < c * ByteBits
<1>1. b * ByteBits \in Nat /\ i \in b * ByteBits .. b * ByteBits + ByteBits - 1
      /\ (b + 1) * ByteBits = b * ByteBits + ByteBits
  BY ByteBounds
<1>2. i \in Nat /\ b * ByteBits <= i /\ i < b * ByteBits + ByteBits
  <2> DEFINE low == b * ByteBits
  <2>1. low \in Nat /\ i \in low .. low + ByteBits - 1
    BY <1>1
  <2> HIDE DEF low
  <2>2. i \in Nat /\ low <= i /\ i < low + ByteBits
    BY <2>1, BitmapAssumption
  <2> QED BY <2>2 DEF low
<1>3. ASSUME NEW c \in Nat, c <= b PROVE c * ByteBits <= i
  <2>1. c * ByteBits \in Nat /\ b * ByteBits \in Nat
    BY ByteBounds
  <2>2. c * ByteBits <= b * ByteBits
    BY <1>3, BitmapAssumption
  <2> QED BY <1>2, <2>1, <2>2
<1>4. ASSUME NEW c \in Nat, b < c PROVE i < c * ByteBits
  <2>1. c * ByteBits \in Nat /\ b * ByteBits \in Nat
    BY ByteBounds
  <2>2. b * ByteBits + ByteBits <= c * ByteBits
    BY <1>1, <1>4, ByteOrder
  <2> QED BY <1>2, <2>1, <2>2, BitmapAssumption
<1> QED BY <1>2, <1>3, <1>4

\* Every bit is in a byte.
LEMMA ByteOf ==
    ASSUME NEW i \in Nat
    PROVE  \E b \in Nat : i \in Byte(b)
<1> DEFINE S == {b \in Nat : i < (b + 1) * ByteBits}
<1>1. i \in S
  BY ByteBounds, BitmapAssumption
<1>2. PICK b \in S : \A c \in S : b <= c
  BY <1>1, LeastNatural
<1>3. b * ByteBits <= i
  <2>1. CASE b = 0
    BY <2>1, BitmapAssumption
  <2>2. CASE b # 0
    <3>1. b - 1 \in Nat /\ b - 1 \notin S /\ (b - 1) + 1 = b
      BY <1>2, <2>2
    <3>2. ~(i < b * ByteBits)
      BY <3>1
    <3> QED BY <3>2, ByteBounds
  <2> QED BY <2>1, <2>2
<1>4. i \in Byte(b)
  <2>1. b \in Nat /\ i < (b + 1) * ByteBits
    BY <1>2
  <2>2. i \in b * ByteBits .. b * ByteBits + ByteBits - 1
    BY <1>3, <2>1, ByteBounds, BitmapAssumption
  <2> QED BY <2>1, <2>2, ByteBounds
<1> QED BY <1>4

-----------------------------------------------------------------------------
(* The first free bit *)

LEMMA FreeByteIs ==
    ASSUME NEW bits, NEW len \in Nat
    PROVE  /\ FreeByte(bits, len) \in 0..len
           /\ FreeByte(bits, len) = len
                \/ ~(Byte(FreeByte(bits, len)) \subseteq bits)
           /\ \A b \in Nat : b < FreeByte(bits, len) => Byte(b) \subseteq bits
<1> DEFINE S == {b \in 0..len : b = len \/ ~(Byte(b) \subseteq bits)}
<1>1. S \in SUBSET Nat /\ len \in S
  OBVIOUS
<1>2. FreeByte(bits, len) \in S /\ \A j \in S : FreeByte(bits, len) <= j
  BY <1>1, LeastNatural DEF FreeByte
<1> QED BY <1>2

LEMMA PanicsWhenFull ==
    ASSUME NEW bits, NEW len \in Nat
    PROVE  ScanPanics(bits, len) <=> 0 .. len * ByteBits - 1 \subseteq bits
<1> DEFINE fb == FreeByte(bits, len)
<1>1. /\ fb \in 0..len
      /\ fb = len \/ ~(Byte(fb) \subseteq bits)
      /\ \A b \in Nat : b < fb => Byte(b) \subseteq bits
  BY FreeByteIs
<1>2. ScanPanics(bits, len) <=> fb = len
  BY DEF ScanPanics
<1> HIDE DEF fb
<1>3. ASSUME fb = len, NEW i \in 0 .. len * ByteBits - 1 PROVE i \in bits
  <2>1. PICK b \in Nat : i \in Byte(b)
    BY <1>3, ByteOf, ByteBounds
  <2>2. b < len
    <3> SUFFICES ASSUME len <= b PROVE FALSE
      BY <2>1
    <3>1. len * ByteBits \in Nat /\ i < len * ByteBits
      BY <1>3, ByteBounds
    <3>2. len * ByteBits <= i /\ i \in Nat
      BY <2>1, InByte
    <3> QED BY <3>1, <3>2
  <2> QED BY <1>1, <1>3, <2>1, <2>2
<1>4. ASSUME fb # len PROVE ~(0 .. len * ByteBits - 1 \subseteq bits)
  <2>1. fb \in Nat /\ fb < len
    BY <1>1, <1>4
  <2>2. ASSUME NEW i \in Byte(fb) PROVE i \in 0 .. len * ByteBits - 1
    <3>1. i \in Nat /\ i < len * ByteBits /\ len * ByteBits \in Nat
      BY <2>1, InByte, ByteBounds
    <3> QED BY <3>1
  <2>3. Byte(fb) \subseteq 0 .. len * ByteBits - 1
    BY <2>2
  <2> QED BY <1>1, <1>4, <2>3
<1> QED BY <1>2, <1>3, <1>4

LEMMA FreeBitIs ==
    ASSUME NEW bits, NEW len \in Nat, ~ScanPanics(bits, len)
    PROVE  /\ FreeBit(bits, len) \in 0 .. len * ByteBits - 1
           /\ FreeBit(bits, len) \notin bits
           /\ \A i \in 0 .. FreeBit(bits, len) - 1 : i \in bits
<1> DEFINE fb == FreeByte(bits, len)
           f == FreeBit(bits, len)
<1>1. /\ fb \in 0..len /\ fb # len
      /\ ~(Byte(fb) \subseteq bits)
      /\ \A b \in Nat : b < fb => Byte(b) \subseteq bits
  BY FreeByteIs DEF ScanPanics
<1>2. f = Least(Byte(fb) \ bits)
  BY DEF FreeBit
<1> HIDE DEF fb, f
<1>3. fb \in Nat /\ fb < len
  BY <1>1
<1>4. Byte(fb) \ bits \in SUBSET Nat /\ Byte(fb) \ bits # {}
  BY <1>1, <1>3, ByteBounds
<1>5. f \in Byte(fb) \ bits /\ \A j \in Byte(fb) \ bits : f <= j
  BY <1>2, <1>4, LeastNatural
<1>6. f \in 0 .. len * ByteBits - 1
  <2>1. f \in Nat /\ f < len * ByteBits /\ len * ByteBits \in Nat
    BY <1>3, <1>5, InByte, ByteBounds
  <2> QED BY <2>1
<1>7. ASSUME NEW i \in 0 .. f - 1 PROVE i \in bits
  <2>1. PICK b \in Nat : i \in Byte(b)
    BY <1>6, ByteOf
  <2>2. b <= fb
    <3> SUFFICES ASSUME fb < b PROVE FALSE
      BY <1>3, <2>1
    <3>1. b * ByteBits \in Nat /\ f \in Nat /\ f < b * ByteBits
      BY <1>3, <1>5, InByte, ByteBounds
    <3>2. i \in Nat /\ b * ByteBits <= i
      BY <2>1, InByte
    <3> QED BY <3>1, <3>2
  <2>3. CASE b = fb
    BY <1>5, <1>6, <2>1, <2>3
  <2>4. CASE b < fb
    BY <1>1, <2>1, <2>4
  <2> QED BY <1>3, <2>2, <2>3, <2>4
<1> QED BY <1>5, <1>6, <1>7 DEF f

-----------------------------------------------------------------------------
(* Rows of free bits *)

\* The loop's count reaches count behind a row of as many free bits that
\* begins with the first free bit or after a used one.
LEMMA CountIs ==
    ASSUME NEW bits, NEW first \in Nat, NEW i \in Nat, first <= i,
           NEW count \in Nat \ {0}
    PROVE  Count(bits, first, i) = count <=>
             /\ i - count >= first - 1
             /\ i - count = first - 1 \/ i - count \in bits
             /\ FreeRow(bits, i - count + 1, count)
<1> DEFINE S == {first - 1} \cup {j \in first..i : j \in bits}
           g == Greatest(S)
<1>1. S \in SUBSET Int /\ S # {} /\ \A j \in S : j <= i
  OBVIOUS
<1>2. g \in S /\ \A j \in S : g >= j
  BY SMTT(30), <1>1, GreatestBounded
<1>3. Count(bits, first, i) = i - g
  BY DEF Count, bitmap_scan_test
<1>4. ASSUME i - count = g
      PROVE  /\ i - count >= first - 1
             /\ i - count = first - 1 \/ i - count \in bits
             /\ FreeRow(bits, i - count + 1, count)
  <2> HIDE DEF g
  <2>1. g \in Int /\ g >= first - 1 /\ (g = first - 1 \/ g \in bits)
    BY <1>1, <1>2
  <2>2. ASSUME NEW j \in i - count + 1 .. i - count + 1 + count - 1, j \in bits
        PROVE  FALSE
    <3>1. j \in Int /\ j > g /\ j <= i
      BY <1>4, <2>1
    <3>2. j \in S
      BY <2>1, <2>2, <3>1
    <3> QED BY <1>2, <2>1, <3>1, <3>2
  <2> QED BY <1>4, <2>1, <2>2 DEF FreeRow
<1>5. ASSUME i - count >= first - 1,
             i - count = first - 1 \/ i - count \in bits,
             FreeRow(bits, i - count + 1, count)
      PROVE  g = i - count
  <2>1. i - count \in S
    BY <1>5
  <2>2. ASSUME NEW j \in S PROVE i - count >= j
    <3> SUFFICES ASSUME j > i - count PROVE FALSE
      BY <1>1
    <3>1. j \in i - count + 1 .. i - count + 1 + count - 1 /\ j \in bits
      BY <1>5, <2>2
    <3> QED BY <1>5, <3>1 DEF FreeRow
  <2> QED BY <1>1, <2>1, <2>2, GreatestIs
<1>6. g \in Int
  BY <1>1, <1>2
<1> HIDE DEF g
<1> QED BY <1>3, <1>4, <1>5, <1>6

LEMMA FirstRowIs ==
    ASSUME NEW bits, NEW size \in Nat, NEW count \in Nat \ {0}
    PROVE  LET first == FirstRow(bits, size, count)
           IN  /\ first = -1 =>
                    \A s \in 0 .. size - count : ~FreeRow(bits, s, count)
               /\ first # -1 =>
                    /\ first \in 0 .. size - count
                    /\ FreeRow(bits, first, count)
                    /\ \A s \in 0 .. size - count :
                          FreeRow(bits, s, count) => first <= s
<1> DEFINE rows == {s \in 0 .. size - count : FreeRow(bits, s, count)}
<1>1. FirstRow(bits, size, count) = IF rows = {} THEN -1 ELSE Least(rows)
  BY DEF FirstRow
<1>2. rows # {} => Least(rows) \in rows /\ \A j \in rows : Least(rows) <= j
  <2>1. rows \in SUBSET Nat
    OBVIOUS
  <2> QED BY <2>1, LeastNatural
<1>3. CASE rows = {}
  BY <1>1, <1>3
<1>4. CASE rows # {}
  <2> DEFINE r == Least(rows)
  <2>1. r \in rows /\ \A j \in rows : r <= j
    BY <1>2, <1>4
  <2>2. FirstRow(bits, size, count) = r
    BY <1>1, <1>4
  <2> HIDE DEF r
  <2>3. r # -1
    BY <2>1
  <2> QED BY <2>1, <2>2, <2>3
<1> QED BY <1>3, <1>4

(* bitmap_scan is first fit (bitmap.c:47-110), for bitmaps of every length  *)
(* and content, rows of every length, and whatever is behind the bitmap.    *)
THEOREM ScanFirstFit ==
    ASSUME NEW bits, NEW len \in Nat, NEW count \in Nat \ {0}
    PROVE  FirstFit(bits, len, count)
<1> DEFINE size == len * ByteBits
           start == bitmap_scan(bits, len, count)
           first == FirstRow(bits, size, count)
           f == FreeBit(bits, len)
           found == {i \in f + 1 .. size : Count(bits, f, i) = count}
<1>1. size \in Nat
  BY ByteBounds
<1>2. ScanPanics(bits, len) <=> 0 .. size - 1 \subseteq bits
  BY PanicsWhenFull
<1>3. /\ first = -1 => \A s \in 0 .. size - count : ~FreeRow(bits, s, count)
      /\ first # -1 => /\ first \in 0 .. size - count
                       /\ FreeRow(bits, first, count)
                       /\ \A s \in 0 .. size - count :
                             FreeRow(bits, s, count) => first <= s
  BY <1>1, FirstRowIs
<1>4. ASSUME ~ScanPanics(bits, len)
      PROVE  IF first # -1 THEN start = first
             ELSE start # -1 => /\ start \in Nat /\ start = size + 1 - count
                                /\ FreeRow(bits, start, count)
  <2>1. f \in 0 .. size - 1 /\ f \notin bits /\ \A i \in 0 .. f - 1 : i \in bits
    BY <1>4, FreeBitIs
  <2>2. start = IF count = 1 THEN f
                ELSE IF found = {} THEN -1 ELSE Least(found) - count + 1
    BY DEF bitmap_scan, LastLooked
  <2> HIDE DEF size, start, first, f
  <2>3. CASE count = 1
    <3>1. \A s \in Int : FreeRow(bits, s, count) <=> s \notin bits
      BY <2>3 DEF FreeRow
    <3>2. first # -1 /\ first <= f
      BY <1>1, <1>3, <2>1, <2>3, <3>1
    <3>3. first \in 0 .. size - 1 /\ first \notin bits
      BY <1>1, <1>3, <2>3, <3>1, <3>2
    <3>4. f <= first
      BY <2>1, <3>3
    <3> QED BY <2>1, <2>2, <2>3, <3>2, <3>3, <3>4
  <2>4. CASE count # 1
    <3>1. ASSUME NEW i \in found
          PROVE  /\ i \in 0 .. size /\ i - count + 1 \in Nat
                 /\ FreeRow(bits, i - count + 1, count)
      <4>1. i \in Nat /\ f \in Nat /\ f <= i /\ i <= size
            /\ Count(bits, f, i) = count
        BY <1>1, <2>1
      <4>2. i - count >= f - 1 /\ FreeRow(bits, i - count + 1, count)
        BY <4>1, CountIs
      <4> QED BY <1>1, <4>1, <4>2
    <3>2. CASE first # -1
      <4> DEFINE i == first + count - 1
      <4>1. /\ first \in 0 .. size - count /\ FreeRow(bits, first, count)
            /\ \A s \in 0 .. size - count :
                  FreeRow(bits, s, count) => first <= s
        BY <1>3, <3>2
      <4>2. first >= f
        <5>1. first \notin bits
          BY <1>1, <4>1 DEF FreeRow
        <5> QED BY <1>1, <2>1, <4>1, <5>1
      <4>3. i \in f + 1 .. size - 1 /\ i \in Nat /\ i - count = first - 1
            /\ i - count + 1 = first
        BY <1>1, <2>1, <2>4, <4>1, <4>2
      <4>4. first - 1 = f - 1 \/ first - 1 \in bits
        <5> SUFFICES ASSUME first # f, first - 1 \notin bits PROVE FALSE
          BY <4>1, <2>1
        <5>1. first - 1 \in 0 .. size - count
          BY <1>1, <2>1, <4>1, <4>2
        <5>2. FreeRow(bits, first - 1, count)
          BY <1>1, <4>1 DEF FreeRow
        <5> QED BY <1>1, <4>1, <5>1, <5>2
      <4>5. i \in found
        <5> HIDE DEF i
        <5>1. f \in Nat /\ i \in Nat /\ f <= i
          BY <1>1, <2>1, <4>3
        <5>2. i - count >= f - 1 /\ (i - count = f - 1 \/ i - count \in bits)
              /\ FreeRow(bits, i - count + 1, count)
          BY <2>1, <4>1, <4>2, <4>3, <4>4
        <5>3. Count(bits, f, i) = count
          BY <5>1, <5>2, CountIs
        <5> QED BY <1>1, <4>3, <5>3
      <4>6. \A j \in found : i <= j
        <5> SUFFICES ASSUME NEW j \in found PROVE i <= j
          OBVIOUS
        <5>1. CASE j = size
          BY <1>1, <4>3, <5>1
        <5>2. CASE j # size
          <6>1. j - count + 1 \in 0 .. size - count
                /\ FreeRow(bits, j - count + 1, count) /\ j \in Nat
            BY <1>1, <3>1, <5>2
          <6> QED BY <1>1, <4>1, <6>1
        <5> QED BY <5>1, <5>2
      <4>7. Least(found) = i
        <5>1. found \in SUBSET Int
          BY <1>1, <2>1
        <5> HIDE DEF found, i
        <5> QED BY <4>5, <4>6, <5>1, LeastIs
      <4> QED BY <2>2, <2>4, <3>2, <4>1, <4>5, <4>7
    <3>3. CASE first = -1
      <4>1. ASSUME NEW i \in found PROVE i = size
        BY <1>1, <1>3, <3>1, <3>3
      <4>2. CASE found = {}
        BY <2>2, <2>4, <3>3, <4>2
      <4>3. CASE found # {}
        <5>1. size \in found /\ \A j \in found : size <= j
          BY <1>1, <4>1, <4>3
        <5>2. Least(found) = size
          <6>1. found \in SUBSET Int
            BY <1>1, <2>1
          <6> HIDE DEF found
          <6> QED BY <5>1, <6>1, LeastIs
        <5>3. start = size - count + 1 /\ start \in Nat
              /\ FreeRow(bits, start, count)
          BY <2>2, <2>4, <3>1, <4>3, <5>1, <5>2
        <5> QED BY <1>1, <3>3, <5>3
      <4> QED BY <4>2, <4>3
    <3> QED BY <3>2, <3>3
  <2> QED BY <2>3, <2>4
<1> QED BY <1>2, <1>4 DEF FirstFit

-----------------------------------------------------------------------------
(* The pools *)

LEMMA PoolSizeIs == PoolSize \in Nat /\ PoolSize >= 1
<1>1. PoolBytes \in Nat /\ PoolBytes >= 1 /\ ByteBits \in Nat /\ ByteBits >= 1
  BY MemoryAssumption, BitmapAssumption
<1>2. PoolBytes * ByteBits \in Nat /\ PoolBytes <= PoolBytes * ByteBits
  BY <1>1, ByteBounds
<1> QED BY <1>1, <1>2 DEF PoolSize

-----------------------------------------------------------------------------
(* Scans of a bitmap whose first m bits are the used ones of the pool *)

LEMMA ScanPrefix ==
    ASSUME NEW bits, NEW m \in 0..PoolSize, NEW count \in Nat \ {0},
           \A p \in Frame : p \in bits <=> p < m
    PROVE  /\ ScanPanics(bits, PoolBytes) <=> m = PoolSize
           /\ ~ScanPanics(bits, PoolBytes) =>
                LET start == bitmap_scan(bits, PoolBytes, count)
                IN  /\ start = -1 => /\ FirstRow(bits, PoolSize, count) = -1
                                     /\ count > 1
                    /\ start # -1 => start = m /\ m + count <= PoolSize + 1
<1> DEFINE size == PoolBytes * ByteBits
           start == bitmap_scan(bits, PoolBytes, count)
           first == FirstRow(bits, size, count)
<1>1. size \in Nat /\ size >= 1 /\ size = PoolSize
  BY PoolSizeIs DEF PoolSize
<1>2. PoolBytes \in Nat
  BY MemoryAssumption
<1>3. /\ ScanPanics(bits, PoolBytes) <=> 0 .. size - 1 \subseteq bits
      /\ ~ScanPanics(bits, PoolBytes) =>
            IF first # -1 THEN start = first
            ELSE start # -1 => /\ start \in Nat /\ start = size + 1 - count
                               /\ FreeRow(bits, start, count)
  BY <1>2, ScanFirstFit DEF FirstFit
<1>4. /\ first = -1 => \A s \in 0 .. size - count : ~FreeRow(bits, s, count)
      /\ first # -1 => /\ first \in 0 .. size - count
                       /\ FreeRow(bits, first, count)
                       /\ \A s \in 0 .. size - count :
                             FreeRow(bits, s, count) => first <= s
  BY <1>1, FirstRowIs
<1> HIDE DEF size, start, first
<1>5. m \in Nat /\ m <= size /\ \A p \in 0 .. size - 1 : p \in bits <=> p < m
  BY <1>1 DEF Frame
<1>6. ScanPanics(bits, PoolBytes) <=> m = size
  BY <1>1, <1>3, <1>5
<1>7. \A s \in Nat : s <= size /\ s < m => ~FreeRow(bits, s, count)
  <2> SUFFICES ASSUME NEW s \in Nat, s <= size, s < m
               PROVE  ~FreeRow(bits, s, count)
    OBVIOUS
  <2>1. s \in bits /\ s \in s .. s + count - 1
    BY <1>1, <1>5
  <2> QED BY <2>1 DEF FreeRow
<1>8. m + count <= size => FreeRow(bits, m, count)
  BY <1>1, <1>5 DEF FreeRow
<1>9. ASSUME ~ScanPanics(bits, PoolBytes), start = -1
      PROVE  first = -1 /\ count > 1
  <2>1. first = -1
    BY <1>1, <1>3, <1>4, <1>9
  <2>2. ~(m + count <= size)
    BY <1>1, <1>4, <1>5, <1>8, <2>1
  <2> QED BY <1>1, <1>5, <1>6, <1>9, <2>1, <2>2
<1>10. ASSUME ~ScanPanics(bits, PoolBytes), start # -1
       PROVE  start = m /\ m + count <= size + 1
  <2>1. CASE first # -1
    <3>1. start = first /\ first \in Nat /\ first + count <= size
          /\ FreeRow(bits, first, count)
      BY <1>1, <1>3, <1>4, <1>10, <2>1
    <3>2. m <= first
      BY <1>1, <1>5, <1>7, <3>1
    <3>3. first <= m
      BY <1>1, <1>4, <1>5, <1>8, <2>1, <3>1, <3>2
    <3> QED BY <1>1, <1>5, <3>1, <3>2, <3>3
  <2>2. CASE first = -1
    <3>1. start \in Nat /\ start = size + 1 - count
          /\ FreeRow(bits, start, count)
      BY <1>3, <1>10, <2>2
    <3>2. m <= start
      BY <1>1, <1>5, <1>7, <3>1
    <3>3. ~(m + count <= size)
      BY <1>1, <1>4, <1>5, <1>8, <2>2
    <3> QED BY <1>1, <1>5, <3>1, <3>2, <3>3
  <2> QED BY <2>1, <2>2
<1> QED BY <1>1, <1>6, <1>9, <1>10 DEF start, first

-----------------------------------------------------------------------------
(* The only caller that is not idle *)

LEMMA Alone ==
    ASSUME OneAtATime, NEW c \in Caller, MayRun(c)
    PROVE  \A d \in Caller : d # c => call[d] = Idle
BY DEF OneAtATime, MayRun

LEMMA AloneTakes ==
    ASSUME NEW c \in Caller, \A d \in Caller : d # c => call[d] = Idle
    PROVE  /\ Claimed = IF call[c].pc = "mapping" THEN {call[c].frame} ELSE {}
           /\ Mappers = IF call[c].pc \in RowTaken THEN {c} ELSE {}
<1>1. \A d \in Caller : d # c => call[d].pc = "idle"
  BY DEF Idle
<1> QED BY <1>1 DEF Claimed, Mappers, RowTaken

LEMMA AloneTakesNext ==
    ASSUME NEW c \in Caller, \A d \in Caller : d # c => call'[d] = Idle
    PROVE  /\ Claimed' = IF call'[c].pc = "mapping" THEN {call'[c].frame} ELSE {}
           /\ Mappers' = IF call'[c].pc \in RowTaken THEN {c} ELSE {}
<1>1. \A d \in Caller : d # c => call'[d].pc = "idle"
  BY DEF Idle
<1> QED BY <1>1 DEF Claimed, Mappers, RowTaken

\* What IInv says before a step of c
LEMMA Before ==
    ASSUME OneAtATime, IInv, NEW c \in Caller, MayRun(c)
    PROVE  \E m \in 0..PoolSize :
              /\ \A d \in Caller : d # c => call[d] = Idle
              /\ CallerInv(call[c], m)
              /\ pte = [p \in Page |-> IF p < m THEN p ELSE NO_FRAME]
              /\ pmem_bits = 0 .. m - 1 \cup
                    IF call[c].pc = "mapping" THEN {call[c].frame} ELSE {}
              /\ \A p \in Frame : p \in vaddr_bits <=>
                    p < m \/ (call[c].pc \in RowTaken /\ p \in Row(c))
              /\ \A a, b \in Caller : a # b => granted[a] \cap granted[b] = {}
              /\ \A a \in Caller : \A p \in granted[a] :
                    p < m /\ (call[c].pc \in RowTaken => p < call[c].vaddr)
<1>1. PICK m \in 0..PoolSize : /\ PoolInv(m) /\ GrantInv(m)
                               /\ \A d \in Caller : CallerInv(call[d], m)
  BY DEF IInv
<1>2. \A d \in Caller : d # c => call[d] = Idle
  BY Alone
<1>3. /\ Claimed = IF call[c].pc = "mapping" THEN {call[c].frame} ELSE {}
      /\ Mappers = IF call[c].pc \in RowTaken THEN {c} ELSE {}
  BY <1>2, AloneTakes
<1>4. /\ pte = [p \in Page |-> IF p < m THEN p ELSE NO_FRAME]
      /\ pmem_bits = 0 .. m - 1 \cup
            IF call[c].pc = "mapping" THEN {call[c].frame} ELSE {}
  BY <1>1, <1>3, Zenon DEF PoolInv
<1>5. \A p \in Frame : p \in vaddr_bits <=>
         p < m \/ (call[c].pc \in RowTaken /\ p \in Row(c))
  BY <1>1, <1>3 DEF PoolInv
<1>6. /\ \A a, b \in Caller : a # b => granted[a] \cap granted[b] = {}
      /\ \A a \in Caller : \A p \in granted[a] :
            p < m /\ (call[c].pc \in RowTaken => p < call[c].vaddr)
  BY <1>1, <1>3 DEF GrantInv
<1> QED BY <1>1, <1>2, <1>4, <1>5, <1>6

\* What makes IInv hold behind a step of c
LEMMA After ==
    ASSUME NEW c \in Caller, NEW m \in 0..PoolSize, TypeOK',
           \A d \in Caller : d # c => call'[d] = Idle,
           CallerInv(call'[c], m),
           pte' = [p \in Page |-> IF p < m THEN p ELSE NO_FRAME],
           pmem_bits' = 0 .. m - 1 \cup
              IF call'[c].pc = "mapping" THEN {call'[c].frame} ELSE {},
           \A p \in Frame : p \in vaddr_bits' <=>
              p < m \/ (call'[c].pc \in RowTaken /\ p \in Row(c)'),
           \A a, b \in Caller : a # b => granted'[a] \cap granted'[b] = {},
           \A a \in Caller : \A p \in granted'[a] :
              p < m /\ (call'[c].pc \in RowTaken => p < call'[c].vaddr)
    PROVE  IInv'
<1>1. /\ Claimed' = IF call'[c].pc = "mapping" THEN {call'[c].frame} ELSE {}
      /\ Mappers' = IF call'[c].pc \in RowTaken THEN {c} ELSE {}
  BY AloneTakesNext
<1>2. PoolInv(m)'
  <2>1. pmem_bits' = 0 .. m - 1 \cup Claimed'
    BY <1>1
  <2>2. \A p \in Frame : p \in vaddr_bits' <=>
           p < m \/ \E d \in Mappers' : p \in Row(d)'
    BY <1>1
  <2> QED BY <2>1, <2>2 DEF PoolInv
<1>3. GrantInv(m)'
  BY <1>1 DEF GrantInv
<1>4. \A d \in Caller : CallerInv(call'[d], m)
  BY DEF CallerInv, Idle, RowTaken
<1>5. \A a, b \in Caller : a # b => call'[a] = Idle \/ call'[b] = Idle
  OBVIOUS
<1> QED BY <1>2, <1>3, <1>4, <1>5 DEF IInv

-----------------------------------------------------------------------------
(* The steps *)

\* The typing of call, as TypeOK has it
CallType ==
    [pc : {"idle", "vaddr_scan", "vaddr_set", "palloc_scan",
           "palloc_set", "mapping"},
     vaddr : Page, page_count : 0..MaxRequest, mapped : 0..MaxRequest - 1,
     frame : Frame]

LEMMA IdleType == Idle \in CallType
BY PoolSizeIs, MemoryAssumption DEF Idle, CallType, Page, Frame

LEMMA GetKernelPagesInv ==
    ASSUME OneAtATime, IInv, NEW c \in Caller, NEW page_count \in 1..MaxRequest,
           GetKernelPages(c, page_count)
    PROVE  IInv'
<1> DEFINE n == [Idle EXCEPT !.pc = "vaddr_scan", !.page_count = page_count]
<1>1. /\ MayRun(c) /\ call[c].pc = "idle"
      /\ call' = [call EXCEPT ![c] = n]
      /\ UNCHANGED <<vaddr_bits, pmem_bits, pte, granted, malloc_panic>>
  BY DEF GetKernelPages, CallerAt
<1>2. TypeOK /\ call \in [Caller -> CallType]
  BY DEF IInv, TypeOK, CallType
<1>3. n \in CallType /\ n.pc = "vaddr_scan" /\ n.page_count = page_count
      /\ n.mapped = 0
  <2>1. page_count \in 0..MaxRequest /\ MaxRequest \in Nat
    BY MemoryAssumption
  <2> DEFINE k == Idle
  <2>2. k \in CallType /\ k.mapped = 0
    BY IdleType DEF Idle
  <2> HIDE DEF k
  <2>3. [k EXCEPT !.pc = "vaddr_scan", !.page_count = page_count] \in CallType
    BY <2>1, <2>2 DEF CallType
  <2>4. /\ n = [k EXCEPT !.pc = "vaddr_scan", !.page_count = page_count]
        /\ n.pc = "vaddr_scan" /\ n.page_count = page_count /\ n.mapped = 0
    BY <2>2 DEF CallType, k
  <2> QED BY <2>3, <2>4
<1> HIDE DEF n
<1>4. call'[c] = n /\ \A d \in Caller : d # c => call'[d] = call[d]
  BY <1>1, <1>2
<1>5. TypeOK'
  <2>1. call' \in [Caller -> CallType]
    BY <1>1, <1>2, <1>3
  <2> QED BY <1>1, <1>2, <2>1 DEF TypeOK, CallType
<1>6. PICK m \in 0..PoolSize :
         /\ \A d \in Caller : d # c => call[d] = Idle
         /\ pte = [p \in Page |-> IF p < m THEN p ELSE NO_FRAME]
         /\ pmem_bits = 0 .. m - 1 \cup
               IF call[c].pc = "mapping" THEN {call[c].frame} ELSE {}
         /\ \A p \in Frame : p \in vaddr_bits <=>
               p < m \/ (call[c].pc \in RowTaken /\ p \in Row(c))
         /\ \A a, b \in Caller : a # b => granted[a] \cap granted[b] = {}
         /\ \A a \in Caller : \A p \in granted[a] : p < m
  BY <1>1, Before
<1>7. CallerInv(call'[c], m)
  BY <1>3, <1>4 DEF CallerInv, RowTaken
<1>8. call[c].pc \notin RowTaken /\ call'[c].pc \notin RowTaken
  BY <1>1, <1>3, <1>4 DEF RowTaken
<1>9. pmem_bits' = 0 .. m - 1 \cup
         IF call'[c].pc = "mapping" THEN {call'[c].frame} ELSE {}
  BY <1>1, <1>3, <1>4, <1>6
<1> QED BY <1>1, <1>4, <1>5, <1>6, <1>7, <1>8, <1>9, After

LEMMA VaddrScanInv ==
    ASSUME OneAtATime, IInv, NEW c \in Caller, VaddrScan(c)
    PROVE  IInv'
<1> DEFINE k == call[c]
           start == bitmap_scan(vaddr_bits, PoolBytes, k.page_count)
           n == call'[c]
<1>1. /\ MayRun(c) /\ k.pc = "vaddr_scan"
      /\ UNCHANGED <<vaddr_bits, pmem_bits, pte, granted>>
  BY DEF VaddrScan, CallerAt
<1>2. TypeOK /\ call \in [Caller -> CallType] /\ k \in CallType
  BY DEF IInv, TypeOK, CallType
<1>3. PICK m \in 0..PoolSize :
         /\ \A d \in Caller : d # c => call[d] = Idle
         /\ CallerInv(k, m)
         /\ pte = [p \in Page |-> IF p < m THEN p ELSE NO_FRAME]
         /\ pmem_bits = 0 .. m - 1 \cup
               IF k.pc = "mapping" THEN {k.frame} ELSE {}
         /\ \A p \in Frame : p \in vaddr_bits <=>
               p < m \/ (k.pc \in RowTaken /\ p \in Row(c))
         /\ \A a, b \in Caller : a # b => granted[a] \cap granted[b] = {}
         /\ \A a \in Caller : \A p \in granted[a] : p < m
  BY <1>1, Before
<1>4. k.page_count \in 1..MaxRequest /\ k.mapped = 0 /\ k.pc \notin RowTaken
  BY <1>1, <1>2, <1>3 DEF CallerInv, CallType, RowTaken
<1>5. ~ScanPanics(vaddr_bits, PoolBytes) /\ start # -1 =>
         start = m /\ m + k.page_count <= PoolSize + 1
  BY <1>3, <1>4, ScanPrefix
<1>6. /\ malloc_panic' \in BOOLEAN /\ \A d \in Caller : d # c => call'[d] = Idle
      /\ call' \in [Caller -> CallType]
      /\ n \in {k, Idle} \/ /\ n = [k EXCEPT !.pc = "vaddr_set", !.vaddr = m]
                            /\ m + k.page_count <= PoolSize + 1
  <2>1. CASE ScanPanics(vaddr_bits, PoolBytes)
    BY <1>2, <1>3, <2>1 DEF VaddrScan
  <2>2. CASE ~ScanPanics(vaddr_bits, PoolBytes) /\ start = -1
    <3>1. call' = [call EXCEPT ![c] = Idle] /\ malloc_panic' = malloc_panic
      BY <2>2 DEF VaddrScan
    <3> QED BY <1>2, <1>3, <3>1, IdleType DEF TypeOK
  <2>3. CASE ~ScanPanics(vaddr_bits, PoolBytes) /\ start # -1
    <3> DEFINE r == [k EXCEPT !.pc = "vaddr_set", !.vaddr = m]
    <3>1. call' = [call EXCEPT ![c] = r] /\ malloc_panic' = malloc_panic
      <4>1. start = m
        BY <1>5, <2>3
      <4>2. call' = [call EXCEPT ![c] =
                        [k EXCEPT !.pc = "vaddr_set", !.vaddr = start]]
            /\ malloc_panic' = malloc_panic
        <5> HIDE DEF start
        <5> QED BY <2>3 DEF VaddrScan, start
      <4> QED BY <4>1, <4>2
    <3>2. r \in CallType
      BY <1>2, PoolSizeIs DEF CallType, Page
    <3> HIDE DEF r
    <3>3. n = r /\ call' \in [Caller -> CallType]
          /\ \A d \in Caller : d # c => call'[d] = Idle
      BY <1>2, <1>3, <3>1, <3>2
    <3> QED BY <1>2, <1>5, <2>3, <3>1, <3>3 DEF TypeOK, r
  <2> QED BY <2>1, <2>2, <2>3
<1>7. TypeOK'
  BY <1>1, <1>2, <1>6 DEF TypeOK, CallType
<1>8. CallerInv(n, m) /\ n.pc \notin RowTaken
  <2>1. CASE n = k
    BY <1>3, <1>4, <2>1
  <2>2. CASE n = Idle
    BY <2>2 DEF CallerInv, Idle, RowTaken
  <2>3. CASE /\ n = [k EXCEPT !.pc = "vaddr_set", !.vaddr = m]
             /\ m + k.page_count <= PoolSize + 1
    <3>1. /\ n.pc = "vaddr_set" /\ n.vaddr = m /\ n.mapped = 0
          /\ n.page_count = k.page_count
      BY <1>2, <1>4, <2>3 DEF CallType
    <3> HIDE DEF n, k
    <3> QED BY <1>4, <2>3, <3>1 DEF CallerInv, RowTaken
  <2> QED BY <1>6, <2>1, <2>2, <2>3
<1> HIDE DEF n, k
<1>9. pmem_bits' = 0 .. m - 1 \cup IF n.pc = "mapping" THEN {n.frame} ELSE {}
  BY <1>1, <1>3, <1>8 DEF RowTaken
<1>10. /\ \A p \in Frame : p \in vaddr_bits' <=>
            p < m \/ (n.pc \in RowTaken /\ p \in Row(c)')
       /\ pte' = [p \in Page |-> IF p < m THEN p ELSE NO_FRAME]
       /\ \A a, b \in Caller : a # b => granted'[a] \cap granted'[b] = {}
       /\ \A a \in Caller : \A p \in granted'[a] :
             p < m /\ (n.pc \in RowTaken => p < n.vaddr)
  BY <1>1, <1>3, <1>4, <1>8
<1> QED BY <1>6, <1>7, <1>8, <1>9, <1>10, After DEF n

LEMMA VaddrSetInv ==
    ASSUME OneAtATime, IInv, NEW c \in Caller, VaddrSet(c)
    PROVE  IInv'
<1> DEFINE k == call[c]
           n == [k EXCEPT !.pc = "palloc_scan"]
<1>1. /\ MayRun(c) /\ k.pc = "vaddr_set"
      /\ vaddr_bits' = vaddr_bits \cup Rows(k.vaddr, k.page_count)
      /\ call' = [call EXCEPT ![c] = n]
      /\ UNCHANGED <<pmem_bits, pte, granted, malloc_panic>>
  BY DEF VaddrSet, CallerAt
<1>2. TypeOK /\ call \in [Caller -> CallType] /\ k \in CallType
  BY DEF IInv, TypeOK, CallType
<1>3. PICK m \in 0..PoolSize :
         /\ \A d \in Caller : d # c => call[d] = Idle
         /\ CallerInv(k, m)
         /\ pte = [p \in Page |-> IF p < m THEN p ELSE NO_FRAME]
         /\ pmem_bits = 0 .. m - 1 \cup
               IF k.pc = "mapping" THEN {k.frame} ELSE {}
         /\ \A p \in Frame : p \in vaddr_bits <=>
               p < m \/ (k.pc \in RowTaken /\ p \in Row(c))
         /\ \A a, b \in Caller : a # b => granted[a] \cap granted[b] = {}
         /\ \A a \in Caller : \A p \in granted[a] : p < m
  BY <1>1, Before
<1>4. /\ k.page_count \in 1..MaxRequest /\ k.mapped = 0 /\ k.vaddr = m
      /\ m + k.page_count <= PoolSize + 1 /\ k.pc \notin RowTaken
  BY <1>1, <1>2, <1>3 DEF CallerInv, CallType, RowTaken
<1>5. /\ n \in CallType /\ n.pc = "palloc_scan" /\ n.vaddr = m /\ n.mapped = 0
      /\ n.page_count = k.page_count
  BY <1>2, <1>4 DEF CallType
<1> HIDE DEF n, k
<1>6. call'[c] = n /\ \A d \in Caller : d # c => call'[d] = Idle
  BY <1>1, <1>2, <1>3
<1>7. TypeOK'
  <2>1. call' \in [Caller -> CallType]
    BY <1>1, <1>2, <1>5
  <2>2. Rows(k.vaddr, k.page_count) \subseteq 0 .. PoolSize + ByteBits - 1
    BY <1>4, PoolSizeIs, BitmapAssumption DEF Rows
  <2> QED BY <1>1, <1>2, <2>1, <2>2 DEF TypeOK, CallType
<1>8. CallerInv(call'[c], m) /\ call'[c].pc \in RowTaken
  BY <1>4, <1>5, <1>6, PoolSizeIs DEF CallerInv, RowTaken
<1>9. pmem_bits' = 0 .. m - 1 \cup
         IF call'[c].pc = "mapping" THEN {call'[c].frame} ELSE {}
  BY <1>1, <1>3, <1>5, <1>6
<1>10. \A p \in Frame : p \in vaddr_bits' <=>
          p < m \/ (call'[c].pc \in RowTaken /\ p \in Row(c)')
  <2>1. Row(c)' = Rows(k.vaddr, k.page_count)
    BY <1>4, <1>5, <1>6 DEF Row
  <2> QED BY <1>1, <1>3, <1>4, <1>8, <2>1
<1>11. \A a \in Caller : \A p \in granted'[a] :
          p < m /\ (call'[c].pc \in RowTaken => p < call'[c].vaddr)
  BY <1>1, <1>3, <1>5, <1>6
<1> QED BY <1>1, <1>3, <1>6, <1>7, <1>8, <1>9, <1>10, <1>11, After

LEMMA PallocScanInv ==
    ASSUME OneAtATime, IInv, NEW c \in Caller, PallocScan(c)
    PROVE  IInv'
<1> DEFINE k == call[c]
           frame == bitmap_scan(pmem_bits, PoolBytes, 1)
           n == call'[c]
<1>1. /\ MayRun(c) /\ k.pc = "palloc_scan"
      /\ UNCHANGED <<vaddr_bits, pmem_bits, pte, granted>>
  BY DEF PallocScan, CallerAt
<1>2. TypeOK /\ call \in [Caller -> CallType] /\ k \in CallType
  BY DEF IInv, TypeOK, CallType
<1>3. PICK m \in 0..PoolSize :
         /\ \A d \in Caller : d # c => call[d] = Idle
         /\ CallerInv(k, m)
         /\ pte = [p \in Page |-> IF p < m THEN p ELSE NO_FRAME]
         /\ pmem_bits = 0 .. m - 1 \cup
               IF k.pc = "mapping" THEN {k.frame} ELSE {}
         /\ \A p \in Frame : p \in vaddr_bits <=>
               p < m \/ (k.pc \in RowTaken /\ p \in Row(c))
         /\ \A a, b \in Caller : a # b => granted[a] \cap granted[b] = {}
         /\ \A a \in Caller : \A p \in granted[a] :
               p < m /\ (k.pc \in RowTaken => p < k.vaddr)
  BY <1>1, Before
<1>4. k.pc \in RowTaken
  BY <1>1 DEF RowTaken
<1>5. \A p \in Frame : p \in pmem_bits <=> p < m
  BY <1>1, <1>3, PoolSizeIs DEF Frame
<1>6. ~ScanPanics(pmem_bits, PoolBytes) => frame = m /\ m < PoolSize
  <2>1. /\ ScanPanics(pmem_bits, PoolBytes) <=> m = PoolSize
        /\ ~ScanPanics(pmem_bits, PoolBytes) =>
              /\ frame = -1 => 1 > 1
              /\ frame # -1 => frame = m
    BY <1>5, ScanPrefix
  <2> HIDE DEF frame
  <2> QED BY <2>1, PoolSizeIs
<1>7. /\ malloc_panic' \in BOOLEAN /\ \A d \in Caller : d # c => call'[d] = Idle
      /\ call' \in [Caller -> CallType]
      /\ \/ n = k
         \/ n = [k EXCEPT !.pc = "palloc_set", !.frame = m] /\ m < PoolSize
  <2>1. CASE ScanPanics(pmem_bits, PoolBytes)
    BY <1>2, <1>3, <2>1 DEF PallocScan
  <2>2. CASE ~ScanPanics(pmem_bits, PoolBytes)
    <3> DEFINE r == [k EXCEPT !.pc = "palloc_set", !.frame = m]
    <3>1. call' = [call EXCEPT ![c] = r] /\ malloc_panic' = malloc_panic
      <4>1. frame = m
        BY <1>6, <2>2
      <4>2. call' = [call EXCEPT ![c].pc = "palloc_set", ![c].frame = frame]
            /\ malloc_panic' = malloc_panic
        <5> HIDE DEF frame
        <5> QED BY <2>2 DEF PallocScan, frame
      <4> QED BY <1>2, <4>1, <4>2 DEF CallType
    <3>2. r \in CallType
      <4>1. m \in Frame
        BY <1>6, <2>2, PoolSizeIs DEF Frame
      <4> QED BY <1>2, <4>1 DEF CallType
    <3> HIDE DEF r
    <3>3. n = r /\ call' \in [Caller -> CallType]
          /\ \A d \in Caller : d # c => call'[d] = Idle
      BY <1>2, <1>3, <3>1, <3>2
    <3> QED BY <1>2, <1>6, <2>2, <3>1, <3>3 DEF TypeOK, r
  <2> QED BY <2>1, <2>2
<1>8. TypeOK'
  BY <1>1, <1>2, <1>7 DEF TypeOK, CallType
<1>9. /\ CallerInv(n, m) /\ n.pc \in RowTaken /\ n.pc # "mapping"
      /\ n.vaddr = k.vaddr /\ n.page_count = k.page_count
  BY <1>1, <1>2, <1>3, <1>7 DEF CallerInv, CallType, RowTaken
<1>10. Row(c)' = Row(c)
  BY <1>9 DEF Row
<1> HIDE DEF n, k
<1>11. pmem_bits' = 0 .. m - 1 \cup IF n.pc = "mapping" THEN {n.frame} ELSE {}
  BY <1>1, <1>3, <1>9
<1>12. /\ \A p \in Frame : p \in vaddr_bits' <=>
            p < m \/ (n.pc \in RowTaken /\ p \in Row(c)')
       /\ pte' = [p \in Page |-> IF p < m THEN p ELSE NO_FRAME]
       /\ \A a, b \in Caller : a # b => granted'[a] \cap granted'[b] = {}
       /\ \A a \in Caller : \A p \in granted'[a] :
             p < m /\ (n.pc \in RowTaken => p < n.vaddr)
  BY <1>1, <1>3, <1>4, <1>9, <1>10
<1> QED BY <1>7, <1>8, <1>9, <1>11, <1>12, After DEF n

LEMMA PallocSetInv ==
    ASSUME OneAtATime, IInv, NEW c \in Caller, PallocSet(c)
    PROVE  IInv'
<1> DEFINE k == call[c]
           n == [k EXCEPT !.pc = "mapping"]
<1>1. /\ MayRun(c) /\ k.pc = "palloc_set"
      /\ pmem_bits' = pmem_bits \cup {k.frame}
      /\ call' = [call EXCEPT ![c] = n]
      /\ UNCHANGED <<vaddr_bits, pte, granted, malloc_panic>>
  BY DEF PallocSet, CallerAt, bitmap_set
<1>2. TypeOK /\ call \in [Caller -> CallType] /\ k \in CallType
  BY DEF IInv, TypeOK, CallType
<1>3. PICK m \in 0..PoolSize :
         /\ \A d \in Caller : d # c => call[d] = Idle
         /\ CallerInv(k, m)
         /\ pte = [p \in Page |-> IF p < m THEN p ELSE NO_FRAME]
         /\ pmem_bits = 0 .. m - 1 \cup
               IF k.pc = "mapping" THEN {k.frame} ELSE {}
         /\ \A p \in Frame : p \in vaddr_bits <=>
               p < m \/ (k.pc \in RowTaken /\ p \in Row(c))
         /\ \A a, b \in Caller : a # b => granted[a] \cap granted[b] = {}
         /\ \A a \in Caller : \A p \in granted[a] :
               p < m /\ (k.pc \in RowTaken => p < k.vaddr)
  BY <1>1, Before
<1>4. /\ n \in CallType /\ n.pc = "mapping" /\ n.vaddr = k.vaddr
      /\ n.mapped = k.mapped /\ n.page_count = k.page_count
      /\ n.frame = k.frame /\ k.frame \in Frame
  BY <1>2 DEF CallType
<1> HIDE DEF n, k
<1>5. call'[c] = n /\ \A d \in Caller : d # c => call'[d] = Idle
  BY <1>1, <1>2, <1>3
<1>6. TypeOK'
  <2>1. call' \in [Caller -> CallType]
    BY <1>1, <1>2, <1>4
  <2> QED BY <1>1, <1>2, <1>4, <2>1 DEF TypeOK, CallType
<1>7. k.pc \in RowTaken /\ call'[c].pc \in RowTaken
  BY <1>1, <1>4, <1>5 DEF RowTaken
<1>8. CallerInv(call'[c], m)
  BY <1>1, <1>3, <1>4, <1>5, <1>7 DEF CallerInv
<1>9. pmem_bits' = 0 .. m - 1 \cup
         IF call'[c].pc = "mapping" THEN {call'[c].frame} ELSE {}
  BY <1>1, <1>3, <1>4, <1>5
<1>10. Row(c)' = Row(c)
  BY <1>4, <1>5 DEF Row, k
<1>11. /\ \A p \in Frame : p \in vaddr_bits' <=>
            p < m \/ (call'[c].pc \in RowTaken /\ p \in Row(c)')
       /\ \A a \in Caller : \A p \in granted'[a] :
             p < m /\ (call'[c].pc \in RowTaken => p < call'[c].vaddr)
  BY <1>1, <1>3, <1>4, <1>5, <1>7, <1>10
<1> QED BY <1>1, <1>3, <1>5, <1>6, <1>8, <1>9, <1>11, After

\* The page a caller maps is the first that has no frame.
LEMMA MappingFirst ==
    ASSUME OneAtATime, IInv, NEW c \in Caller, Mapping(c)
    PROVE  pte[call[c].vaddr + call[c].mapped] = NO_FRAME
<1>1. MayRun(c) /\ call[c].pc = "mapping" /\ call[c].pc \in RowTaken
  BY DEF Mapping, CallerAt, RowTaken
<1>2. PICK m \in 0..PoolSize :
         /\ CallerInv(call[c], m)
         /\ pte = [p \in Page |-> IF p < m THEN p ELSE NO_FRAME]
  BY <1>1, Before
<1>3. call[c].vaddr + call[c].mapped = m /\ m \in Page
  BY <1>1, <1>2 DEF CallerInv, Page
<1> QED BY <1>2, <1>3, PoolSizeIs

LEMMA MappingInv ==
    ASSUME OneAtATime, IInv, NEW c \in Caller, Mapping(c)
    PROVE  IInv'
<1> DEFINE k == call[c]
           vaddr == k.vaddr + k.mapped
           last == k.mapped + 1 = k.page_count
           next == [k EXCEPT !.pc = "palloc_scan", !.mapped = @ + 1]
           n == IF last THEN Idle ELSE next
<1>1. /\ MayRun(c) /\ k.pc = "mapping" /\ k.pc \in RowTaken
      /\ UNCHANGED <<vaddr_bits, pmem_bits>>
  BY DEF Mapping, CallerAt, RowTaken
<1>2. /\ pte' = [pte EXCEPT ![vaddr] = k.frame]
      /\ call' = [call EXCEPT ![c] = n]
      /\ granted' = IF last THEN [granted EXCEPT ![c] =
                                     @ \cup Rows(k.vaddr, k.page_count)]
                    ELSE granted
      /\ malloc_panic' = malloc_panic
  BY MappingFirst DEF Mapping
<1>3. TypeOK /\ call \in [Caller -> CallType] /\ k \in CallType
  BY DEF IInv, TypeOK, CallType
<1>4. PICK m \in 0..PoolSize :
         /\ \A d \in Caller : d # c => call[d] = Idle
         /\ CallerInv(k, m)
         /\ pte = [p \in Page |-> IF p < m THEN p ELSE NO_FRAME]
         /\ pmem_bits = 0 .. m - 1 \cup
               IF k.pc = "mapping" THEN {k.frame} ELSE {}
         /\ \A p \in Frame : p \in vaddr_bits <=>
               p < m \/ (k.pc \in RowTaken /\ p \in Row(c))
         /\ \A a, b \in Caller : a # b => granted[a] \cap granted[b] = {}
         /\ \A a \in Caller : \A p \in granted[a] :
               p < m /\ (k.pc \in RowTaken => p < k.vaddr)
  BY <1>1, Before
<1>5. /\ k.vaddr \in Nat /\ k.mapped \in Nat /\ k.page_count \in 1..MaxRequest
      /\ vaddr = m /\ k.mapped < k.page_count /\ k.frame = m /\ m < PoolSize
      /\ k.vaddr + k.page_count <= PoolSize + 1
  BY <1>1, <1>3, <1>4, PoolSizeIs DEF CallerInv, CallType, Page
<1>6. m + 1 \in 0..PoolSize /\ m \in Nat /\ m \in Page /\ m \in Frame
  BY <1>5, PoolSizeIs DEF Page, Frame
<1>7. /\ ~last => /\ next \in CallType /\ next.pc = "palloc_scan"
                  /\ next.vaddr = k.vaddr /\ next.mapped = k.mapped + 1
                  /\ next.page_count = k.page_count
      /\ last => n = Idle
      /\ ~last => n = next
  <2>1. ~last => k.mapped + 1 \in 0..MaxRequest - 1
    BY <1>5, MemoryAssumption
  <2> QED BY <1>3, <2>1 DEF CallType
<1>8. n \in CallType
  BY <1>7, IdleType
<1> HIDE DEF n, next
<1>9. call'[c] = n /\ \A d \in Caller : d # c => call'[d] = Idle
  BY <1>2, <1>3, <1>4
<1>10. pte' = [p \in Page |-> IF p < m + 1 THEN p ELSE NO_FRAME]
  <2>1. pte' = [pte EXCEPT ![m] = m]
    BY <1>2, <1>5
  <2>2. \A p \in Page : p \in Nat /\ (p < m + 1 <=> p < m \/ p = m)
    BY <1>6, PoolSizeIs DEF Page
  <2> QED BY <1>4, <1>6, <2>1, <2>2
<1>11. pmem_bits' = 0 .. (m + 1) - 1 \cup
          IF n.pc = "mapping" THEN {n.frame} ELSE {}
  <2>1. n.pc # "mapping"
    BY <1>7 DEF Idle
  <2>2. pmem_bits = 0 .. m - 1 \cup {m}
    BY <1>1, <1>4, <1>5
  <2> QED BY <1>1, <1>6, <2>1, <2>2
<1>12. /\ last => n.pc \notin RowTaken
       /\ ~last => n.pc \in RowTaken /\ Row(c)' = Row(c)
  BY <1>7, <1>9 DEF RowTaken, Idle, Row
<1>13. \A p \in Frame : p \in vaddr_bits' <=>
          p < m + 1 \/ (n.pc \in RowTaken /\ p \in Row(c)')
  <2> SUFFICES ASSUME NEW p \in Frame
               PROVE  p \in vaddr_bits <=>
                         p < m + 1 \/ (n.pc \in RowTaken /\ p \in Row(c)')
    BY <1>1
  <2>1. p \in vaddr_bits <=> p < m \/ p \in Rows(k.vaddr, k.page_count)
    BY <1>1, <1>4 DEF Row
  <2>2. p \in Nat
    BY PoolSizeIs DEF Frame
  <2>3. p \in vaddr_bits <=> p < k.vaddr + k.page_count
    BY <1>5, <2>1, <2>2, MemoryAssumption DEF Rows
  <2>4. CASE last
    BY <1>5, <1>12, <2>2, <2>3, <2>4
  <2>5. CASE ~last
    <3>1. p \in Row(c)' <=> p \in Rows(k.vaddr, k.page_count)
      BY <1>12, <2>5 DEF Row
    <3> QED BY <1>5, <1>12, <2>2, <2>3, <2>5, <3>1, MemoryAssumption DEF Rows
  <2> QED BY <2>4, <2>5
<1>14. CallerInv(n, m + 1)
  BY <1>5, <1>7 DEF CallerInv, RowTaken, Idle
<1>15. granted \in [Caller -> SUBSET Page]
  BY <1>3 DEF TypeOK
<1>16. last => Rows(k.vaddr, k.page_count) = k.vaddr .. m
  BY <1>5 DEF Rows
<1>17. /\ granted' \in [Caller -> SUBSET Page]
       /\ \A a \in Caller : \A p \in granted'[a] :
             p < m + 1 /\ (n.pc \in RowTaken => p < n.vaddr)
       /\ \A a, b \in Caller : a # b => granted'[a] \cap granted'[b] = {}
  <2>1. \A a \in Caller : \A p \in granted[a] : p < k.vaddr /\ p < m /\ p \in Nat
    BY <1>1, <1>4, <1>15, PoolSizeIs DEF Page
  <2>2. CASE ~last
    <3>1. granted' = granted /\ n.vaddr = k.vaddr
      BY <1>2, <1>7, <2>2
    <3> QED BY <1>4, <1>6, <1>15, <2>1, <3>1
  <2>3. CASE last
    <3> DEFINE row == k.vaddr .. m
    <3>1. granted' = [granted EXCEPT ![c] = granted[c] \cup row]
      BY <1>2, <1>16, <2>3
    <3>2. row \subseteq Page /\ \A p \in row : p >= k.vaddr /\ p < m + 1
      BY <1>5, <1>6, PoolSizeIs DEF Page
    <3>3. \A a \in Caller : granted[a] \cap row = {}
      BY <1>5, <2>1, <3>2
    <3>4. \A p \in Nat : p < m => p < m + 1
      BY <1>6
    <3> HIDE DEF row
    <3>5. /\ granted'[c] = granted[c] \cup row
          /\ \A a \in Caller : a # c => granted'[a] = granted[a]
          /\ granted' \in [Caller -> SUBSET Page]
      BY <1>15, <3>1, <3>2
    <3>6. \A a \in Caller : \A p \in granted'[a] : p < m + 1
      BY <2>1, <3>2, <3>4, <3>5
    <3>7. \A a, b \in Caller : a # b => granted'[a] \cap granted'[b] = {}
      BY <1>4, <3>3, <3>5
    <3> QED BY <1>12, <2>3, <3>5, <3>6, <3>7
  <2> QED BY <2>2, <2>3
<1>18. TypeOK'
  <2>1. call' \in [Caller -> CallType]
    BY <1>2, <1>3, <1>8
  <2>2. pte' \in [Page -> Frame \cup {NO_FRAME}]
    BY <1>2, <1>3, <1>5, <1>6 DEF TypeOK
  <2> QED BY <1>1, <1>2, <1>3, <1>17, <2>1, <2>2 DEF TypeOK, CallType
<1> QED BY <1>6, <1>9, <1>10, <1>11, <1>13, <1>14, <1>17, <1>18, After

-----------------------------------------------------------------------------
(* The invariant *)

LEMMA InitInv == ASSUME MemoryInit PROVE IInv
<1>1. /\ bitmap_init(0 .. PoolSize - 1, PoolBytes) = {}
      /\ pmem_bits = {} /\ pte = [p \in Page |-> NO_FRAME]
      /\ call = [c \in Caller |-> Idle] /\ granted = [c \in Caller |-> {}]
      /\ malloc_panic = FALSE
  BY DEF MemoryInit, bitmap_init, PoolSize
<1>2. vaddr_bits \subseteq Byte(PoolBytes)
  BY <1>1 DEF MemoryInit
<1>3. ASSUME NEW p \in Byte(PoolBytes)
      PROVE  p \in 0 .. PoolSize + ByteBits - 1 /\ p \notin Frame
  <2>1. PoolBytes \in Nat
    BY MemoryAssumption
  <2>2. p \in PoolSize .. PoolSize + ByteBits - 1
    BY <2>1, ByteBounds DEF PoolSize
  <2> QED BY <2>2, PoolSizeIs, BitmapAssumption DEF Frame
<1>4. TypeOK
  <2>1. call \in [Caller -> CallType]
    BY <1>1, IdleType
  <2> QED BY <1>1, <1>2, <1>3, <2>1 DEF TypeOK, CallType
<1>5. Claimed = {} /\ Mappers = {}
  BY <1>1 DEF Claimed, Mappers, RowTaken, Idle
<1>6. PoolInv(0)
  <2>1. \A p \in Page : ~(p < 0)
    BY PoolSizeIs DEF Page
  <2>2. pte = [p \in Page |-> IF p < 0 THEN p ELSE NO_FRAME]
    BY <1>1, <2>1
  <2>3. \A p \in Frame : ~(p < 0) /\ p \notin vaddr_bits
    BY <1>2, <1>3, PoolSizeIs DEF Frame
  <2>4. 0 .. 0 - 1 = {}
    OBVIOUS
  <2> QED BY <1>1, <1>5, <2>2, <2>3, <2>4 DEF PoolInv
<1>7. GrantInv(0) /\ \A c \in Caller : CallerInv(call[c], 0)
  BY <1>1 DEF GrantInv, CallerInv, Idle, RowTaken
<1>8. 0 \in 0..PoolSize
  BY PoolSizeIs
<1> QED BY <1>1, <1>4, <1>6, <1>7, <1>8 DEF IInv

LEMMA NextInv ==
    ASSUME OneAtATime, IInv, [MemoryNext]_memoryVars
    PROVE  IInv'
<1>1. ASSUME UNCHANGED memoryVars PROVE IInv'
  BY <1>1 DEF memoryVars, IInv, TypeOK, PoolInv, CallerInv, GrantInv, Mappers,
              Row, Claimed
<1>2. ASSUME MemoryNext PROVE IInv'
  BY <1>2, GetKernelPagesInv, VaddrScanInv, VaddrSetInv, PallocScanInv,
     PallocSetInv, MappingInv DEF MemoryNext
<1> QED BY <1>1, <1>2

(* The pages that have a frame are the first ones of the pool, page n has   *)
(* frame n, and a running call works on the first page that has none        *)
(* (memory.c:198-251,442-485), as long as calls do not overlap.             *)
THEOREM PoolsArePrefixes ==
    ASSUME OneAtATime
    PROVE  MemorySpec => []IInv
<1>1. MemoryInit => IInv
  BY InitInv
<1>2. IInv /\ [MemoryNext]_memoryVars => IInv'
  BY NextInv
<1> QED BY <1>1, <1>2, PTL DEF MemorySpec

-----------------------------------------------------------------------------
(* What it gives *)

LEMMA MappedIs ==
    ASSUME NEW m \in 0..PoolSize, PoolInv(m)
    PROVE  /\ Mapped = 0 .. m - 1
           /\ \A p \in Mapped : pte[p] = p
<1>1. pte = [p \in Page |-> IF p < m THEN p ELSE NO_FRAME]
  BY DEF PoolInv
<1>2. \A p \in Page : p \in Int /\ p # NO_FRAME
  BY PoolSizeIs, MemoryAssumption DEF Page
<1>3. \A p \in Page : p \in Mapped <=> p < m
  BY <1>1, <1>2 DEF Mapped
<1>4. \A p \in Mapped : p \in Page /\ p < m
  BY <1>3 DEF Mapped
<1>5. \A p \in 0 .. m - 1 : p \in Page /\ p < m
  BY PoolSizeIs DEF Page
<1>6. Mapped = 0 .. m - 1
  <2>1. \A p \in Mapped : p \in 0 .. m - 1
    BY <1>4, PoolSizeIs DEF Page
  <2>2. \A p \in 0 .. m - 1 : p \in Mapped
    BY <1>3, <1>5
  <2> QED BY <2>1, <2>2
<1> QED BY <1>1, <1>4, <1>6

LEMMA InvPagesOwned == ASSUME IInv PROVE PagesOwned
<1>1. PICK m \in 0..PoolSize : PoolInv(m) /\ GrantInv(m)
  BY DEF IInv
<1>2. Mapped = 0 .. m - 1 /\ \A p \in Mapped : pte[p] = p
  BY <1>1, MappedIs
<1>3. pmem_bits = 0 .. m - 1 \cup Claimed
  BY <1>1 DEF PoolInv
<1>4. \A c, d \in Caller : c # d => granted[c] \cap granted[d] = {}
  BY <1>1 DEF GrantInv
<1>5. ASSUME NEW c \in Caller, NEW p \in granted[c]
      PROVE  p \in Mapped /\ p \in 0 .. PoolSize - 1
  <2>1. p \in Page /\ p < m
    BY <1>1 DEF IInv, TypeOK, GrantInv
  <2> QED BY <1>2, <2>1, PoolSizeIs DEF Page
<1>6. {pte[p] : p \in Mapped} \subseteq pmem_bits
  BY <1>2, <1>3
<1> QED BY <1>2, <1>4, <1>5, <1>6 DEF PagesOwned

LEMMA InvNothingLeaks == ASSUME IInv PROVE NothingLeaks
<1> SUFFICES ASSUME \A c \in Caller : call[c] = Idle
             PROVE  /\ vaddr_bits \cap (0 .. PoolSize - 1) = Mapped
                    /\ pmem_bits = {pte[p] : p \in Mapped}
  BY DEF NothingLeaks
<1>1. PICK m \in 0..PoolSize : PoolInv(m)
  BY DEF IInv
<1>2. Mapped = 0 .. m - 1 /\ \A p \in Mapped : pte[p] = p
  BY <1>1, MappedIs
<1>3. Claimed = {} /\ Mappers = {}
  BY DEF Claimed, Mappers, RowTaken, Idle
<1>4. \A p \in 0 .. PoolSize - 1 : p \in vaddr_bits <=> p < m
  BY <1>1, <1>3 DEF PoolInv, Frame
<1>5. pmem_bits = 0 .. m - 1
  BY <1>1, <1>3 DEF PoolInv
<1>6. vaddr_bits \cap (0 .. PoolSize - 1) = 0 .. m - 1
  <2>1. \A p \in 0 .. m - 1 : p \in 0 .. PoolSize - 1 /\ p < m
    BY PoolSizeIs
  <2>2. \A p \in 0 .. PoolSize - 1 : p < m => p \in 0 .. m - 1
    BY PoolSizeIs
  <2> QED BY <1>4, <2>1, <2>2
<1> QED BY <1>2, <1>5, <1>6

(* Overlapping calls aside, every page that get_kernel_pages returns is the *)
(* caller's own and has a frame of its own (memory.c:442-495), for pools of *)
(* every size, however long and often the callers ask.                      *)
THEOREM EveryPageOwned ==
    ASSUME OneAtATime
    PROVE  MemorySpec => []PagesOwned
BY PoolsArePrefixes, InvPagesOwned, PTL

(* Overlapping calls aside, get_kernel_pages loses no page and no frame, also *)
(* when it returns NULL (memory.c:442-485).                                 *)
THEOREM NoLeak ==
    ASSUME OneAtATime
    PROVE  MemorySpec => []NothingLeaks
BY PoolsArePrefixes, InvNothingLeaks, PTL

\* What a step that panics, or ends a scan without a row, has met
LEMMA StepFailsOnlyWhenFull ==
    ASSUME OneAtATime, IInv, MemoryNext
    PROVE  /\ malloc_panic' => pmem_bits = Frame
           /\ \A c \in Caller :
                 call[c].pc = "vaddr_scan" /\ call'[c] = Idle =>
                    FirstRow(vaddr_bits, PoolSize, call[c].page_count) = -1
<1> DEFINE Goal ==
        /\ malloc_panic' => pmem_bits = Frame
        /\ \A c \in Caller :
              call[c].pc = "vaddr_scan" /\ call'[c] = Idle =>
                 FirstRow(vaddr_bits, PoolSize, call[c].page_count) = -1
<1>1. TypeOK /\ call \in [Caller -> CallType]
  BY DEF IInv, TypeOK, CallType
\* A step that does not panic, taken elsewhere than at a scan of the pages
<1>2. ASSUME NEW c \in Caller, call[c].pc # "vaddr_scan", ~malloc_panic',
             \A d \in Caller : d # c => call'[d] = call[d]
      PROVE  Goal
  BY <1>2 DEF Idle
<1>3. ASSUME NEW c \in Caller, NEW page_count \in 1..MaxRequest,
             GetKernelPages(c, page_count)
      PROVE  Goal
  <2>1. call[c].pc # "vaddr_scan" /\ ~malloc_panic'
        /\ \A d \in Caller : d # c => call'[d] = call[d]
    BY <1>1, <1>3 DEF GetKernelPages, CallerAt, MayRun
  <2> QED BY <1>2, <2>1
<1>4. ASSUME NEW c \in Caller, VaddrScan(c) PROVE Goal
  <2> DEFINE count == call[c].page_count
             start == bitmap_scan(vaddr_bits, PoolBytes, count)
  <2>1. MayRun(c) /\ ~malloc_panic /\ call[c].pc = "vaddr_scan"
    BY <1>4 DEF VaddrScan, CallerAt, MayRun
  <2>2. PICK m \in 0..PoolSize :
           /\ CallerInv(call[c], m)
           /\ pmem_bits = 0 .. m - 1 \cup
                 IF call[c].pc = "mapping" THEN {call[c].frame} ELSE {}
           /\ \A p \in Frame : p \in vaddr_bits <=>
                 p < m \/ (call[c].pc \in RowTaken /\ p \in Row(c))
    BY <2>1, Before
  <2>3. count \in Nat \ {0}
    BY <1>1, <2>1, <2>2, MemoryAssumption DEF CallerInv, CallType
  <2>4. \A p \in Frame : p \in vaddr_bits <=> p < m
    BY <2>1, <2>2 DEF RowTaken
  <2>5. /\ ScanPanics(vaddr_bits, PoolBytes) <=> m = PoolSize
        /\ ~ScanPanics(vaddr_bits, PoolBytes) /\ start = -1 =>
              FirstRow(vaddr_bits, PoolSize, count) = -1 /\ count > 1
    BY <2>3, <2>4, ScanPrefix
  <2>6. \A d \in Caller : d # c => call'[d] = call[d]
    BY <1>1, <1>4 DEF VaddrScan
  <2>7. \A d \in Caller :
           d # c => ~(call[d].pc = "vaddr_scan" /\ call'[d] = Idle)
    BY <2>6 DEF Idle
  <2>8. CASE ScanPanics(vaddr_bits, PoolBytes)
    <3>1. pmem_bits = Frame
      BY <2>1, <2>2, <2>5, <2>8 DEF Frame
    <3>2. call'[c] # Idle
      BY <1>4, <2>1, <2>8 DEF VaddrScan, Idle
    <3> QED BY <2>7, <3>1, <3>2
  <2>9. CASE ~ScanPanics(vaddr_bits, PoolBytes)
    <3>1. malloc_panic' = malloc_panic
      BY <1>4, <2>9 DEF VaddrScan
    <3>2. start # -1 => call'[c] # Idle
      <4> SUFFICES ASSUME start # -1 PROVE call'[c] # Idle
        OBVIOUS
      <4>1. call' = [call EXCEPT ![c] =
                        [@ EXCEPT !.pc = "vaddr_set", !.vaddr = start]]
        BY <1>4, <2>9 DEF VaddrScan
      <4> HIDE DEF start
      <4>2. call'[c].pc = "vaddr_set"
        BY <1>1, <4>1 DEF CallType
      <4> QED BY <4>2 DEF Idle
    <3> HIDE DEF start
    <3> QED BY <2>1, <2>5, <2>7, <2>9, <3>1, <3>2
  <2> QED BY <2>8, <2>9
<1>5. ASSUME NEW c \in Caller, VaddrSet(c) PROVE Goal
  <2>1. call[c].pc # "vaddr_scan" /\ ~malloc_panic'
        /\ \A d \in Caller : d # c => call'[d] = call[d]
    BY <1>1, <1>5 DEF VaddrSet, CallerAt, MayRun
  <2> QED BY <1>2, <2>1
<1>6. ASSUME NEW c \in Caller, PallocScan(c) PROVE Goal
  <2>1. MayRun(c) /\ ~malloc_panic /\ call[c].pc = "palloc_scan"
        /\ \A d \in Caller : d # c => call'[d] = call[d]
    BY <1>1, <1>6 DEF PallocScan, CallerAt, MayRun
  <2>2. CASE ScanPanics(pmem_bits, PoolBytes)
    <3>1. Frame \subseteq pmem_bits
      <4>1. PoolBytes \in Nat
        BY MemoryAssumption
      <4> QED BY <2>2, <4>1, PanicsWhenFull DEF Frame, PoolSize
    <3>2. pmem_bits = Frame
      BY <1>1, <3>1 DEF TypeOK
    <3> QED BY <2>1, <3>2 DEF Idle
  <2>3. CASE ~ScanPanics(pmem_bits, PoolBytes)
    <3>1. ~malloc_panic'
      BY <1>6, <2>1, <2>3 DEF PallocScan
    <3> QED BY <1>2, <2>1, <3>1
  <2> QED BY <2>2, <2>3
<1>7. ASSUME NEW c \in Caller, PallocSet(c) PROVE Goal
  <2>1. call[c].pc # "vaddr_scan" /\ ~malloc_panic'
        /\ \A d \in Caller : d # c => call'[d] = call[d]
    BY <1>1, <1>7 DEF PallocSet, CallerAt, MayRun
  <2> QED BY <1>2, <2>1
<1>8. ASSUME NEW c \in Caller, Mapping(c) PROVE Goal
  <2>1. call[c].pc # "vaddr_scan" /\ ~malloc_panic'
        /\ \A d \in Caller : d # c => call'[d] = call[d]
    BY <1>1, <1>8, MappingFirst DEF Mapping, CallerAt, MayRun
  <2> QED BY <1>2, <2>1
<1> HIDE DEF Goal
<1>9. Goal
  BY <1>3, <1>4, <1>5, <1>6, <1>7, <1>8 DEF MemoryNext
<1> QED BY <1>9 DEF Goal

(* Overlapping calls aside, the allocator panics only when every frame is   *)
(* taken, and returns NULL only when the pool has no row of free pages as   *)
(* long as the one asked for (memory.c:198-251,442-485; bitmap.c:60-110).   *)
THEOREM NoFalseFailure ==
    ASSUME OneAtATime
    PROVE  MemorySpec => FailsOnlyWhenFull
<1> DEFINE A == /\ malloc_panic' => pmem_bits = Frame
                /\ \A c \in Caller :
                      call[c].pc = "vaddr_scan" /\ call'[c] = Idle =>
                         FirstRow(vaddr_bits, PoolSize,
                                  call[c].page_count) = -1
<1>1. IInv /\ [MemoryNext]_memoryVars => [A]_memoryVars
  BY StepFailsOnlyWhenFull
<1>2. MemorySpec => []IInv
  BY PoolsArePrefixes
<1>3. MemorySpec => [][A]_memoryVars
  BY <1>1, <1>2, PTL DEF MemorySpec
<1> QED BY <1>3 DEF FailsOnlyWhenFull
=============================================================================
