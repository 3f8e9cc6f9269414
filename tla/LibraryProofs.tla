----------------------------- MODULE LibraryProofs -----------------------------
(***************************************************************************)
(* bitmap_scan is first fit and the functions of string.c do what they     *)
(* should, for bytes of every size, in a memory of any size and content.   *)
(*                                                                         *)
(* A loop of string.c is a recursive function.  What it computes is stated *)
(* as a function of its own that satisfies the loop's equation; there is no*)
(* second one, by induction on the rounds that are made or are left.       *)
(***************************************************************************)
EXTENDS Library, FiniteSetTheorems, WellFoundedInduction, TLAPS

-----------------------------------------------------------------------------
(* Least and greatest elements *)

LEMMA LeastNatural ==
    ASSUME NEW S \in SUBSET Nat, S # {}
    PROVE  Least(S) \in S /\ \A j \in S : Least(S) <= j
<1>1. PICK x \in S : \A y \in S : <<y, x>> \notin OpToRel(<, Nat)
  BY NatLessThanWellFounded, WFMin, Zenon
<1>2. \A y \in S : x <= y
  <2> SUFFICES ASSUME NEW y \in S PROVE x <= y
    OBVIOUS
  <2>1. y \in Nat /\ x \in Nat /\ ~(y < x)
    BY <1>1 DEF OpToRel
  <2> QED BY <2>1
<1>3. x \in S /\ \A y \in S : x <= y
  BY <1>2
<1> HIDE <1>1
<1> QED BY <1>3 DEF Least

LEMMA LeastIs ==
    ASSUME NEW S \in SUBSET Int, NEW x \in S, \A y \in S : x <= y
    PROVE  Least(S) = x
<1>1. Least(S) \in S /\ \A j \in S : Least(S) <= j
  BY DEF Least
<1>2. Least(S) \in Int /\ x \in Int /\ Least(S) <= x /\ x <= Least(S)
  BY <1>1
<1> QED BY <1>2

LEMMA GreatestIs ==
    ASSUME NEW S \in SUBSET Int, NEW x \in S, \A y \in S : x >= y
    PROVE  Greatest(S) = x
<1>1. Greatest(S) \in S /\ \A j \in S : Greatest(S) >= j
  BY DEF Greatest
<1>2. Greatest(S) \in Int /\ x \in Int /\ Greatest(S) <= x /\ x <= Greatest(S)
  BY <1>1
<1> QED BY <1>2

-----------------------------------------------------------------------------
(* Two functions with the same loop *)

\* What both are at n follows from what they are below n.
LEMMA AgreeUpwards ==
    ASSUME NEW S \in SUBSET Nat, NEW f, NEW g,
           \A n \in S : (\A k \in S : k < n => f[k] = g[k]) => f[n] = g[n]
    PROVE  \A n \in S : f[n] = g[n]
<1> DEFINE T == {n \in S : f[n] # g[n]}
<1> SUFFICES ASSUME T # {} PROVE FALSE
  OBVIOUS
<1>1. T \in SUBSET Nat
  OBVIOUS
<1>2. PICK n \in T : \A k \in T : n <= k
  <2> HIDE DEF T
  <2> QED BY <1>1, LeastNatural
<1>3. ASSUME NEW k \in S, k < n PROVE f[k] = g[k]
  BY <1>2, <1>3
<1> QED BY <1>2, <1>3

\* It follows from what they are above n, and there is an end.
LEMMA AgreeDownwards ==
    ASSUME NEW S \in SUBSET (0 .. Top + 1), NEW f, NEW g,
           \A n \in S : (\A k \in S : k > n => f[k] = g[k]) => f[n] = g[n]
    PROVE  \A n \in S : f[n] = g[n]
<1> DEFINE last == Top + 1
           T == {d \in Nat : last - d \in S /\ f[last - d] # g[last - d]}
<1> SUFFICES ASSUME NEW n \in S, f[n] # g[n] PROVE FALSE
  OBVIOUS
<1>0. last \in Nat /\ \A k \in S : k \in Nat /\ k <= last
  BY LibraryAssumption
<1> HIDE DEF last
<1>1. T \in SUBSET Nat /\ last - n \in T
  <2>1. n \in Nat /\ last - n \in Nat /\ last - (last - n) = n
    BY <1>0
  <2> QED BY <2>1
<1>2. PICK d \in T : \A k \in T : d <= k
  <2> HIDE DEF T
  <2> QED BY <1>1, LeastNatural
<1>3. ASSUME NEW k \in S, k > last - d PROVE f[k] = g[k]
  <2>1. last - k \in Nat /\ last - (last - k) = k /\ last - k < d
    BY <1>0, <1>2, <1>3
  <2> QED BY <1>2, <2>1
<1> QED BY <1>2, <1>3

-----------------------------------------------------------------------------
(* The memory *)

MemoryOK == memory \in [0 .. Top -> Values] /\ memory[NULL] = 0

LEMMA Addresses ==
    /\ Top \in Nat /\ Address \subseteq 0 .. Top
    /\ {NULL} \cup Address = 0 .. Top
    /\ \A a \in Address : a \in Nat /\ a >= 1 /\ a <= Top
    /\ 0 \in Values /\ Values \subseteq Nat
BY LibraryAssumption, StringsAssumption DEF Address, NULL, Values

(* memset: each round sets one byte more.                                   *)
LEMMA memsetIs ==
    ASSUME MemoryOK, NEW dst \in Address, NEW value \in Values,
           NEW size \in Nat, dst + size - 1 <= Top
    PROVE  memset(memory, dst, value, size) =
              [a \in 0 .. Top |-> IF a \in dst .. dst + size - 1 THEN value
                                  ELSE memory[a]]
<1> DEFINE F(h) == [i \in 0 .. size |->
                       IF i = 0 THEN memory
                       ELSE [h[i - 1] EXCEPT ![dst + i - 1] = value]]
           g == [i \in 0 .. size |->
                    [a \in 0 .. Top |-> IF a \in dst .. dst + i - 1 THEN value
                                        ELSE memory[a]]]
           f == CHOOSE h : h = F(h)
<1>1. g = F(g)
  <2>1. ASSUME NEW i \in 0 .. size PROVE g[i] = F(g)[i]
    <3>1. CASE i = 0
      BY <3>1, Addresses DEF MemoryOK
    <3>2. CASE i # 0
      <4>1. i - 1 \in 0 .. size /\ dst + i - 1 \in 0 .. Top
        BY <3>2, Addresses
      <4>2. ASSUME NEW a \in 0 .. Top
            PROVE  g[i][a] = IF a = dst + i - 1 THEN value ELSE g[i - 1][a]
        BY <4>1, <3>2, Addresses
      <4>3. g[i] = [g[i - 1] EXCEPT ![dst + i - 1] = value]
        BY <4>1, <4>2
      <4> QED BY <3>2, <4>3
    <3> QED BY <3>1, <3>2
  <2> QED BY <2>1
<1>2. f = F(f)
  BY <1>1
<1>3. memset(memory, dst, value, size) = f[size]
  BY DEF memset
<1>4. \A i \in 0 .. size : f[i] = g[i]
  <2> DEFINE S == 0 .. size
  <2>1. ASSUME NEW i \in S, \A k \in S : k < i => f[k] = g[k]
        PROVE  f[i] = g[i]
    <3>1. f[i] = F(f)[i] /\ g[i] = F(g)[i]
      BY <1>1, <1>2
    <3> HIDE DEF f, g
    <3>2. i # 0 => i - 1 \in S /\ i - 1 < i
      OBVIOUS
    <3>3. i # 0 => f[i - 1] = g[i - 1]
      BY <2>1, <3>2
    <3> QED BY <3>1, <3>3
  <2>2. S \in SUBSET Nat
    OBVIOUS
  <2> HIDE DEF f, g, S
  <2>3. \A i \in S : f[i] = g[i]
    BY <2>1, <2>2, AgreeUpwards
  <2> QED BY <2>3 DEF S
<1>5. g[size] = [a \in 0 .. Top |-> IF a \in dst .. dst + size - 1 THEN value
                                    ELSE memory[a]]
  OBVIOUS
<1> HIDE DEF f, g
<1> QED BY <1>3, <1>4, <1>5

(* memcpy: each round copies one byte more, and reads it before any earlier *)
(* round could have overwritten it.                                         *)
LEMMA memcpyIs ==
    ASSUME MemoryOK, NEW dst \in Address, NEW src \in Address,
           NEW size \in Nat, MayCopy(dst, src, size)
    PROVE  memcpy(memory, dst, src, size) =
              [a \in 0 .. Top |-> IF a \in dst .. dst + size - 1
                                  THEN memory[src + a - dst] ELSE memory[a]]
<1> DEFINE F(h) == [i \in 0 .. size |->
                       IF i = 0 THEN memory
                       ELSE [h[i - 1] EXCEPT
                                ![dst + i - 1] = h[i - 1][src + i - 1]]]
           g == [i \in 0 .. size |->
                    [a \in 0 .. Top |-> IF a \in dst .. dst + i - 1
                                        THEN memory[src + a - dst]
                                        ELSE memory[a]]]
           f == CHOOSE h : h = F(h)
<1>0. /\ src + size - 1 <= Top /\ dst + size - 1 <= Top
      /\ dst \notin src + 1 .. src + size - 1
  BY DEF MayCopy
<1>1. g = F(g)
  <2>1. ASSUME NEW i \in 0 .. size PROVE g[i] = F(g)[i]
    <3>1. CASE i = 0
      BY <3>1, Addresses DEF MemoryOK
    <3>2. CASE i # 0
      <4>1. /\ i - 1 \in 0 .. size /\ dst + i - 1 \in 0 .. Top
            /\ src + i - 1 \in 0 .. Top
        BY <1>0, <3>2, Addresses
      <4>2. g[i - 1][src + i - 1] = memory[src + i - 1]
        <5>1. src + i - 1 \notin dst .. dst + (i - 1) - 1
          BY <1>0, <3>2, Addresses
        <5> QED BY <4>1, <5>1
      <4>3. ASSUME NEW a \in 0 .. Top
            PROVE  g[i][a] = IF a = dst + i - 1 THEN memory[src + i - 1]
                             ELSE g[i - 1][a]
        <5>1. a = dst + i - 1 => src + a - dst = src + i - 1
          BY Addresses
        <5> QED BY <3>2, <4>1, <5>1, Addresses
      <4>4. g[i] = [g[i - 1] EXCEPT ![dst + i - 1] = memory[src + i - 1]]
        BY <4>1, <4>3
      <4> QED BY <3>2, <4>2, <4>4
    <3> QED BY <3>1, <3>2
  <2> QED BY <2>1
<1>2. f = F(f)
  BY <1>1
<1>3. memcpy(memory, dst, src, size) = f[size]
  BY DEF memcpy
<1>4. \A i \in 0 .. size : f[i] = g[i]
  <2> DEFINE S == 0 .. size
  <2>1. ASSUME NEW i \in S, \A k \in S : k < i => f[k] = g[k]
        PROVE  f[i] = g[i]
    <3>1. f[i] = F(f)[i] /\ g[i] = F(g)[i]
      BY <1>1, <1>2
    <3> HIDE DEF f, g
    <3>2. i # 0 => i - 1 \in S /\ i - 1 < i
      OBVIOUS
    <3>3. i # 0 => f[i - 1] = g[i - 1]
      BY <2>1, <3>2
    <3> QED BY <3>1, <3>3
  <2>2. S \in SUBSET Nat
    OBVIOUS
  <2> HIDE DEF f, g, S
  <2>3. \A i \in S : f[i] = g[i]
    BY <2>1, <2>2, AgreeUpwards
  <2> QED BY <2>3 DEF S
<1>5. g[size] = [a \in 0 .. Top |-> IF a \in dst .. dst + size - 1
                                    THEN memory[src + a - dst] ELSE memory[a]]
  OBVIOUS
<1> HIDE DEF f, g
<1> QED BY <1>3, <1>4, <1>5

-----------------------------------------------------------------------------
(* Strings *)

LEMMA EndIs ==
    ASSUME MemoryOK, NEW str \in 0 .. Top, Zeros(str) # {}
    PROVE  /\ End(str) \in str .. Top /\ memory[End(str)] = 0
           /\ \A a \in str .. End(str) - 1 : memory[a] # 0
<1>1. Zeros(str) \in SUBSET Nat
  BY Addresses DEF Zeros
<1>2. End(str) \in Zeros(str) /\ \A a \in Zeros(str) : End(str) <= a
  BY <1>1, LeastNatural DEF End
<1>3. ASSUME NEW a \in str .. End(str) - 1 PROVE a \notin Zeros(str)
  BY <1>1, <1>2
<1>4. End(str) \in str .. Top /\ memory[End(str)] = 0
  BY <1>2 DEF Zeros
<1>5. ASSUME NEW a \in str .. End(str) - 1 PROVE memory[a] # 0
  <2>1. a \in str .. Top
    BY <1>4, Addresses
  <2> QED BY <1>3, <2>1 DEF Zeros
<1> QED BY <1>4, <1>5

\* The strings of the memory, and how a loop goes on in one
LEMMA StringsAre ==
    ASSUME MemoryOK
    PROVE  /\ Strings(memory) \in SUBSET (0 .. Top)
           /\ \A p \in Strings(memory) : Zeros(p) # {}
           /\ \A p \in Address : IsString(p) => p \in Strings(memory)
           /\ \A p \in Strings(memory) :
                 memory[p] # 0 => p + 1 \in Strings(memory)
<1>0. DOMAIN memory = 0 .. Top /\ Top \in Nat
  BY Addresses DEF MemoryOK
<1>1. Strings(memory) \in SUBSET (0 .. Top)
  BY <1>0 DEF Strings
<1>2. \A p \in 0 .. Top : p \in Strings(memory) <=> Zeros(p) # {}
  BY <1>0 DEF Strings, Zeros
<1>3. \A p \in Address : IsString(p) => p \in Strings(memory)
  BY <1>2, Addresses DEF IsString
<1>4. ASSUME NEW p \in Strings(memory), memory[p] # 0
      PROVE  p + 1 \in Strings(memory)
  <2>1. PICK q \in 0 .. Top : p <= q /\ memory[q] = 0
    BY <1>0 DEF Strings
  <2>2. p \in 0 .. Top /\ p # q
    BY <1>1, <1>4, <2>1
  <2>3. p + 1 \in 0 .. Top /\ p + 1 <= q
    BY <1>0, <2>1, <2>2
  <2> QED BY <1>0, <2>1, <2>3 DEF Strings
<1> QED BY <1>1, <1>2, <1>3, <1>4

\* The string that begins one character later ends at the same zero.
LEMMA EndSteps ==
    ASSUME MemoryOK, NEW p \in Strings(memory)
    PROVE  /\ End(p) \in p .. Top /\ memory[End(p)] = 0
           /\ memory[p] = 0 => End(p) = p
           /\ memory[p] # 0 => p < End(p) /\ End(p + 1) = End(p)
<1>0. p \in 0 .. Top /\ Zeros(p) # {} /\ Top \in Nat
  BY StringsAre, Addresses
<1>1. /\ End(p) \in p .. Top /\ memory[End(p)] = 0
      /\ \A a \in p .. End(p) - 1 : memory[a] # 0
  BY <1>0, EndIs
<1>2. memory[p] = 0 => End(p) = p
  BY <1>0, <1>1
<1>3. CASE memory[p] # 0
  <2>1. p < End(p)
    BY <1>0, <1>1, <1>3
  <2>2. p + 1 \in 0 .. Top /\ Zeros(p + 1) # {}
    BY <1>3, StringsAre
  <2>3. /\ End(p + 1) \in p + 1 .. Top /\ memory[End(p + 1)] = 0
        /\ \A a \in p + 1 .. End(p + 1) - 1 : memory[a] # 0
    BY <2>2, EndIs
  <2>4. ~(End(p + 1) < End(p))
    BY <1>0, <1>1, <2>3
  <2>5. ~(End(p) < End(p + 1))
    BY <1>0, <1>1, <2>1, <2>3
  <2> QED BY <1>0, <1>1, <2>1, <2>3, <2>4, <2>5
<1> QED BY <1>1, <1>2, <1>3

LEMMA TerminatorIs ==
    ASSUME MemoryOK, NEW p \in Strings(memory)
    PROVE  Terminator(memory, p) = End(p)
<1> DEFINE S == Strings(memory)
           F(h) == [q \in S |-> IF memory[q] = 0 THEN q ELSE h[q + 1]]
           g == [q \in S |-> End(q)]
           f == CHOOSE h : h = F(h)
<1>1. g = F(g)
  <2>1. ASSUME NEW q \in S PROVE g[q] = F(g)[q]
    BY EndSteps, StringsAre
  <2> QED BY <2>1
<1>2. f = F(f)
  BY <1>1
<1>3. Terminator(memory, p) = f[p]
  BY DEF Terminator
<1>4. \A q \in S : f[q] = g[q]
  <2>1. ASSUME NEW q \in S, \A k \in S : k > q => f[k] = g[k]
        PROVE  f[q] = g[q]
    <3>1. f[q] = F(f)[q] /\ g[q] = F(g)[q]
      BY <1>1, <1>2
    <3> HIDE DEF f, g
    <3>2. memory[q] # 0 => q + 1 \in S /\ q + 1 > q
      BY StringsAre
    <3>3. memory[q] # 0 => f[q + 1] = g[q + 1]
      BY <2>1, <3>2
    <3> QED BY <3>1, <3>3
  <2>2. S \in SUBSET (0 .. Top + 1)
    BY StringsAre, Addresses
  <2> HIDE DEF f, g, S
  <2> QED BY <2>1, <2>2, AgreeDownwards
<1>5. g[p] = End(p)
  OBVIOUS
<1> HIDE DEF f, g
<1> QED BY <1>3, <1>4, <1>5

LEMMA StringHere ==
    ASSUME MemoryOK, NEW str \in Address, IsString(str)
    PROVE  /\ str \in Strings(memory) /\ str \in Nat /\ str >= 1
           /\ End(str) \in str .. Top /\ End(str) \in Address
           /\ memory[End(str)] = 0
           /\ \A a \in str .. End(str) - 1 : memory[a] # 0
           /\ Length(str) \in Nat /\ str + Length(str) = End(str)
           /\ Terminator(memory, str) = End(str)
           /\ strlen(memory, str) = Length(str)
<1>1. str \in Strings(memory) /\ str \in Nat /\ str >= 1 /\ Top \in Nat
  BY StringsAre, Addresses
<1>2. str \in 0 .. Top /\ Zeros(str) # {}
  BY Addresses DEF IsString
<1>3. /\ End(str) \in str .. Top /\ memory[End(str)] = 0
      /\ \A a \in str .. End(str) - 1 : memory[a] # 0
  BY <1>2, EndIs
<1>4. End(str) \in Address
  BY <1>1, <1>3 DEF Address
<1>5. Length(str) \in Nat /\ str + Length(str) = End(str)
  BY <1>1, <1>3 DEF Length
<1>6. Terminator(memory, str) = End(str)
  BY <1>1, TerminatorIs
<1> QED BY <1>1, <1>3, <1>4, <1>5, <1>6 DEF strlen, Length

(* strcpy: the first zero it copies is the end of the string, which nothing *)
(* has overwritten.                                                         *)
LEMMA strcpyIs ==
    ASSUME MemoryOK, NEW dst \in Address, NEW src \in Address,
           MayStrcpy(dst, src)
    PROVE  strcpy(memory, dst, src) = memcpy(memory, dst, src, Length(src) + 1)
<1> DEFINE n == Length(src) + 1
           Ends(i) == memcpy(memory, dst, src, i)[dst + i - 1] = 0
           Last(i) == Ends(i) /\ \A j \in 1 .. i - 1 : ~Ends(j)
           rounds == CHOOSE i \in DOMAIN memory \ {NULL} : Last(i)
<1>1. /\ IsString(src) /\ MayCopy(dst, src, n)
      /\ Top \in Nat /\ dst \in Nat /\ dst >= 1
  BY Addresses DEF MayStrcpy
<1>2. /\ src \in Nat /\ src >= 1 /\ End(src) \in src .. Top
      /\ n \in Nat /\ n >= 1 /\ src + n - 1 = End(src)
      /\ memory[End(src)] = 0
      /\ \A a \in src .. End(src) - 1 : memory[a] # 0
  BY <1>1, StringHere
<1> HIDE DEF n
<1>3. ASSUME NEW i \in 1 .. n
      PROVE  Ends(i) <=> i = n
  <2>1. i \in Nat /\ MayCopy(dst, src, i) /\ dst + i - 1 <= Top
    BY <1>1, <1>2 DEF MayCopy
  <2>2. memcpy(memory, dst, src, i) =
           [a \in 0 .. Top |-> IF a \in dst .. dst + i - 1
                               THEN memory[src + a - dst] ELSE memory[a]]
    BY <2>1, memcpyIs
  <2>3. /\ dst + i - 1 \in 0 .. Top /\ dst + i - 1 \in dst .. dst + i - 1
        /\ src + (dst + i - 1) - dst = src + i - 1
    BY <1>1, <1>2, <2>1
  <2>4. memcpy(memory, dst, src, i)[dst + i - 1] = memory[src + i - 1]
    BY <2>2, <2>3
  <2>5. i # n => src + i - 1 \in src .. End(src) - 1
    BY <1>2
  <2> QED BY <1>2, <2>4, <2>5
<1>4. DOMAIN memory \ {NULL} = 1 .. Top
  BY <1>1 DEF MemoryOK, NULL
<1>5. n \in 1 .. Top /\ Last(n)
  <2>1. n \in 1 .. Top
    BY <1>1, <1>2
  <2>2. \A j \in 1 .. n - 1 : j \in 1 .. n /\ j # n
    BY <1>2
  <2> QED BY <1>2, <1>3, <2>1, <2>2
<1>6. ASSUME NEW i \in 1 .. Top, Last(i) PROVE i = n
  <2>1. CASE i < n
    BY <1>2, <1>3, <1>6, <2>1
  <2>2. CASE n < i
    <3>1. n \in 1 .. i - 1
      BY <1>2, <2>2
    <3> QED BY <1>5, <1>6, <3>1
  <2> QED BY <1>2, <2>1, <2>2
<1>7. rounds = n
  <2> HIDE DEF Last
  <2>1. rounds \in 1 .. Top /\ Last(rounds)
    BY <1>4, <1>5
  <2> HIDE DEF rounds
  <2> QED BY <1>6, <2>1
<1>8. strcpy(memory, dst, src) = memcpy(memory, dst, src, rounds)
  BY DEF strcpy
<1> HIDE DEF rounds
<1> QED BY <1>7, <1>8 DEF n

LEMMA CopyLeaves ==
    ASSUME MemoryOK, NEW dst \in Address, NEW src \in Address,
           NEW size \in Nat, MayCopy(dst, src, size)
    PROVE  Copied(memcpy(memory, dst, src, size), dst, src, size)
<1>1. DOMAIN memory = 0 .. Top
  BY DEF MemoryOK
<1> QED BY <1>1, memcpyIs DEF Copied

LEMMA StrcpyLeaves ==
    ASSUME MemoryOK, NEW dst \in Address, NEW src \in Address,
           MayStrcpy(dst, src)
    PROVE  /\ Length(src) + 1 \in Nat /\ MayCopy(dst, src, Length(src) + 1)
           /\ Copied(strcpy(memory, dst, src), dst, src, Length(src) + 1)
<1>1. Length(src) + 1 \in Nat /\ MayCopy(dst, src, Length(src) + 1)
  BY StringHere DEF MayStrcpy
<1> QED BY <1>1, strcpyIs, CopyLeaves

LEMMA StrcatLeaves ==
    ASSUME MemoryOK, NEW dst \in Address, NEW src \in Address,
           MayStrcat(dst, src)
    PROVE  /\ End(dst) \in Address /\ MayStrcpy(End(dst), src)
           /\ Copied(strcat(memory, dst, src), End(dst), src, Length(src) + 1)
<1>1. IsString(dst) /\ MayStrcpy(End(dst), src)
  BY DEF MayStrcat
<1>2. End(dst) \in Address /\ Terminator(memory, dst) = End(dst)
  BY <1>1, StringHere
<1>3. strcat(memory, dst, src) = strcpy(memory, End(dst), src)
  BY <1>2 DEF strcat
<1> QED BY <1>1, <1>2, <1>3, StrcpyLeaves

LEMMA CopiesAreRight == MemoryOK => CopiesRight
<1> SUFFICES ASSUME MemoryOK PROVE CopiesRight
  OBVIOUS
<1>1. memory[NULL] = 0
  BY DEF MemoryOK
<1>2. \A size \in 0 .. Top : size \in Nat
  BY Addresses
<1>3. ASSUME NEW dst \in Address, NEW value \in Values, NEW size \in 0 .. Top,
             dst + size - 1 <= Top
      PROVE  Filled(memset(memory, dst, value, size), dst, value, size)
  <2>1. DOMAIN memory = 0 .. Top
    BY DEF MemoryOK
  <2> QED BY <1>2, <1>3, <2>1, memsetIs DEF Filled
<1> QED BY <1>1, <1>2, <1>3, CopyLeaves, StrcpyLeaves, StrcatLeaves
        DEF CopiesRight

-----------------------------------------------------------------------------
(* The memory stays one *)

LEMMA CopyKeepsMemory ==
    ASSUME MemoryOK, NEW dst \in Address, NEW src \in Address,
           NEW size \in Nat, MayCopy(dst, src, size), NEW after,
           Copied(after, dst, src, size)
    PROVE  after \in [0 .. Top -> Values] /\ after[NULL] = 0
<1>1. /\ src + size - 1 <= Top /\ dst + size - 1 <= Top /\ Top \in Nat
      /\ src \in Nat /\ dst \in Nat /\ dst >= 1 /\ src >= 1
  BY Addresses DEF MayCopy
<1>2. after = [a \in 0 .. Top |-> IF a \in dst .. dst + size - 1
                                  THEN memory[src + a - dst] ELSE memory[a]]
  BY DEF Copied, MemoryOK
<1>3. \A a \in 0 .. Top :
         a \in dst .. dst + size - 1 => src + a - dst \in 0 .. Top
  BY <1>1
<1>4. NULL \in 0 .. Top /\ NULL \notin dst .. dst + size - 1
  BY <1>1 DEF NULL
<1> QED BY <1>2, <1>3, <1>4 DEF MemoryOK

LEMMA SetKeepsMemory ==
    ASSUME MemoryOK, NEW dst \in Address, NEW value \in Values,
           NEW size \in Nat, dst + size - 1 <= Top
    PROVE  /\ memset(memory, dst, value, size) \in [0 .. Top -> Values]
           /\ memset(memory, dst, value, size)[NULL] = 0
<1>1. NULL \in 0 .. Top /\ NULL \notin dst .. dst + size - 1
  BY Addresses DEF NULL
<1>2. memset(memory, dst, value, size) =
         [a \in 0 .. Top |-> IF a \in dst .. dst + size - 1 THEN value
                             ELSE memory[a]]
  BY memsetIs
<1> QED BY <1>1, <1>2 DEF MemoryOK

LEMMA MemoryStays == LibrarySpec => []MemoryOK
<1>1. LibraryInit => MemoryOK
  <2>1. ASSUME BitmapInit PROVE MemoryOK
    BY <2>1, Addresses DEF BitmapInit, MemoryOK
  <2>2. ASSUME StringInit PROVE MemoryOK
    <3>1. PICK content \in [Address -> Values] :
             memory = [a \in {NULL} \cup Address |->
                          IF a = NULL THEN 0 ELSE content[a]]
      BY <2>2 DEF StringInit
    <3> QED BY <3>1, Addresses DEF MemoryOK
  <2> QED BY <2>1, <2>2 DEF LibraryInit
<1>2. MemoryOK /\ [LibraryNext]_libraryVars => MemoryOK'
  <2> SUFFICES ASSUME MemoryOK, [LibraryNext]_libraryVars PROVE MemoryOK'
    OBVIOUS
  <2> DEFINE Fine(after) ==
                after \in [0 .. Top -> Values] /\ after[NULL] = 0
  <2>1. Fine(memory) /\ (Fine(memory') => MemoryOK')
    BY DEF MemoryOK
  <2>2. CASE BitmapCall
    BY <2>1, <2>2 DEF BitmapCall
  <2>3. CASE StringCall
    <3> SUFFICES memory' = memory \/ Fine(memory')
      BY <2>1
    <3>1. PICK dst, src \in {NULL} \cup Address :
             \/ Write({dst, src}, MayStrcpy(dst, src), strcpy(memory, dst, src))
             \/ Write({dst, src}, MayStrcat(dst, src), strcat(memory, dst, src))
             \/ \E size \in 0 .. Top :
                   Write({dst, src}, MayCopy(dst, src, size),
                         memcpy(memory, dst, src, size))
             \/ \E size \in 0 .. Top, value \in Values :
                   Write({dst}, dst + size - 1 <= Top,
                         memset(memory, dst, value, size))
      BY <2>3 DEF StringCall
    <3>2. /\ Asserted({dst, src}) => dst \in Address /\ src \in Address
          /\ Asserted({dst}) => dst \in Address
      BY DEF Asserted
    <3>3. ASSUME Write({dst, src}, MayStrcpy(dst, src),
                       strcpy(memory, dst, src))
          PROVE  memory' = memory \/ Fine(memory')
      BY <3>2, <3>3, StrcpyLeaves, CopyKeepsMemory DEF Write
    <3>4. ASSUME Write({dst, src}, MayStrcat(dst, src),
                       strcat(memory, dst, src))
          PROVE  memory' = memory \/ Fine(memory')
      <4>1. CASE Asserted({dst, src})
        <5>1. /\ dst \in Address /\ src \in Address
              /\ MayStrcat(dst, src) /\ memory' = strcat(memory, dst, src)
          BY <3>2, <3>4, <4>1 DEF Write
        <5>2. /\ End(dst) \in Address /\ MayStrcpy(End(dst), src)
              /\ Copied(memory', End(dst), src, Length(src) + 1)
          BY <5>1, StrcatLeaves
        <5> QED BY <5>1, <5>2, StrcpyLeaves, CopyKeepsMemory
      <4> QED BY <3>4, <4>1 DEF Write
    <3>5. ASSUME NEW size \in 0 .. Top,
                 Write({dst, src}, MayCopy(dst, src, size),
                       memcpy(memory, dst, src, size))
          PROVE  memory' = memory \/ Fine(memory')
      <4>1. size \in Nat
        BY Addresses
      <4> QED BY <3>2, <3>5, <4>1, CopyLeaves, CopyKeepsMemory DEF Write
    <3>6. ASSUME NEW size \in 0 .. Top, NEW value \in Values,
                 Write({dst}, dst + size - 1 <= Top,
                       memset(memory, dst, value, size))
          PROVE  memory' = memory \/ Fine(memory')
      <4>1. size \in Nat
        BY Addresses
      <4> QED BY <3>2, <3>6, <4>1, SetKeepsMemory DEF Write
    <3> QED BY <3>1, <3>3, <3>4, <3>5, <3>6
  <2>4. CASE StringRead
    BY <2>1, <2>4 DEF StringRead
  <2>5. CASE UNCHANGED libraryVars
    BY <2>1, <2>5 DEF libraryVars
  <2> QED BY <2>2, <2>3, <2>4, <2>5 DEF LibraryNext
<1> QED BY <1>1, <1>2, PTL DEF LibrarySpec

(* Every call that writes, memset's too, leaves what it should and nothing  *)
(* else, in every memory that calls of the library can leave behind         *)
(* (string.c:19-47,85-92,189-199).                                          *)
THEOREM CopiesAlwaysRight == LibrarySpec => []CopiesRight
BY MemoryStays, CopiesAreRight, PTL

-----------------------------------------------------------------------------
(* Searches *)

LEMMA CharIs ==
    ASSUME NEW byte \in Values
    PROVE  /\ Char(byte) \in Int
           /\ \A chr \in Values :
                 Char(byte) = chr <=> chr < ByteValues \div 2 /\ byte = chr
           /\ \A other \in Values : Char(byte) = Char(other) => byte = other
<1> DEFINE half == ByteValues \div 2
<1>1. half \in Nat /\ ByteValues \in Nat /\ half <= ByteValues
  BY StringsAssumption
<1>2. \A v \in Values : v \in Nat /\ v < ByteValues
  BY StringsAssumption DEF Values
<1>3. \A v \in Values : Char(v) = IF v < half THEN v ELSE v - ByteValues
  BY DEF Char
<1> HIDE DEF half
<1>4. \A v \in Values : v < half => Char(v) = v /\ Char(v) >= 0
  BY <1>2, <1>3
<1>5. \A v \in Values : ~(v < half) => Char(v) = v - ByteValues /\ Char(v) < 0
  BY <1>1, <1>2, <1>3
<1>6. Char(byte) \in Int
  BY <1>1, <1>2, <1>4, <1>5
<1>7. \A chr \in Values : Char(byte) = chr <=> chr < half /\ byte = chr
  BY <1>1, <1>2, <1>4, <1>5
<1>8. \A other \in Values : Char(byte) = Char(other) => byte = other
  BY <1>1, <1>2, <1>4, <1>5
<1> QED BY <1>6, <1>7, <1>8 DEF half

\* Where the loops, between two places, find a character
Matches(p, last, chr) == {a \in p .. last - 1 : Char(memory[a]) = chr}

LEMMA MatchesAre ==
    ASSUME MemoryOK, NEW str \in Address, IsString(str),
           NEW chr \in 0 .. ByteValues \div 2 - 1
    PROVE  Matches(str, End(str), chr) = Found(str, chr)
<1>0. chr \in Values /\ chr < ByteValues \div 2
  BY StringsAssumption DEF Values
<1>1. End(str) \in str .. Top /\ str \in Nat /\ Top \in Nat
  BY StringHere, Addresses
<1>2. ASSUME NEW a \in str .. End(str) - 1
      PROVE  Char(memory[a]) = chr <=> memory[a] = chr
  <2>1. a \in 0 .. Top
    BY <1>1
  <2>2. memory[a] \in Values
    BY <2>1 DEF MemoryOK
  <2> QED BY <1>0, <2>2, CharIs
<1> QED BY <1>2 DEF Matches, Found, Text

(* strchr: the first match behind where its pointer is.                     *)
LEMMA strchrIs ==
    ASSUME MemoryOK, NEW str \in Strings(memory), NEW chr
    PROVE  strchr(memory, str, chr) =
              LET found == Matches(str, End(str), chr)
              IN  IF found = {} THEN NULL ELSE Least(found)
<1> DEFINE S == Strings(memory)
           F(h) == [p \in S |-> IF memory[p] = 0 THEN NULL
                                ELSE IF Char(memory[p]) = chr THEN p
                                ELSE h[p + 1]]
           Here(p) == Matches(p, End(p), chr)
           g == [p \in S |-> IF Here(p) = {} THEN NULL ELSE Least(Here(p))]
           f == CHOOSE h : h = F(h)
<1>1. g = F(g)
  <2>1. ASSUME NEW p \in S PROVE g[p] = F(g)[p]
    <3>1. /\ p \in Nat /\ Top \in Nat /\ End(p) \in p .. Top
          /\ memory[p] = 0 => End(p) = p
          /\ memory[p] # 0 => /\ p < End(p) /\ End(p + 1) = End(p)
                              /\ p + 1 \in S
      BY EndSteps, StringsAre, Addresses
    <3>2. CASE memory[p] = 0
      <4>1. Here(p) = {}
        BY <3>1, <3>2 DEF Matches
      <4> QED BY <3>2, <4>1
    <3>3. CASE memory[p] # 0 /\ Char(memory[p]) = chr
      <4>1. p \in Here(p) /\ Here(p) \in SUBSET Int /\ \A a \in Here(p) : p <= a
        BY <3>1, <3>3 DEF Matches
      <4> HIDE DEF Here
      <4>2. Least(Here(p)) = p
        BY <4>1, LeastIs
      <4> QED BY <3>3, <4>1, <4>2
    <3>4. CASE memory[p] # 0 /\ Char(memory[p]) # chr
      <4>1. Here(p) = Here(p + 1)
        BY <3>1, <3>4 DEF Matches
      <4> QED BY <3>1, <3>4, <4>1
    <3> QED BY <3>2, <3>3, <3>4
  <2> QED BY <2>1
<1>2. f = F(f)
  BY <1>1
<1>3. strchr(memory, str, chr) = f[str]
  BY DEF strchr
<1>4. \A p \in S : f[p] = g[p]
  <2>1. ASSUME NEW p \in S, \A k \in S : k > p => f[k] = g[k]
        PROVE  f[p] = g[p]
    <3>1. f[p] = F(f)[p] /\ g[p] = F(g)[p]
      BY <1>1, <1>2
    <3> HIDE DEF f, g
    <3>2. memory[p] # 0 => p + 1 \in S /\ p + 1 > p
      BY StringsAre
    <3>3. memory[p] # 0 => f[p + 1] = g[p + 1]
      BY <2>1, <3>2
    <3> QED BY <3>1, <3>3
  <2>2. S \in SUBSET (0 .. Top + 1)
    BY StringsAre, Addresses
  <2> HIDE DEF f, g, S
  <2> QED BY <2>1, <2>2, AgreeDownwards
<1>5. g[str] = IF Here(str) = {} THEN NULL ELSE Least(Here(str))
  OBVIOUS
<1> HIDE DEF f, g
<1> QED BY <1>3, <1>4, <1>5

\* One more character has been looked at.
LEMMA MatchesStep ==
    ASSUME NEW str \in Nat, NEW p \in Nat, str < p, NEW chr
    PROVE  /\ Matches(str, p - 1, chr) \in SUBSET Nat
           /\ \A a \in Matches(str, p - 1, chr) : a < p - 1
           /\ Matches(str, p, chr) =
                 IF Char(memory[p - 1]) = chr
                 THEN Matches(str, p - 1, chr) \cup {p - 1}
                 ELSE Matches(str, p - 1, chr)
BY DEF Matches

(* strrchr: last_char is the last match in front of where its pointer is.   *)
LEMMA strrchrIs ==
    ASSUME MemoryOK, NEW str \in Address, IsString(str), NEW chr
    PROVE  strrchr(memory, str, chr) =
              LET found == Matches(str, End(str), chr)
              IN  IF found = {} THEN NULL ELSE Greatest(found)
<1> DEFINE S == str .. Terminator(memory, str)
           F(h) == [p \in S |-> IF p = str THEN NULL
                                ELSE IF Char(memory[p - 1]) = chr THEN p - 1
                                ELSE h[p - 1]]
           Here(p) == Matches(str, p, chr)
           g == [p \in S |-> IF Here(p) = {} THEN NULL ELSE Greatest(Here(p))]
           f == CHOOSE h : h = F(h)
<1>0. /\ Terminator(memory, str) = End(str) /\ str \in Nat
      /\ End(str) \in Nat /\ str <= End(str)
  BY StringHere, Addresses
<1>1. g = F(g)
  <2>1. ASSUME NEW p \in S PROVE g[p] = F(g)[p]
    <3>1. CASE p = str
      <4>1. Here(p) = {}
        BY <1>0, <3>1 DEF Matches
      <4> QED BY <3>1, <4>1
    <3>2. CASE p # str
      <4>1. p \in Nat /\ str < p /\ p - 1 \in S
        BY <1>0, <3>2
      <4>2. /\ Here(p - 1) \in SUBSET Nat /\ \A a \in Here(p - 1) : a < p - 1
            /\ Here(p) = IF Char(memory[p - 1]) = chr
                         THEN Here(p - 1) \cup {p - 1} ELSE Here(p - 1)
        BY <1>0, <4>1, MatchesStep
      <4> HIDE DEF Here
      <4>3. CASE Char(memory[p - 1]) = chr
        <5>1. /\ Here(p) \in SUBSET Int /\ p - 1 \in Here(p)
              /\ \A a \in Here(p) : p - 1 >= a
          BY <4>1, <4>2, <4>3
        <5>2. Greatest(Here(p)) = p - 1
          BY <5>1, GreatestIs
        <5> QED BY <3>2, <4>3, <5>1, <5>2
      <4>4. CASE Char(memory[p - 1]) # chr
        BY <3>2, <4>1, <4>2, <4>4
      <4> QED BY <4>3, <4>4
    <3> QED BY <3>1, <3>2
  <2> QED BY <2>1
<1>2. f = F(f)
  BY <1>1
<1>3. strrchr(memory, str, chr) = f[Terminator(memory, str)]
  BY DEF strrchr
<1>4. \A p \in S : f[p] = g[p]
  <2>1. ASSUME NEW p \in S, \A k \in S : k < p => f[k] = g[k]
        PROVE  f[p] = g[p]
    <3>1. f[p] = F(f)[p] /\ g[p] = F(g)[p]
      BY <1>1, <1>2
    <3> HIDE DEF f, g
    <3>2. p # str => p - 1 \in S /\ p - 1 < p
      BY <1>0
    <3>3. p # str => f[p - 1] = g[p - 1]
      BY <2>1, <3>2
    <3> QED BY <3>1, <3>3
  <2>2. S \in SUBSET Nat
    BY <1>0
  <2> HIDE DEF f, g, S
  <2> QED BY <2>1, <2>2, AgreeUpwards
<1>5. End(str) \in S
  BY <1>0
<1>6. g[End(str)] = IF Here(End(str)) = {} THEN NULL
                    ELSE Greatest(Here(End(str)))
  BY <1>5
<1> HIDE DEF f, g, S
<1> QED BY <1>0, <1>3, <1>4, <1>5, <1>6

(* strchrs: char_count is the number of matches so far.                     *)
LEMMA strchrsIs ==
    ASSUME MemoryOK, NEW str \in Address, IsString(str), NEW chr
    PROVE  strchrs(memory, str, chr) = Cardinality(Matches(str, End(str), chr))
<1> DEFINE S == str .. Terminator(memory, str)
           F(h) == [p \in S |->
                       IF p = str THEN 0
                       ELSE h[p - 1]
                               + (IF Char(memory[p - 1]) = chr THEN 1 ELSE 0)]
           Here(p) == Matches(str, p, chr)
           g == [p \in S |-> Cardinality(Here(p))]
           f == CHOOSE h : h = F(h)
<1>0. /\ Terminator(memory, str) = End(str) /\ str \in Nat
      /\ End(str) \in Nat /\ str <= End(str)
  BY StringHere, Addresses
<1>1. g = F(g)
  <2>1. ASSUME NEW p \in S PROVE g[p] = F(g)[p]
    <3>1. CASE p = str
      <4>1. Here(p) = {}
        BY <1>0, <3>1 DEF Matches
      <4> QED BY <3>1, <4>1, FS_EmptySet
    <3>2. CASE p # str
      <4>1. p \in Nat /\ str < p /\ p - 1 \in S
        BY <1>0, <3>2
      <4>2. /\ \A a \in Here(p - 1) : a < p - 1
            /\ Here(p) = IF Char(memory[p - 1]) = chr
                         THEN Here(p - 1) \cup {p - 1} ELSE Here(p - 1)
        BY <1>0, <4>1, MatchesStep
      <4>3. IsFiniteSet(Here(p - 1)) /\ Cardinality(Here(p - 1)) \in Nat
        <5>1. IsFiniteSet(str .. (p - 1) - 1)
          BY <1>0, <4>1, FS_Interval
        <5>2. Here(p - 1) \subseteq str .. (p - 1) - 1
          BY DEF Matches
        <5> QED BY <5>1, <5>2, FS_Subset, FS_CardinalityType
      <4>4. p - 1 \notin Here(p - 1)
        BY <4>1, <4>2
      <4> HIDE DEF Here
      <4>5. Cardinality(Here(p)) =
               Cardinality(Here(p - 1))
                  + (IF Char(memory[p - 1]) = chr THEN 1 ELSE 0)
        <5>1. Cardinality(Here(p - 1) \cup {p - 1})
                 = Cardinality(Here(p - 1)) + 1
          BY <4>3, <4>4, FS_AddElement
        <5> QED BY <4>2, <4>3, <5>1
      <4> QED BY <3>2, <4>1, <4>5
    <3> QED BY <3>1, <3>2
  <2> QED BY <2>1
<1>2. f = F(f)
  BY <1>1
<1>3. strchrs(memory, str, chr) = f[Terminator(memory, str)]
  BY DEF strchrs
<1>4. \A p \in S : f[p] = g[p]
  <2>1. ASSUME NEW p \in S, \A k \in S : k < p => f[k] = g[k]
        PROVE  f[p] = g[p]
    <3>1. f[p] = F(f)[p] /\ g[p] = F(g)[p]
      BY <1>1, <1>2
    <3> HIDE DEF f, g
    <3>2. p # str => p - 1 \in S /\ p - 1 < p
      BY <1>0
    <3>3. p # str => f[p - 1] = g[p - 1]
      BY <2>1, <3>2
    <3> QED BY <3>1, <3>3
  <2>2. S \in SUBSET Nat
    BY <1>0
  <2> HIDE DEF f, g, S
  <2> QED BY <2>1, <2>2, AgreeUpwards
<1>5. End(str) \in S
  BY <1>0
<1>6. g[End(str)] = Cardinality(Here(End(str)))
  BY <1>5
<1> HIDE DEF f, g, S
<1> QED BY <1>0, <1>3, <1>4, <1>5, <1>6

-----------------------------------------------------------------------------
(* Comparisons *)

Differ(a, b, i, size) == {k \in i .. size - 1 : memory[a + k] # memory[b + k]}

\* What decides the order of the rest, from the i-th byte on
OrderFrom(a, b, i, size) ==
    LET k == Least(Differ(a, b, i, size))
    IN  IF Differ(a, b, i, size) = {} THEN 0
        ELSE IF Char(memory[a + k]) < Char(memory[b + k]) THEN -1 ELSE 1

LEMMA OrderIs ==
    ASSUME NEW a, NEW b, NEW size
    PROVE  Order(a, b, size) = OrderFrom(a, b, 0, size)
BY DEF Order, OrderFrom, Differ

LEMMA OrderSteps ==
    ASSUME MemoryOK, NEW a \in Address, NEW b \in Address, NEW size \in Nat,
           a + size - 1 <= Top, b + size - 1 <= Top, NEW i \in 0 .. size
    PROVE  /\ i = size => OrderFrom(a, b, i, size) = 0
           /\ i # size /\ memory[a + i] = memory[b + i] =>
                 OrderFrom(a, b, i, size) = OrderFrom(a, b, i + 1, size)
           /\ i # size /\ memory[a + i] # memory[b + i] =>
                 LET less == Char(memory[a + i]) < Char(memory[b + i])
                     more == Char(memory[a + i]) > Char(memory[b + i])
                 IN  /\ OrderFrom(a, b, i, size) = IF more THEN 1 ELSE -1
                     /\ OrderFrom(a, b, i, size) = IF less THEN -1 ELSE 1
                     /\ less <=> ~more
<1>0. a \in Nat /\ b \in Nat /\ Top \in Nat
  BY Addresses
<1>1. CASE i = size
  BY <1>1 DEF OrderFrom, Differ
<1>2. CASE i # size /\ memory[a + i] = memory[b + i]
  <2>1. Differ(a, b, i, size) = Differ(a, b, i + 1, size)
    BY <1>2 DEF Differ
  <2> QED BY <1>2, <2>1 DEF OrderFrom
<1>3. CASE i # size /\ memory[a + i] # memory[b + i]
  <2>1. /\ i \in Differ(a, b, i, size)
        /\ Differ(a, b, i, size) \in SUBSET Int
        /\ \A k \in Differ(a, b, i, size) : i <= k
    BY <1>3 DEF Differ
  <2>2. Least(Differ(a, b, i, size)) = i
    BY <2>1, LeastIs
  <2>3. a + i \in 0 .. Top /\ b + i \in 0 .. Top
    BY <1>0, <1>3
  <2>4. memory[a + i] \in Values /\ memory[b + i] \in Values
    BY <2>3 DEF MemoryOK
  <2>5. /\ Char(memory[a + i]) \in Int /\ Char(memory[b + i]) \in Int
        /\ Char(memory[a + i]) # Char(memory[b + i])
    BY <1>3, <2>4, CharIs
  <2>6. OrderFrom(a, b, i, size) =
           IF Char(memory[a + i]) < Char(memory[b + i]) THEN -1 ELSE 1
    BY <2>1, <2>2 DEF OrderFrom
  <2> QED BY <1>3, <2>5, <2>6
<1> QED BY <1>1, <1>2, <1>3

(* memcmp: the first two bytes that differ decide.                          *)
LEMMA memcmpIs ==
    ASSUME MemoryOK, NEW a \in Address, NEW b \in Address, NEW size \in Nat,
           a + size - 1 <= Top, b + size - 1 <= Top
    PROVE  memcmp(memory, a, b, size) = Order(a, b, size)
<1> DEFINE S == 0 .. size
           F(h) == [i \in S |->
                       IF i = size THEN 0
                       ELSE IF memory[a + i] # memory[b + i]
                            THEN IF Char(memory[a + i]) > Char(memory[b + i])
                                 THEN 1 ELSE -1
                       ELSE h[i + 1]]
           g == [i \in S |-> OrderFrom(a, b, i, size)]
           f == CHOOSE h : h = F(h)
<1>1. g = F(g)
  <2>1. ASSUME NEW i \in S PROVE g[i] = F(g)[i]
    <3>1. i # size => i + 1 \in S
      OBVIOUS
    <3> QED BY <3>1, OrderSteps
  <2> QED BY <2>1
<1>2. f = F(f)
  BY <1>1
<1>3. memcmp(memory, a, b, size) = f[0]
  BY DEF memcmp
<1>4. \A i \in S : f[i] = g[i]
  <2>1. ASSUME NEW i \in S, \A k \in S : k > i => f[k] = g[k]
        PROVE  f[i] = g[i]
    <3>1. f[i] = F(f)[i] /\ g[i] = F(g)[i]
      BY <1>1, <1>2
    <3> HIDE DEF f, g
    <3>2. i # size => i + 1 \in S /\ i + 1 > i
      OBVIOUS
    <3>3. i # size => f[i + 1] = g[i + 1]
      BY <2>1, <3>2
    <3> QED BY <3>1, <3>3
  <2>2. S \in SUBSET (0 .. Top + 1)
    BY Addresses
  <2> HIDE DEF f, g, S
  <2> QED BY <2>1, <2>2, AgreeDownwards
<1>5. 0 \in S /\ g[0] = OrderFrom(a, b, 0, size)
  OBVIOUS
<1> HIDE DEF f, g, S
<1> QED BY <1>3, <1>4, <1>5, OrderIs

LEMMA Shorter ==
    ASSUME NEW j \in Nat, NEW k \in Nat
    PROVE  Least({j, k}) = IF j < k THEN j ELSE k
<1>1. {j, k} \in SUBSET Int
  OBVIOUS
<1>2. CASE j < k
  <2>1. j \in {j, k} /\ \A y \in {j, k} : j <= y
    BY <1>2
  <2> QED BY <1>1, <1>2, <2>1, LeastIs
<1>3. CASE ~(j < k)
  <2>1. k \in {j, k} /\ \A y \in {j, k} : k <= y
    BY <1>3
  <2> QED BY <1>1, <1>3, <2>1, LeastIs
<1> QED BY <1>2, <1>3

LEMMA Uint8Of == Uint8(0) = 0 /\ Uint8(1) = 1 /\ Uint8(-1) = 255
<1>1. Uint8(0) = 0 /\ Uint8(1) = 1
  BY DEF Uint8
<1>2. \A value \in Int : value + 1 = 0 => value % 256 = 255
  OBVIOUS
<1>3. -1 \in Int /\ -1 + 1 = 0
  OBVIOUS
<1>4. (-1) % 256 = 255
  BY <1>2, <1>3, Zenon
<1> QED BY <1>1, <1>4, Zenon DEF Uint8

(* strcmp: so do the first two characters that differ, of which one may be  *)
(* the end of a string.                                                     *)
LEMMA strcmpIs ==
    ASSUME MemoryOK, NEW a \in Address, NEW b \in Address,
           IsString(a), IsString(b)
    PROVE  CompareRight(a, b)
<1> DEFINE n == Least({Length(a), Length(b)})
           S == {k \in 0 .. strlen(memory, a) : k <= strlen(memory, b)}
           F(h) == [i \in S |->
                       IF memory[a + i] # 0 /\ memory[a + i] = memory[b + i]
                       THEN h[i + 1]
                       ELSE IF Char(memory[a + i]) < Char(memory[b + i])
                            THEN Uint8(-1)
                       ELSE IF Char(memory[a + i]) > Char(memory[b + i])
                            THEN 1 ELSE 0]
           g == [i \in S |-> Uint8(OrderFrom(a, b, i, n + 1))]
           f == CHOOSE h : h = F(h)
<1>a. /\ a \in Nat /\ Length(a) \in Nat /\ strlen(memory, a) = Length(a)
      /\ a + Length(a) \in a .. Top /\ memory[a + Length(a)] = 0
      /\ \A k \in a .. a + Length(a) - 1 : memory[k] # 0
  BY StringHere
<1>b. /\ b \in Nat /\ Length(b) \in Nat /\ strlen(memory, b) = Length(b)
      /\ b + Length(b) \in b .. Top /\ memory[b + Length(b)] = 0
      /\ \A k \in b .. b + Length(b) - 1 : memory[k] # 0
  BY StringHere
<1>c. /\ n = IF Length(a) < Length(b) THEN Length(a) ELSE Length(b)
      /\ n \in Nat
  BY <1>a, <1>b, Shorter
<1> HIDE DEF n
<1>d. /\ S = 0 .. n /\ n + 1 \in Nat /\ Top \in Nat
      /\ a + (n + 1) - 1 <= Top /\ b + (n + 1) - 1 <= Top
  BY <1>a, <1>b, <1>c, Addresses
<1>e. ASSUME NEW i \in 0 .. n, memory[a + i] = memory[b + i]
      PROVE  memory[a + i] = 0 <=> i = n
  <2>1. i < Length(a) => a + i \in a .. a + Length(a) - 1
    BY <1>a
  <2>2. i < Length(b) => b + i \in b .. b + Length(b) - 1
    BY <1>b
  <2>3. (i < Length(a) \/ i = Length(a)) /\ (i < Length(b) \/ i = Length(b))
    BY <1>a, <1>b, <1>c
  <2>4. i = n <=> i = Length(a) \/ i = Length(b)
    BY <1>a, <1>b, <1>c
  <2> QED BY <1>a, <1>b, <1>e, <2>1, <2>2, <2>3, <2>4
<1> HIDE DEF S
<1>1. g = F(g)
  <2>1. ASSUME NEW i \in S PROVE g[i] = F(g)[i]
    <3> DEFINE less == Char(memory[a + i]) < Char(memory[b + i])
               more == Char(memory[a + i]) > Char(memory[b + i])
               order == OrderFrom(a, b, i, n + 1)
    <3>0. i \in 0 .. n /\ i \in 0 .. n + 1 /\ i # n + 1 /\ i + 1 \in 0 .. n + 1
      BY <1>c, <1>d
    <3>1. /\ memory[a + i] = memory[b + i] =>
                order = OrderFrom(a, b, i + 1, n + 1)
          /\ memory[a + i] # memory[b + i] =>
                /\ order = IF more THEN 1 ELSE -1
                /\ order = IF less THEN -1 ELSE 1
                /\ less <=> ~more
      BY <1>d, <3>0, OrderSteps
    <3>2. CASE memory[a + i] # 0 /\ memory[a + i] = memory[b + i]
      <4>1. i + 1 \in S
        BY <1>c, <1>d, <1>e, <3>0, <3>2
      <4> QED BY <3>1, <3>2, <4>1
    <3>3. CASE memory[a + i] # memory[b + i]
      <4>1. g[i] = Uint8(order)
        OBVIOUS
      <4>2. F(g)[i] = IF less THEN Uint8(-1) ELSE IF more THEN 1 ELSE 0
        BY <3>3
      <4> HIDE DEF less, more, order, g, F
      <4> QED BY <3>1, <3>3, <4>1, <4>2, Uint8Of
    <3>4. CASE memory[a + i] = 0 /\ memory[a + i] = memory[b + i]
      <4>1. i = n
        BY <1>e, <3>0, <3>4
      <4>2. OrderFrom(a, b, n + 1, n + 1) = 0
        <5>1. n + 1 \in 0 .. n + 1
          BY <1>c
        <5> QED BY <1>d, <5>1, OrderSteps
      <4>3. order = 0
        BY <3>1, <3>4, <4>1, <4>2
      <4>4. ~less /\ ~more
        <5>1. a + i \in 0 .. Top
          BY <1>a, <1>d, <3>0
        <5>2. Char(memory[a + i]) \in Int
          BY <5>1, CharIs DEF MemoryOK
        <5> QED BY <3>4, <5>2
      <4>5. g[i] = Uint8(order)
        OBVIOUS
      <4>6. F(g)[i] = IF less THEN Uint8(-1) ELSE IF more THEN 1 ELSE 0
        BY <3>4
      <4> HIDE DEF less, more, order, g, F
      <4> QED BY <4>3, <4>4, <4>5, <4>6, Uint8Of
    <3> QED BY <3>2, <3>3, <3>4
  <2> QED BY <2>1
<1>2. f = F(f)
  BY <1>1
<1>3. strcmp(memory, a, b) = f[0]
  BY DEF strcmp, S
<1>4. \A i \in S : f[i] = g[i]
  <2>1. ASSUME NEW i \in S, \A k \in S : k > i => f[k] = g[k]
        PROVE  f[i] = g[i]
    <3>1. f[i] = F(f)[i] /\ g[i] = F(g)[i]
      BY <1>1, <1>2
    <3> HIDE DEF f, g
    <3>2. memory[a + i] # 0 /\ memory[a + i] = memory[b + i] =>
             i + 1 \in S /\ i + 1 > i
      BY <1>c, <1>d, <1>e
    <3>3. memory[a + i] # 0 /\ memory[a + i] = memory[b + i] =>
             f[i + 1] = g[i + 1]
      BY <2>1, <3>2
    <3> QED BY <3>1, <3>3
  <2>2. S \in SUBSET (0 .. Top + 1)
    BY <1>a, <1>c, <1>d
  <2> HIDE DEF f, g, S
  <2> QED BY <2>1, <2>2, AgreeDownwards
<1>5. 0 \in S /\ g[0] = Uint8(OrderFrom(a, b, 0, n + 1))
  BY <1>c, <1>d
<1>6. strcmp(memory, a, b) = Uint8(OrderFrom(a, b, 0, n + 1))
  <2> HIDE DEF f, g, S
  <2> QED BY <1>3, <1>4, <1>5
<1>7. n + 1 = 1 + Least({Length(a), Length(b)})
  BY <1>c DEF n
<1> HIDE DEF f, g, S
<1>8. strcmp(memory, a, b) = Uint8(StringOrder(a, b))
  BY <1>6, <1>7, OrderIs DEF StringOrder
<1>9. StringOrder(a, b) \in {-1, 0, 1}
  BY DEF StringOrder, Order
<1> QED BY <1>8, <1>9, Uint8Of DEF CompareRight

LEMMA SearchIsRight ==
    ASSUME MemoryOK, NEW str \in Address, IsString(str),
           NEW chr \in 0 .. ByteValues \div 2 - 1
    PROVE  SearchRight(str, chr)
<1>1. str \in Strings(memory)
  BY StringHere
<1> QED BY <1>1, MatchesAre, strchrIs, strrchrIs, strchrsIs DEF SearchRight

LEMMA SearchesAreRight == MemoryOK => SearchesRight
<1> SUFFICES ASSUME MemoryOK PROVE SearchesRight
  OBVIOUS
<1>1. ASSUME NEW a \in Address, NEW b \in Address,
             NEW size \in 0 .. Top + 1 - Greatest({a, b})
      PROVE  memcmp(memory, a, b, size) = Order(a, b, size)
  <2> DEFINE m == IF a < b THEN b ELSE a
  <2>0. a \in Nat /\ b \in Nat /\ Top \in Nat
    BY Addresses
  <2>1. {a, b} \in SUBSET Int /\ m \in {a, b} /\ \A y \in {a, b} : m >= y
    BY <2>0
  <2>2. Greatest({a, b}) = m
    <3> HIDE DEF m
    <3> QED BY <2>1, GreatestIs
  <2>3. size \in Nat /\ a + size - 1 <= Top /\ b + size - 1 <= Top
    BY <2>0, <2>2
  <2> QED BY <2>3, memcmpIs
<1> QED BY <1>1, StringHere, SearchIsRight, strcmpIs DEF SearchesRight

(* Every length, search for a character of ASCII and comparison is that of  *)
(* the strings, in every memory that calls of the library can leave behind  *)
(* (string.c:59-75,100-180,207-222).                                        *)
THEOREM SearchesAlwaysRight == LibrarySpec => []SearchesRight
BY MemoryStays, SearchesAreRight, PTL

-----------------------------------------------------------------------------
(* Bitmaps *)

NoFrame == CHOOSE x : x \notin Int

\* An allocator with such a bitmap: what is proved about its bitmap_scan
Allocator == INSTANCE MemoryProofs WITH
    Caller <- {}, PoolBytes <- BitmapLen, MaxRequest <- MaxCount,
    Preemptible <- FALSE, NO_FRAME <- NoFrame,
    vaddr_bits <- bits, pmem_bits <- bits, pte <- memory, call <- test,
    granted <- test, malloc_panic <- panicked

\* BitmapAssumption and MemoryAssumption of that allocator
LEMMA AllocatorAssumption ==
    /\ ByteBits \in Nat \ {0} /\ BitmapLen \in Nat \ {0}
    /\ MaxCount \in Nat \ {0}
    /\ FALSE \in BOOLEAN /\ NoFrame \notin Int
<1>1. \E x : x \notin Int
  <2> DEFINE x == {i \in Int : i \notin i}
  <2>1. x \notin Int
    OBVIOUS
  <2> QED BY <2>1
<1>2. NoFrame \notin Int
  BY <1>1 DEF NoFrame
<1> QED BY <1>2, BitmapAssumption, LibraryAssumption

(* bitmap_scan is first fit in every bitmap that bitmap_init and bitmap_set *)
(* leave behind (bitmap.c:47-110).                                          *)
THEOREM ScanAlwaysFirstFit == LibrarySpec => []ScanIsFirstFit
<1>1. ASSUME NEW count \in 1 .. MaxCount PROVE FirstFit(bits, BitmapLen, count)
  <2>1. BitmapLen \in Nat /\ count \in Nat \ {0}
    BY LibraryAssumption
  <2>2. Allocator!FirstFit(bits, BitmapLen, count)
    BY <2>1, AllocatorAssumption, Allocator!ScanFirstFit
  <2>3. FirstFit(bits, BitmapLen, count)
           = Allocator!FirstFit(bits, BitmapLen, count)
    BY DEF FirstFit, FirstRow, FreeRow, bitmap_scan, bitmap_scan_test,
           LastLooked, Count, Greatest, FreeBit, ScanPanics, FreeByte, Byte,
           Least, Allocator!FirstFit, Allocator!FirstRow, Allocator!FreeRow,
           Allocator!bitmap_scan, Allocator!bitmap_scan_test,
           Allocator!LastLooked, Allocator!Count, Allocator!Greatest,
           Allocator!FreeBit, Allocator!ScanPanics, Allocator!FreeByte,
           Allocator!Byte, Allocator!Least
  <2> QED BY <2>2, <2>3
<1>2. ScanIsFirstFit
  BY <1>1 DEF ScanIsFirstFit
<1> QED BY <1>2, PTL
=============================================================================
