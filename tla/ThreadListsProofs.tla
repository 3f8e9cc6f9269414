-------------------------- MODULE ThreadListsProofs --------------------------
(***************************************************************************)
(* The linked queues stay intact, and searches stay in them, for any finite*)
(* set of threads.                                                         *)
(***************************************************************************)
EXTENDS ThreadListsInv, FiniteSetTheorems, WellFoundedInduction, TLAPS

-----------------------------------------------------------------------------
(* Walking a list *)

LEMMA LeastInNat ==
    ASSUME NEW S \in SUBSET Nat, S # {}
    PROVE  \E n \in S : \A m \in S : n <= m
<1>1. PICK n \in S : \A m \in S : <<m, n>> \notin OpToRel(<, Nat)
  BY NatLessThanWellFounded, WFMin, Zenon
<1>2. \A m \in S : n <= m
  <2> SUFFICES ASSUME NEW m \in S PROVE n <= m
    OBVIOUS
  <2>1. m \in Nat /\ n \in Nat /\ ~(m < n)
    BY <1>1 DEF OpToRel
  <2> QED BY <2>1
<1> QED BY <1>2

\* A sequence of different threads is no longer than there are threads.
LEMMA LengthBound ==
    ASSUME NEW s \in Seq(Thread), Distinct(s)
    PROVE  Len(s) \in Nat /\ Cardinality(Thread) \in Nat
           /\ Len(s) <= Cardinality(Thread)
<1>1. IsFiniteSet(Thread)
  BY ListsAssumption
<1>2. s \in Injection(1..Len(s), Thread)
  BY DEF Injection, IsInjective, Distinct
<1>3. Cardinality(1..Len(s)) = Len(s)
  <2> DEFINE n == Len(s)
  <2>1. n \in Nat
    OBVIOUS
  <2> HIDE DEF n
  <2>2. Cardinality(1..n) = IF 1 > n THEN 0 ELSE n - 1 + 1
    BY <2>1, FS_Interval
  <2>3. Cardinality(1..n) = n
    BY <2>1, <2>2
  <2> QED BY <2>3 DEF n
<1>4. Cardinality(1..Len(s)) <= Cardinality(Thread)
  BY <1>1, <1>2, FS_Injection
<1> QED BY <1>1, <1>3, <1>4, FS_CardinalityType

\* Where links lead from start along s to end, Walk finds s.
LEMMA WalkIs ==
    ASSUME NEW link, NEW start, NEW end, NEW s \in Seq(Thread), Distinct(s),
           start \notin {end, NULL}, end \notin Thread, NULL \notin Thread,
           link[start] = IF s = <<>> THEN end ELSE s[1],
           \A i \in 1..Len(s) :
              link[s[i]] = IF i = Len(s) THEN end ELSE s[i + 1]
    PROVE  Walk(link, start, end) = s
<1> DEFINE F(at) == [n \in Nat |->
                LET here == IF n = 0 THEN start ELSE at[n - 1]
                IN  IF here \in {end, NULL} THEN here ELSE link[here]]
           at == CHOOSE at : at = F(at)
           h == [n \in Nat |-> IF n < Len(s) THEN s[n + 1] ELSE end]
           long == Cardinality({n \in 0..Cardinality(Thread) : at[n] \in Thread})
<1>1. Walk(link, start, end) = [i \in 1..long |-> at[i - 1]]
  BY DEF Walk
<1>2. h = F(h)
  <2>1. ASSUME NEW n \in Nat
        PROVE  h[n] = LET here == IF n = 0 THEN start ELSE h[n - 1]
                      IN  IF here \in {end, NULL} THEN here ELSE link[here]
    <3>1. CASE n = 0
      BY <3>1
    <3>2. CASE n > 0 /\ n < Len(s)
      <4>1. h[n - 1] = s[n] /\ h[n] = s[n + 1] /\ s[n] \in Thread /\ n \in 1..Len(s)
        BY <3>2
      <4>2. link[s[n]] = s[n + 1]
        BY <3>2, <4>1
      <4> QED BY <3>2, <4>1, <4>2
    <3>3. CASE n > 0 /\ n = Len(s)
      <4>1. h[n - 1] = s[n] /\ h[n] = end /\ s[n] \in Thread /\ n \in 1..Len(s)
        BY <3>3
      <4>2. link[s[n]] = end
        BY <3>3, <4>1
      <4> QED BY <3>3, <4>1, <4>2
    <3>4. CASE n > 0 /\ n > Len(s)
      <4>1. h[n - 1] = end /\ h[n] = end
        BY <3>4
      <4> QED BY <3>4, <4>1
    <3> QED BY <3>1, <3>2, <3>3, <3>4
  <2> QED BY <2>1
<1>3. at = F(at)
  BY <1>2
<1> HIDE DEF at
<1>4. \A n \in Nat : at[n] = h[n]
  <2> DEFINE S == {n \in Nat : at[n] # h[n]}
  <2> SUFFICES ASSUME S # {} PROVE FALSE
    OBVIOUS
  <2>1. PICK n \in S : \A m \in S : n <= m
    BY LeastInNat
  <2>2. n = 0 \/ at[n - 1] = h[n - 1]
    BY <2>1
  <2>3. at[n] = LET here == IF n = 0 THEN start ELSE at[n - 1]
                IN  IF here \in {end, NULL} THEN here ELSE link[here]
    BY <1>3, <2>1
  <2>4. h[n] = LET here == IF n = 0 THEN start ELSE h[n - 1]
               IN  IF here \in {end, NULL} THEN here ELSE link[here]
    <3> HIDE DEF h
    <3> QED BY <1>2, <2>1
  <2> QED BY <2>1, <2>2, <2>3, <2>4
<1>5. long = Len(s)
  <2>1. Len(s) \in Nat /\ Cardinality(Thread) \in Nat
        /\ Len(s) <= Cardinality(Thread)
    BY LengthBound
  <2>2. {n \in 0..Cardinality(Thread) : at[n] \in Thread} = 0 .. Len(s) - 1
    BY <1>4, <2>1
  <2>3. Cardinality(0 .. Len(s) - 1) = Len(s)
    <3> DEFINE m == Len(s) - 1
    <3>1. m \in Int /\ 0 \in Int /\ m >= -1 /\ m + 1 = Len(s)
      BY <2>1
    <3> HIDE DEF m
    <3>2. Cardinality(0..m) = IF 0 > m THEN 0 ELSE m - 0 + 1
      BY <3>1, FS_Interval
    <3>3. Cardinality(0..m) = m + 1
      BY <3>1, <3>2
    <3> QED BY <3>1, <3>3 DEF m
  <2> QED BY <2>2, <2>3
<1>6. [i \in 1..long |-> at[i - 1]] = s
  <2>1. \A i \in 1..Len(s) : at[i - 1] = s[i]
    BY <1>4
  <2>2. s = [i \in 1..Len(s) |-> s[i]]
    OBVIOUS
  <2> HIDE DEF long
  <2> QED BY <1>5, <2>1, <2>2
<1> QED BY <1>1, <1>6

\* The links in both directions
LEMMA ForwardIs ==
    ASSUME NEW l, NEW s \in Seq(Thread), Distinct(s), NextSpells(l, s)
    PROVE  Forward(l) = s
<1>1. l.next[HeadElem] = IF s = <<>> THEN TailElem ELSE s[1]
  BY ListsAssumption DEF NextSpells, Station
<1>2. \A i \in 1..Len(s) :
         l.next[s[i]] = IF i = Len(s) THEN TailElem ELSE s[i + 1]
  BY DEF NextSpells, Station
<1> QED BY <1>1, <1>2, WalkIs, ListsAssumption DEF Forward

LEMMA BackwardIs ==
    ASSUME NEW l, NEW s \in Seq(Thread), Distinct(s), PrevSpells(l, s)
    PROVE  Backward(l) = Reversed(s)
<1> DEFINE n == Len(s)
           r == Reversed(s)
<1>1. n \in Nat /\ r = [i \in 1..n |-> s[n + 1 - i]]
  BY DEF Reversed
<1>2. r \in Seq(Thread) /\ Len(r) = n
  BY <1>1
<1>3. Distinct(r)
  BY <1>1, <1>2 DEF Distinct
<1>4. \A i \in 0..n : l.prev[Station(s, i + 1)] = Station(s, i)
  BY DEF PrevSpells
<1>5. l.prev[TailElem] = IF r = <<>> THEN HeadElem ELSE r[1]
  <2>1. l.prev[Station(s, n + 1)] = Station(s, n)
    BY <1>1, <1>4
  <2>2. Station(s, n + 1) = TailElem
    BY <1>1 DEF Station
  <2>3. Station(s, n) = IF n = 0 THEN HeadElem ELSE s[n]
    BY <1>1 DEF Station
  <2>4. n = 0 <=> r = <<>>
    BY <1>1, <1>2
  <2>5. n # 0 => r[1] = s[n]
    BY <1>1
  <2> QED BY <2>1, <2>2, <2>3, <2>4, <2>5
<1>6. \A i \in 1..n : l.prev[r[i]] = IF i = n THEN HeadElem ELSE r[i + 1]
  <2> SUFFICES ASSUME NEW i \in 1..n
               PROVE  l.prev[r[i]] = IF i = n THEN HeadElem ELSE r[i + 1]
    OBVIOUS
  <2> DEFINE j == n + 1 - i
  <2>1. j \in 1..n /\ j - 1 \in 0..n /\ (j - 1) + 1 = j /\ r[i] = s[j]
    BY <1>1
  <2>2. l.prev[Station(s, j)] = Station(s, j - 1)
    BY <1>4, <2>1
  <2>3. Station(s, j) = s[j]
    BY <1>1, <2>1 DEF Station
  <2>4. Station(s, j - 1) = IF j = 1 THEN HeadElem ELSE s[j - 1]
    BY <1>1, <2>1 DEF Station
  <2>5. i # n => r[i + 1] = s[j - 1]
    BY <1>1
  <2>6. i = n <=> j = 1
    BY <1>1
  <2> QED BY <2>1, <2>2, <2>3, <2>4, <2>5, <2>6
<1> HIDE DEF r, n
<1>7. Walk(l.prev, TailElem, HeadElem) = r
  BY <1>2, <1>3, <1>5, <1>6, WalkIs, ListsAssumption
<1> QED BY <1>7 DEF Backward, r

-----------------------------------------------------------------------------
(* Stations *)

LEMMA StationIs ==
    ASSUME NEW s \in Seq(Thread)
    PROVE  /\ Station(s, 0) = HeadElem /\ Station(s, Len(s) + 1) = TailElem
           /\ \A i \in 1..Len(s) : Station(s, i) = s[i] /\ Station(s, i) \in Thread
           /\ \A i \in 0..Len(s) + 1 : Station(s, i) \in Elem
           /\ \A i \in 0..Len(s) : Station(s, i) # TailElem
           /\ \A i \in 1..Len(s) + 1 : Station(s, i) # HeadElem
<1>1. Len(s) \in Nat /\ \A i \in 1..Len(s) : s[i] \in Thread
  OBVIOUS
<1>2. \A i \in 1..Len(s) : Station(s, i) = s[i] /\ Station(s, i) \in Thread
  BY <1>1 DEF Station
<1>3. Station(s, 0) = HeadElem /\ Station(s, Len(s) + 1) = TailElem
  BY <1>1 DEF Station
<1>4. \A i \in 0..Len(s) + 1 : i = 0 \/ i = Len(s) + 1 \/ i \in 1..Len(s)
  BY <1>1
<1> QED BY <1>1, <1>2, <1>3, <1>4, ListsAssumption DEF Elem

LEMMA StationsDiffer ==
    ASSUME NEW s \in Seq(Thread), Distinct(s),
           NEW i \in 0..Len(s) + 1, NEW j \in 0..Len(s) + 1, i # j
    PROVE  Station(s, i) # Station(s, j)
<1>1. Len(s) \in Nat
  OBVIOUS
<1>2. CASE i = 0
  BY <1>1, <1>2, StationIs
<1>3. CASE j = 0
  BY <1>1, <1>3, StationIs
<1>4. CASE i = Len(s) + 1
  BY <1>1, <1>4, StationIs
<1>5. CASE j = Len(s) + 1
  BY <1>1, <1>5, StationIs
<1>6. CASE i \in 1..Len(s) /\ j \in 1..Len(s)
  BY <1>6, StationIs DEF Distinct
<1> QED BY <1>1, <1>2, <1>3, <1>4, <1>5, <1>6

\* A thread that is not in the list is none of its stations.
LEMMA NoStation ==
    ASSUME NEW s \in Seq(Thread), NEW p \in Thread, p \notin Members(s),
           NEW i \in 0..Len(s) + 1
    PROVE  Station(s, i) # p
<1>1. Len(s) \in Nat /\ DOMAIN s = 1..Len(s)
  OBVIOUS
<1>2. i = 0 \/ i = Len(s) + 1 \/ i \in 1..Len(s)
  BY <1>1
<1> QED BY <1>1, <1>2, StationIs, ListsAssumption DEF Members

LEMMA AppendStations ==
    ASSUME NEW s \in Seq(Thread), Distinct(s),
           NEW p \in Thread, p \notin Members(s)
    PROVE  LET t == Append(s, p)
           IN  /\ t \in Seq(Thread) /\ Distinct(t) /\ Len(t) = Len(s) + 1
               /\ Members(t) = Members(s) \cup {p}
               /\ \A i \in 0..Len(s) : Station(t, i) = Station(s, i)
               /\ Station(t, Len(s) + 1) = p
               /\ Station(t, Len(s) + 2) = TailElem
<1> DEFINE t == Append(s, p)
           n == Len(s)
<1>1. /\ t \in Seq(Thread) /\ Len(t) = n + 1 /\ n \in Nat
      /\ \A i \in 1..n : t[i] = s[i]
      /\ t[n + 1] = p
  OBVIOUS
<1>2. DOMAIN s = 1..n /\ DOMAIN t = 1..n + 1
  BY <1>1
<1>3. \A i \in 1..n : s[i] # p
  BY <1>2 DEF Members
<1> HIDE DEF t
<1>4. Distinct(t)
  BY <1>1, <1>3 DEF Distinct
<1>5. Members(t) = Members(s) \cup {p}
  BY <1>1, <1>2 DEF Members
<1>6. \A i \in 0..n : Station(t, i) = Station(s, i)
  BY <1>1 DEF Station
<1>7. Station(t, n + 1) = p /\ Station(t, n + 2) = TailElem
  BY <1>1 DEF Station
<1> QED BY <1>1, <1>4, <1>5, <1>6, <1>7 DEF t

LEMMA TailStations ==
    ASSUME NEW s \in Seq(Thread), Distinct(s), s # <<>>
    PROVE  LET t == Tail(s)
           IN  /\ t \in Seq(Thread) /\ Distinct(t) /\ Len(t) = Len(s) - 1
               /\ s[1] \in Thread /\ Members(t) = Members(s) \ {s[1]}
               /\ s[1] \in Members(s)
               /\ Station(t, 0) = HeadElem
               /\ \A i \in 1..Len(s) : Station(t, i) = Station(s, i + 1)
<1> DEFINE t == Tail(s)
           n == Len(s)
<1>1. /\ t \in Seq(Thread) /\ Len(t) = n - 1 /\ n \in Nat /\ n >= 1
      /\ \A i \in 1..n - 1 : t[i] = s[i + 1]
      /\ s[1] \in Thread
  OBVIOUS
<1>2. DOMAIN s = 1..n /\ DOMAIN t = 1..n - 1
  BY <1>1
<1> HIDE DEF t
<1>3. Distinct(t)
  BY <1>1 DEF Distinct
<1>4. Members(t) = Members(s) \ {s[1]} /\ s[1] \in Members(s)
  <2>1. Members(t) = {t[i] : i \in 1..n - 1} /\ Members(s) = {s[i] : i \in 1..n}
    BY <1>2 DEF Members
  <2>2. ASSUME NEW x \in Members(t) PROVE x \in Members(s) /\ x # s[1]
    <3>1. PICK i \in 1..n - 1 : x = t[i]
      BY <2>1, <2>2
    <3>2. x = s[i + 1] /\ i + 1 \in 1..n /\ 1 \in 1..n /\ i + 1 # 1
      BY <1>1, <3>1
    <3> QED BY <2>1, <3>2 DEF Distinct
  <2>3. ASSUME NEW x \in Members(s), x # s[1] PROVE x \in Members(t)
    <3>1. PICK i \in 1..n : x = s[i]
      BY <2>1, <2>3
    <3>2. i - 1 \in 1..n - 1 /\ x = t[i - 1]
      BY <1>1, <2>3, <3>1
    <3> QED BY <2>1, <3>2
  <2>4. s[1] \in Members(s)
    BY <1>1, <2>1
  <2> QED BY <2>2, <2>3, <2>4
<1>5. Station(t, 0) = HeadElem
  BY DEF Station
<1>6. \A i \in 1..n : Station(t, i) = Station(s, i + 1)
  BY <1>1 DEF Station
<1> QED BY <1>1, <1>3, <1>4, <1>5, <1>6 DEF t

-----------------------------------------------------------------------------
(* The assignments of list_insert_before, at the tail of a list *)

LEMMA LinkElemSpells ==
    ASSUME NEW l \in Links, NEW s \in Seq(Thread),
           NextSpells(l, s), PrevSpells(l, s),
           NEW p \in Thread, p \notin Members(s)
    PROVE  LET m == LinkElem(l, TailElem, p)
           IN  /\ m \in Links /\ NextSpells(m, s) /\ PrevSpells(m, s)
               /\ m.prev[p] = m.prev[TailElem] /\ m.next[p] = TailElem
<1> DEFINE m == LinkElem(l, TailElem, p)
<1>1. p \in Elem /\ TailElem \in Elem /\ p # TailElem
  BY ListsAssumption DEF Elem
<1>2. /\ m \in Links
      /\ m.next[p] = TailElem /\ m.prev[p] = l.prev[TailElem]
      /\ \A e \in Elem : e # p => m.next[e] = l.next[e] /\ m.prev[e] = l.prev[e]
  BY <1>1 DEF LinkElem, Links
<1> HIDE DEF m
<1>3. \A i \in 0..Len(s) + 1 : Station(s, i) \in Elem /\ Station(s, i) # p
  BY StationIs, NoStation
<1>4. Len(s) \in Nat /\ \A i \in 0..Len(s) : i + 1 \in 0..Len(s) + 1 /\ i \in 0..Len(s) + 1
  OBVIOUS
<1>5. NextSpells(m, s) /\ PrevSpells(m, s)
  BY <1>2, <1>3, <1>4 DEF NextSpells, PrevSpells
<1> QED BY <1>1, <1>2, <1>5 DEF m

LEMMA LinkNextSpells ==
    ASSUME NEW l \in Links, NEW s \in Seq(Thread), Distinct(s),
           NextSpells(l, s), PrevSpells(l, s),
           NEW p \in Thread, p \notin Members(s), l.next[p] = TailElem
    PROVE  LET m == LinkNext(l, TailElem, p)
           IN  /\ m \in Links /\ NextSpells(m, Append(s, p))
               /\ m.prev = l.prev /\ l.prev[TailElem] = Station(s, Len(s))
<1> DEFINE m == LinkNext(l, TailElem, p)
           n == Len(s)
           t == Append(s, p)
           last == Station(s, n)
<1>1. n \in Nat /\ l.prev[TailElem] = last
  <2>1. n \in Nat /\ n \in 0..n
    OBVIOUS
  <2> QED BY <2>1, StationIs DEF PrevSpells
<1>2. last \in Elem /\ p \in Elem /\ last # p
  <2>1. n \in 0..n + 1
    BY <1>1
  <2> QED BY <2>1, StationIs, NoStation DEF Elem
<1> HIDE DEF last
<1>3. /\ m \in Links /\ m.prev = l.prev /\ m.next[last] = p
      /\ \A e \in Elem : e # last => m.next[e] = l.next[e]
  BY <1>1, <1>2 DEF LinkNext, Links
<1>4. /\ Len(t) = n + 1 /\ Station(t, n + 1) = p /\ Station(t, n + 2) = TailElem
      /\ \A i \in 0..n : Station(t, i) = Station(s, i)
  BY AppendStations
<1> HIDE DEF m, t
<1>5. ASSUME NEW i \in 0..Len(t)
      PROVE  m.next[Station(t, i)] = Station(t, i + 1)
  <2>1. CASE i = n
    <3>1. Station(t, i) = last
      BY <1>1, <1>4, <2>1 DEF last
    <3> QED BY <1>3, <1>4, <2>1, <3>1
  <2>2. CASE i = n + 1
    BY <1>1, <1>2, <1>3, <1>4, <2>2
  <2>3. CASE i < n
    <3>1. i \in 0..n /\ i + 1 \in 0..n /\ i \in 0..n + 1 /\ n \in 0..n + 1 /\ i # n
      BY <1>1, <2>3, <1>4
    <3>2. Station(s, i) # last /\ Station(s, i) \in Elem
      BY <3>1, StationsDiffer, StationIs DEF last
    <3>3. l.next[Station(s, i)] = Station(s, i + 1)
      BY <3>1 DEF NextSpells
    <3> QED BY <1>3, <1>4, <3>1, <3>2, <3>3
  <2> QED BY <1>1, <1>4, <2>1, <2>2, <2>3
<1> QED BY <1>1, <1>3, <1>5 DEF NextSpells, m, t, last

\* s is what the list was before LinkNext, p the new element.
LEMMA LinkPrevSpells ==
    ASSUME NEW l \in Links, NEW s \in Seq(Thread), Distinct(s), s # <<>>,
           NextSpells(l, s),
           \A i \in 0..Len(s) - 1 : l.prev[Station(s, i + 1)] = Station(s, i)
    PROVE  LET m == LinkPrev(l, TailElem, s[Len(s)])
           IN  m \in Links /\ NextSpells(m, s) /\ PrevSpells(m, s)
<1> DEFINE n == Len(s)
           p == s[n]
           m == LinkPrev(l, TailElem, p)
<1>1. n \in Nat /\ n \in 1..n /\ p \in Thread /\ TailElem \in Elem /\ p \in Elem
  BY DEF Elem
<1>2. Station(s, n) = p /\ Station(s, n + 1) = TailElem
  BY <1>1, StationIs
<1> HIDE DEF p
<1>3. /\ m \in Links /\ m.next = l.next /\ m.prev[TailElem] = p
      /\ \A e \in Elem : e # TailElem => m.prev[e] = l.prev[e]
  BY <1>1 DEF LinkPrev, Links
<1> HIDE DEF m
<1>4. ASSUME NEW i \in 0..n PROVE m.prev[Station(s, i + 1)] = Station(s, i)
  <2>1. CASE i = n
    BY <1>2, <1>3, <2>1
  <2>2. CASE i # n
    <3>1. i \in 0..n - 1 /\ i + 1 \in 0..n /\ i + 1 \in 0..n + 1
      BY <1>1, <2>2
    <3>2. Station(s, i + 1) # TailElem /\ Station(s, i + 1) \in Elem
      BY <3>1, StationIs
    <3> QED BY <1>3, <3>1, <3>2
  <2> QED BY <2>1, <2>2
<1> QED BY <1>3, <1>4 DEF NextSpells, PrevSpells, m, p

\* list_append puts a thread behind the others.
LEMMA AppendSpells ==
    ASSUME NEW l \in Links, NEW s \in Seq(Thread), Distinct(s),
           NextSpells(l, s), PrevSpells(l, s),
           NEW p \in Thread, p \notin Members(s)
    PROVE  LET m == list_append(l, p)
               t == Append(s, p)
           IN  m \in Links /\ NextSpells(m, t) /\ PrevSpells(m, t)
<1> DEFINE own == LinkElem(l, TailElem, p)
           next == LinkNext(own, TailElem, p)
           m == LinkPrev(next, TailElem, p)
           t == Append(s, p)
           n == Len(s)
<1>1. /\ own \in Links /\ NextSpells(own, s) /\ PrevSpells(own, s)
      /\ own.prev[p] = own.prev[TailElem] /\ own.next[p] = TailElem
  BY LinkElemSpells
<1> HIDE DEF own
<1>2. /\ next \in Links /\ NextSpells(next, t)
      /\ next.prev = own.prev /\ own.prev[TailElem] = Station(s, n)
  BY <1>1, LinkNextSpells
<1>3. /\ t \in Seq(Thread) /\ Distinct(t) /\ Len(t) = n + 1 /\ n \in Nat
      /\ \A i \in 0..n : Station(t, i) = Station(s, i)
      /\ Station(t, n + 1) = p
  BY AppendStations
<1>4. t # <<>> /\ t[Len(t)] = p
  <2>1. n + 1 \in 1..Len(t)
    BY <1>3
  <2> QED BY <1>3, <2>1, StationIs
<1> HIDE DEF t, next
<1>5. ASSUME NEW i \in 0..Len(t) - 1
      PROVE  next.prev[Station(t, i + 1)] = Station(t, i)
  <2>1. CASE i = n
    BY <1>1, <1>2, <1>3, <2>1
  <2>2. CASE i # n
    <3>1. i \in 0..n /\ i + 1 \in 0..n
      BY <1>3, <2>2
    <3>2. own.prev[Station(s, i + 1)] = Station(s, i)
      BY <1>1, <3>1 DEF PrevSpells
    <3> QED BY <1>2, <1>3, <3>1, <3>2
  <2> QED BY <2>1, <2>2
<1>6. m \in Links /\ NextSpells(m, t) /\ PrevSpells(m, t)
  BY <1>2, <1>3, <1>4, <1>5, LinkPrevSpells
<1>7. list_append(l, p) = m
  BY DEF list_append, own, next
<1> QED BY <1>6, <1>7 DEF t

\* list_remove of the first element leaves the others in order.
LEMMA RemoveSpells ==
    ASSUME NEW l \in Links, NEW s \in Seq(Thread), Distinct(s), s # <<>>,
           NextSpells(l, s), PrevSpells(l, s)
    PROVE  LET m == list_remove(l, s[1])
           IN  m \in Links /\ NextSpells(m, Tail(s)) /\ PrevSpells(m, Tail(s))
<1> DEFINE n == Len(s)
           first == s[1]
           second == Station(s, 2)
           forward == [l EXCEPT !.next[l.prev[first]] = l.next[first]]
           m == [forward EXCEPT !.prev[forward.next[first]] = forward.prev[first]]
           t == Tail(s)
<1>1. n \in Nat /\ n >= 1 /\ 0 \in 0..n /\ 1 \in 0..n /\ 2 \in 0..n + 1
      /\ 1 \in 1..n
  OBVIOUS
<1>2. /\ first \in Thread /\ first \in Elem /\ first = Station(s, 1)
      /\ HeadElem \in Elem /\ first # HeadElem /\ Station(s, 0) = HeadElem
      /\ second \in Elem
  BY <1>1, StationIs, ListsAssumption DEF Elem
<1>3. l.prev[first] = HeadElem /\ l.next[first] = second
  <2>1. l.prev[Station(s, 0 + 1)] = Station(s, 0)
        /\ l.next[Station(s, 1)] = Station(s, 1 + 1)
    BY <1>1 DEF NextSpells, PrevSpells
  <2> QED BY <1>2, <2>1
<1> HIDE DEF first, second
<1>4. /\ forward \in Links /\ forward.prev = l.prev
      /\ forward.next[HeadElem] = second
      /\ \A e \in Elem : e # HeadElem => forward.next[e] = l.next[e]
  BY <1>2, <1>3 DEF Links
<1> HIDE DEF forward
<1>5. forward.next[first] = second /\ forward.prev[first] = HeadElem
  BY <1>2, <1>3, <1>4
<1>6. /\ m \in Links /\ m.next = forward.next /\ m.prev[second] = HeadElem
      /\ \A e \in Elem : e # second => m.prev[e] = l.prev[e]
  BY <1>2, <1>4, <1>5 DEF Links
<1> HIDE DEF m
<1>7. /\ t \in Seq(Thread) /\ Len(t) = n - 1 /\ Station(t, 0) = HeadElem
      /\ \A i \in 1..n : Station(t, i) = Station(s, i + 1)
  BY TailStations
<1> HIDE DEF t
<1>8. ASSUME NEW i \in 0..Len(t)
      PROVE  /\ m.next[Station(t, i)] = Station(t, i + 1)
             /\ m.prev[Station(t, i + 1)] = Station(t, i)
  <2>1. CASE i = 0
    <3>1. Station(t, 1) = second
      BY <1>1, <1>7 DEF second
    <3> QED BY <1>4, <1>6, <1>7, <2>1, <3>1
  <2>2. CASE i # 0
    <3>1. /\ i \in 1..n - 1 /\ i \in 1..n /\ i + 1 \in 1..n /\ i + 1 \in 0..n
          /\ i + 1 \in 0..n + 1 /\ i + 2 \in 0..n + 1 /\ i + 2 # 2
          /\ i + 1 \in 1..n + 1
      BY <1>1, <1>7, <2>2
    <3>2. Station(t, i) = Station(s, i + 1)
          /\ Station(t, i + 1) = Station(s, i + 2)
      BY <1>7, <3>1
    <3>3. /\ l.next[Station(s, i + 1)] = Station(s, i + 2)
          /\ l.prev[Station(s, i + 2)] = Station(s, i + 1)
      <4>1. (i + 1) + 1 = i + 2
        BY <3>1
      <4> QED BY <3>1, <4>1 DEF NextSpells, PrevSpells
    <3>4. /\ Station(s, i + 1) \in Elem /\ Station(s, i + 1) # HeadElem
          /\ Station(s, i + 2) \in Elem /\ Station(s, i + 2) # second
      BY <1>1, <3>1, StationIs, StationsDiffer DEF second
    <3> QED BY <1>4, <1>6, <3>2, <3>3, <3>4
  <2> QED BY <2>1, <2>2
<1>9. NextSpells(m, t) /\ PrevSpells(m, t)
  BY <1>8 DEF NextSpells, PrevSpells
<1>10. list_remove(l, first) = m
  BY DEF list_remove, m, forward
<1> QED BY <1>6, <1>9, <1>10 DEF first, t

-----------------------------------------------------------------------------
(* What steps have in common *)

LEMMA CallTypes ==
    ASSUME TypeOK
    PROVE  /\ cur \in Thread /\ call \in [Thread -> Call] /\ Me \in Call
           /\ Me.q \in QueueName /\ Me.elem \in Thread
           /\ MyLinks \in Links /\ \A q \in QueueName : links[q] \in Links
BY DEF TypeOK, Me, MyLinks, Call

\* Links that nobody is about to change
LEMMA PrevWhole ==
    ASSUME IInv, NEW q \in QueueName, ~Inserts(q, "link_prev")
    PROVE  /\ Content(q) \in Seq(Thread) /\ Distinct(Content(q))
           /\ NextSpells(links[q], Content(q))
           /\ PrevSpells(links[q], Content(q))
BY DEF IInv, LinksInv

\* A step that changes no link, outside an insertion before and behind it
LEMMA QuietLinks ==
    ASSUME IInv, links' = links, Me.pc # "link_prev",
           Me'.pc \notin {"link_next", "link_prev"}
    PROVE  \A q \in QueueName : LinksInv(q)'
<1> SUFFICES ASSUME NEW q \in QueueName PROVE LinksInv(q)'
  OBVIOUS
<1>1. /\ Content(q) \in Seq(Thread) /\ Distinct(Content(q))
      /\ NextSpells(links[q], Content(q)) /\ PrevSpells(links[q], Content(q))
  BY PrevWhole DEF Inserts
<1>2. Content(q)' = Content(q)
  BY DEF Content
<1>3. ~Inserts(q, "link_next")' /\ ~Inserts(q, "link_prev")'
  BY DEF Inserts
<1> QED BY <1>1, <1>2, <1>3 DEF LinksInv

\* A step that links nothing and creates no thread
LEMMA QuietElems ==
    ASSUME ElemInv, links' = links, cur' = cur, created' = created,
           \A t \in Thread :
              /\ call'[t].elem = call[t].elem
              /\ call'[t].pc # "body" => call[t].pc # "body"
              /\ \A q \in QueueName : Unlinked(t, q)' => Unlinked(t, q)
    PROVE  ElemInv'
<1>1. \A q : Content(q)' = Content(q)
  BY DEF Content
<1> QED BY <1>1 DEF ElemInv, QueueName

\* A step of cur in its own code: what it changes of call
LEMMA OwnStep ==
    ASSUME TypeOK, NEW n \in Call, call' = [call EXCEPT ![cur] = n], cur' = cur
    PROVE  /\ call' \in [Thread -> Call] /\ Me' = n
           /\ \A t \in Thread : t # cur => call'[t] = call[t]
BY DEF TypeOK, Me

-----------------------------------------------------------------------------
(* The steps *)

LEMMA EnableInterruptsInv ==
    ASSUME IInv, EnableInterrupts
    PROVE  IInv'
<1>1. /\ ~panic /\ Me.pc = "body" /\ intr_on' = TRUE
      /\ UNCHANGED <<cur, created, links, call, unvisited, panic>>
  BY DEF EnableInterrupts, At
<1>2. Me' = Me
  BY <1>1 DEF Me
<1>3. TypeOK'
  BY <1>1 DEF IInv, TypeOK
<1>4. LockInv'
  BY <1>1, <1>2 DEF IInv, LockInv, Linking
<1>5. ElemInv' /\ SearchInv'
  BY <1>1 DEF IInv, ElemInv, SearchInv, Content, Unlinked
<1>6. \A q \in QueueName : LinksInv(q)'
  BY <1>1, <1>2, QuietLinks
<1> QED BY <1>3, <1>4, <1>5, <1>6 DEF IInv

LEMMA ThreadCreateInv ==
    ASSUME IInv, NEW t \in Thread, ThreadCreate(t)
    PROVE  IInv'
<1> DEFINE n == [Me EXCEPT !.pc = "first", !.q = "ready", !.elem = t]
<1>1. TypeOK /\ cur \in Thread /\ call \in [Thread -> Call] /\ Me \in Call
  BY CallTypes DEF IInv
<1>2. /\ ~panic /\ Me.pc = "body" /\ t \notin created
      /\ created' = created \cup {t}
      /\ call' = [call EXCEPT ![cur] = n]
      /\ UNCHANGED <<cur, intr_on, links, unvisited, panic>>
  BY <1>1 DEF ThreadCreate, At, Me, Call
<1>3. n \in Call /\ n.pc = "first" /\ n.q = "ready" /\ n.elem = t
  BY <1>1 DEF Call, Points, QueueName
<1> HIDE DEF n
<1>4. /\ call' \in [Thread -> Call] /\ Me' = n /\ call'[cur] = n
      /\ \A u \in Thread : u # cur => call'[u] = call[u]
  BY <1>1, <1>2, <1>3, OwnStep
<1>5. TypeOK'
  BY <1>1, <1>2, <1>4 DEF TypeOK
<1>6. LockInv'
  BY <1>2, <1>3, <1>4 DEF IInv, LockInv, Linking
<1>7. \A q : Content(q)' = Content(q)
  BY <1>2 DEF Content
<1>8. ElemInv'
  <2>1. /\ cur \in created /\ cur \notin Members(Content("ready"))
        /\ \A q \in QueueName : Members(Content(q)) \subseteq created
        /\ \A u \in Thread : call[u].pc # "body" => call[u].elem \in created \ {u}
    BY DEF IInv, ElemInv
  <2>2. /\ cur' \in created' /\ cur' \notin Members(Content("ready"))'
        /\ \A q \in QueueName : Members(Content(q))' \subseteq created'
    BY <1>2, <1>7, <2>1
  <2>3. \A u \in Thread :
           call'[u].pc # "body" => call'[u].elem \in created' \ {u}
    BY <1>2, <1>3, <1>4, <2>1
  <2>4. \A u, v \in Thread :
           u # v /\ call'[u].pc # "body" /\ call'[v].pc # "body" =>
              call'[u].elem # call'[v].elem
    BY <1>2, <1>3, <1>4, <2>1 DEF IInv, ElemInv
  <2>5. \A u \in Thread, q \in QueueName :
           Unlinked(u, q)' => call'[u].elem \notin Members(Content(q))'
    <3> SUFFICES ASSUME NEW u \in Thread, NEW q \in QueueName, Unlinked(u, q)'
                 PROVE  call'[u].elem \notin Members(Content(q))
      BY <1>7
    <3>1. CASE u = cur
      BY <1>2, <1>3, <1>4, <2>1, <3>1
    <3>2. CASE u # cur
      BY <1>4, <3>2 DEF IInv, ElemInv, Unlinked
    <3> QED BY <3>1, <3>2
  <2>6. \A u \in Thread : Unlinked(u, "ready")' => call'[u].elem # cur'
    <3> SUFFICES ASSUME NEW u \in Thread, Unlinked(u, "ready")'
                 PROVE  call'[u].elem # cur
      BY <1>2
    <3>1. CASE u = cur
      BY <1>2, <1>3, <1>4, <2>1, <3>1
    <3>2. CASE u # cur
      BY <1>4, <3>2 DEF IInv, ElemInv, Unlinked
    <3> QED BY <3>1, <3>2
  <2> QED BY <2>2, <2>3, <2>4, <2>5, <2>6 DEF ElemInv
<1>9. \A q \in QueueName : LinksInv(q)'
  BY <1>2, <1>3, <1>4, QuietLinks
<1>10. SearchInv'
  BY <1>2, <1>3, <1>4, <1>7 DEF IInv, SearchInv
<1> QED BY <1>5, <1>6, <1>8, <1>9, <1>10 DEF IInv

\* Steps of a search, and the one behind it, that leave n in call[cur]
LEMMA SearchStep ==
    ASSUME IInv, NEW n \in Call, call' = [call EXCEPT ![cur] = n],
           UNCHANGED <<cur, created, links>>,
           panic' = FALSE, intr_on' \in BOOLEAN,
           unvisited' \in [Thread -> SUBSET Thread],
           Me.pc \in {"first", "empty", "search", "disable"},
           n.q = Me.q, n.elem = Me.elem,
           n.pc \in {"empty", "search", "disable", "link_elem"},
           n.pc = "link_elem" => ~intr_on',
           n.pc \in {"empty", "search"} =>
              /\ n.pelem \in Members(Content(n.q)) \cup {TailElem}
              /\ n.q = "ready" => n.pelem # cur
    PROVE  IInv'
<1>1. /\ TypeOK /\ cur \in Thread /\ call' \in [Thread -> Call]
      /\ Me' = n /\ call'[cur] = n
      /\ \A t \in Thread : t # cur => call'[t] = call[t]
  BY CallTypes, OwnStep DEF IInv
<1>3. TypeOK'
  BY <1>1 DEF TypeOK
<1>4. LockInv'
  BY <1>1 DEF IInv, LockInv, Linking
<1>5. \A q : Content(q)' = Content(q)
  BY DEF Content
<1>6. ElemInv'
  <2>1. ASSUME NEW t \in Thread
        PROVE  /\ call'[t].elem = call[t].elem
               /\ call'[t].pc # "body" => call[t].pc # "body"
               /\ \A q \in QueueName : Unlinked(t, q)' => Unlinked(t, q)
    <3>1. CASE t = cur
      BY <1>1, <3>1 DEF Unlinked, ToLink, Me
    <3>2. CASE t # cur
      BY <1>1, <3>2 DEF Unlinked
    <3> QED BY <3>1, <3>2
  <2> QED BY <2>1, QuietElems DEF IInv
<1>7. \A q \in QueueName : LinksInv(q)'
  BY <1>1, QuietLinks
<1>8. SearchInv'
  BY <1>1, <1>5 DEF IInv, SearchInv
<1> QED BY <1>3, <1>4, <1>6, <1>7, <1>8 DEF IInv

\* Where a search stands, and what it sees from there
LEMMA SearchStands ==
    ASSUME IInv, Me.pc \in {"empty", "search"}
    PROVE  Me.pelem \in Members(Content(Me.q)) \cup {TailElem}
BY CallTypes DEF IInv, SearchInv, Me

LEMMA Successors ==
    ASSUME IInv, NEW q \in QueueName
    PROVE  /\ Members(Content(q)) \subseteq Thread
           /\ links[q].next[HeadElem] \in Members(Content(q)) \cup {TailElem}
           /\ \A e \in Members(Content(q)) :
                 links[q].next[e] \in Members(Content(q)) \cup {TailElem}
<1> DEFINE s == Content(q)
<1>1. s \in Seq(Thread) /\ NextSpells(links[q], s)
  BY DEF IInv, LinksInv
<1> HIDE DEF s
<1>2. /\ Len(s) \in Nat /\ Members(s) = {s[i] : i \in 1..Len(s)}
      /\ Members(s) \subseteq Thread
  BY <1>1 DEF Members
<1>3. \A i \in 1..Len(s) + 1 : Station(s, i) \in Members(s) \cup {TailElem}
  BY <1>1, <1>2 DEF Station
<1>4. \A i \in 0..Len(s) :
         links[q].next[Station(s, i)] \in Members(s) \cup {TailElem}
  BY <1>1, <1>2, <1>3 DEF NextSpells
<1>5. links[q].next[HeadElem] \in Members(s) \cup {TailElem}
  <2>1. 0 \in 0..Len(s) /\ Station(s, 0) = HeadElem
    BY <1>2 DEF Station
  <2> QED BY <1>4, <2>1
<1>6. \A i \in 1..Len(s) : links[q].next[s[i]] \in Members(s) \cup {TailElem}
  <2>1. \A i \in 1..Len(s) : i \in 0..Len(s) /\ Station(s, i) = s[i]
    BY <1>1, <1>2, StationIs
  <2> QED BY <1>4, <2>1
<1> QED BY <1>2, <1>5, <1>6 DEF s

LEMMA HasElemFirstInv ==
    ASSUME IInv, HasElemFirst
    PROVE  IInv'
<1> DEFINE first == MyLinks.next[HeadElem]
           n == [Me EXCEPT !.pelem = first, !.pc = "empty"]
<1>1. /\ TypeOK /\ cur \in Thread /\ Me \in Call /\ Me.q \in QueueName
      /\ call \in [Thread -> Call]
  BY CallTypes DEF IInv
<1>2. /\ ~panic /\ Me.pc = "first"
      /\ call' = [call EXCEPT ![cur] = n]
      /\ unvisited' = [unvisited EXCEPT ![cur] = Members(Content(Me.q))]
      /\ UNCHANGED <<cur, intr_on, created, links, panic>>
  <2>1. Content(Me.q) = Forward(MyLinks)
    BY DEF Content, MyLinks
  <2> QED BY <1>1, <2>1 DEF HasElemFirst, At, Me, Call
<1>3. first \in Members(Content(Me.q)) \cup {TailElem}
      /\ Members(Content(Me.q)) \subseteq Thread
  BY <1>1, Successors DEF MyLinks
<1> HIDE DEF first
<1>4. n \in Call /\ n.pc = "empty" /\ n.q = Me.q /\ n.elem = Me.elem
      /\ n.pelem = first
  BY <1>1, <1>3 DEF Call, Points
<1> HIDE DEF n
<1>5. Me.q = "ready" => first # cur
  BY <1>1, <1>3, ListsAssumption DEF IInv, ElemInv
<1>6. unvisited' \in [Thread -> SUBSET Thread]
  BY <1>1, <1>2, <1>3 DEF TypeOK
<1>7. panic' = FALSE /\ intr_on' \in BOOLEAN
  BY <1>1, <1>2 DEF TypeOK
<1> QED BY <1>2, <1>3, <1>4, <1>5, <1>6, <1>7, SearchStep

LEMMA HasElemEmptyInv ==
    ASSUME IInv, HasElemEmpty
    PROVE  IInv'
<1> DEFINE point == IF list_empty(MyLinks) THEN "disable" ELSE "search"
           n == [Me EXCEPT !.pc = point]
<1>1. /\ TypeOK /\ cur \in Thread /\ Me \in Call /\ Me.q \in QueueName
      /\ call \in [Thread -> Call]
  BY CallTypes DEF IInv
<1>2. /\ ~panic /\ Me.pc = "empty"
      /\ call' = [call EXCEPT ![cur] = n]
      /\ UNCHANGED <<cur, intr_on, created, links, unvisited, panic>>
  BY <1>1 DEF HasElemEmpty, At, Goto, Me, Call
<1>3. point \in {"disable", "search"}
  OBVIOUS
<1> HIDE DEF point
<1>4. n \in Call /\ n.pc = point /\ n.q = Me.q /\ n.elem = Me.elem
      /\ n.pelem = Me.pelem
  BY <1>1, <1>3 DEF Call, Points
<1> HIDE DEF n
<1>5. Me.pelem \in Members(Content(Me.q)) \cup {TailElem}
  BY <1>2, SearchStands
<1>6. Me.q = "ready" => Me.pelem # cur
  BY <1>1, <1>5, ListsAssumption DEF IInv, ElemInv
<1>7. /\ panic' = FALSE /\ intr_on' \in BOOLEAN
      /\ unvisited' \in [Thread -> SUBSET Thread]
  BY <1>1, <1>2 DEF TypeOK
<1> QED BY <1>2, <1>3, <1>4, <1>5, <1>6, <1>7, SearchStep

\* The search meets no thread that has yet to be linked: the ASSERT holds.
LEMMA SearchMeetsOthers ==
    ASSUME IInv, Me.pc = "search"
    PROVE  Me.pelem # Me.elem
<1>1. /\ cur \in Thread /\ Me \in Call /\ Me.q \in QueueName /\ Me.elem \in Thread
  BY CallTypes DEF IInv
<1>2. Me.pelem \in Members(Content(Me.q)) \cup {TailElem}
  BY SearchStands
<1>3. Unlinked(cur, Me.q)
  BY DEF Unlinked, ToLink, Me
<1>4. Me.elem \notin Members(Content(Me.q))
  BY <1>1, <1>3 DEF IInv, ElemInv, Me
<1> QED BY <1>1, <1>2, <1>4, ListsAssumption

LEMMA HasElemSearchInv ==
    ASSUME IInv, HasElemSearch
    PROVE  IInv'
<1>1. /\ TypeOK /\ cur \in Thread /\ Me \in Call /\ Me.q \in QueueName
      /\ call \in [Thread -> Call] /\ ~panic /\ Me.pc = "search"
      /\ UNCHANGED <<cur, intr_on, created, links>>
  BY CallTypes DEF IInv, HasElemSearch, At
<1>2. Me.pelem \in Members(Content(Me.q)) \cup {TailElem}
  BY <1>1, SearchStands
<1>3. CASE Me.pelem = TailElem
  <2> DEFINE n == [Me EXCEPT !.pc = "disable"]
  <2>1. call' = [call EXCEPT ![cur] = n] /\ UNCHANGED <<unvisited, panic>>
    BY <1>1, <1>3 DEF HasElemSearch, Goto, Me, Call
  <2>2. n \in Call /\ n.pc = "disable" /\ n.q = Me.q /\ n.elem = Me.elem
    BY <1>1 DEF Call, Points
  <2> HIDE DEF n
  <2>3. /\ panic' = FALSE /\ intr_on' \in BOOLEAN
        /\ unvisited' \in [Thread -> SUBSET Thread]
    BY <1>1, <2>1 DEF TypeOK
  <2> QED BY <1>1, <2>1, <2>2, <2>3, SearchStep
<1>4. CASE Me.pelem # TailElem
  <2> DEFINE next == MyLinks.next[Me.pelem]
             n == [Me EXCEPT !.pelem = next]
  <2>1. /\ call' = [call EXCEPT ![cur] = n]
        /\ panic' = (Me.pelem = Me.elem)
        /\ unvisited' = [unvisited EXCEPT ![cur] = @ \ {Me.pelem}]
    BY <1>1, <1>4 DEF HasElemSearch, Me, Call
  <2>2. /\ next \in Members(Content(Me.q)) \cup {TailElem}
        /\ Members(Content(Me.q)) \subseteq Thread
    BY <1>1, <1>2, <1>4, Successors DEF MyLinks
  <2> HIDE DEF next
  <2>3. n \in Call /\ n.pc = "search" /\ n.q = Me.q /\ n.elem = Me.elem
        /\ n.pelem = next
    BY <1>1, <2>2 DEF Call
  <2> HIDE DEF n
  <2>4. Me.q = "ready" => next # cur
    BY <1>1, <2>2, ListsAssumption DEF IInv, ElemInv
  <2>5. /\ panic' = FALSE /\ intr_on' \in BOOLEAN
        /\ unvisited' \in [Thread -> SUBSET Thread]
    BY <1>1, <2>1, SearchMeetsOthers DEF TypeOK
  <2> QED BY <1>1, <2>1, <2>2, <2>3, <2>4, <2>5, SearchStep
<1> QED BY <1>3, <1>4

LEMMA DisableInv ==
    ASSUME IInv, Disable
    PROVE  IInv'
<1> DEFINE n == [Me EXCEPT !.pc = "link_elem", !.old_status = intr_on]
<1>1. /\ TypeOK /\ cur \in Thread /\ Me \in Call /\ call \in [Thread -> Call]
  BY CallTypes DEF IInv
<1>2. /\ ~panic /\ Me.pc = "disable" /\ intr_on' = FALSE
      /\ call' = [call EXCEPT ![cur] = n]
      /\ UNCHANGED <<cur, created, links, unvisited, panic>>
  BY <1>1 DEF Disable, At, Me, Call
<1>3. n \in Call /\ n.pc = "link_elem" /\ n.q = Me.q /\ n.elem = Me.elem
  BY <1>1 DEF Call, Points, TypeOK
<1> HIDE DEF n
<1>4. /\ panic' = FALSE /\ intr_on' \in BOOLEAN
      /\ unvisited' \in [Thread -> SUBSET Thread]
  BY <1>1, <1>2 DEF TypeOK
<1> QED BY <1>2, <1>3, <1>4, SearchStep

LEMMA RestoreInv ==
    ASSUME IInv, Restore
    PROVE  IInv'
<1> DEFINE point == IF Me.q = "ready" THEN "first" ELSE "body"
           n == [Me EXCEPT !.pc = point, !.q = "all"]
<1>1. /\ TypeOK /\ cur \in Thread /\ Me \in Call /\ call \in [Thread -> Call]
  BY CallTypes DEF IInv
<1>2. /\ ~panic /\ Me.pc = "restore" /\ intr_on' = Me.old_status
      /\ call' = [call EXCEPT ![cur] = n]
      /\ UNCHANGED <<cur, created, links, unvisited, panic>>
  BY <1>1 DEF Restore, At, Me, Call
<1>3. point \in {"first", "body"} /\ (point = "first" => Me.q = "ready")
  OBVIOUS
<1> HIDE DEF point
<1>4. n \in Call /\ n.pc = point /\ n.q = "all" /\ n.elem = Me.elem
  BY <1>1, <1>3 DEF Call, Points, QueueName
<1> HIDE DEF n
<1>5. /\ call' \in [Thread -> Call] /\ Me' = n /\ call'[cur] = n
      /\ \A t \in Thread : t # cur => call'[t] = call[t]
  BY <1>1, <1>2, <1>4, OwnStep
<1>6. TypeOK'
  BY <1>1, <1>2, <1>5 DEF TypeOK, Call
<1>7. LockInv'
  BY <1>2, <1>3, <1>4, <1>5 DEF IInv, LockInv, Linking
<1>8. \A q : Content(q)' = Content(q)
  BY <1>2 DEF Content
<1>9. ElemInv'
  <2>1. ASSUME NEW t \in Thread
        PROVE  /\ call'[t].elem = call[t].elem
               /\ call'[t].pc # "body" => call[t].pc # "body"
               /\ \A q \in QueueName : Unlinked(t, q)' => Unlinked(t, q)
    <3>1. CASE t = cur
      BY <1>2, <1>3, <1>4, <1>5, <3>1 DEF Unlinked, ToLink, Me, QueueName
    <3>2. CASE t # cur
      BY <1>5, <3>2 DEF Unlinked
    <3> QED BY <3>1, <3>2
  <2> QED BY <1>2, <2>1, QuietElems DEF IInv
<1>10. \A q \in QueueName : LinksInv(q)'
  BY <1>2, <1>3, <1>4, <1>5, QuietLinks
<1>11. SearchInv'
  BY <1>2, <1>3, <1>4, <1>5, <1>8 DEF IInv, SearchInv
<1> QED BY <1>6, <1>7, <1>9, <1>10, <1>11 DEF IInv

\* An assignment to the links of the queue that cur links its new thread into
LEMMA AssignStep ==
    ASSUME IInv, NEW m \in Links, NEW next \in {"link_next", "link_prev", "restore"},
           Me.pc \in {"link_elem", "link_next", "link_prev"},
           links' = [links EXCEPT ![Me.q] = m],
           call' = [call EXCEPT ![cur].pc = next],
           UNCHANGED <<cur, intr_on, created, unvisited, panic>>,
           \/ Members(Forward(m)) = Members(Content(Me.q))
           \/ /\ Members(Forward(m)) = Members(Content(Me.q)) \cup {Me.elem}
              /\ next = "link_prev" /\ Me.pc = "link_next",
           next = "link_next" => Me.pc = "link_elem",
           LinksInv(Me.q)'
    PROVE  IInv'
<1> DEFINE n == [Me EXCEPT !.pc = next]
           p == Me.elem
<1>1. /\ TypeOK /\ cur \in Thread /\ Me \in Call /\ call \in [Thread -> Call]
      /\ Me.q \in QueueName /\ links \in [QueueName -> Links] /\ p \in Thread
  BY CallTypes DEF IInv, TypeOK
<1>2. /\ n \in Call /\ n.pc = next /\ n.q = Me.q /\ n.elem = p
      /\ n.pelem = Me.pelem /\ call' = [call EXCEPT ![cur] = n]
  BY <1>1 DEF Call, Points, Me
<1> HIDE DEF n
<1>3. /\ call' \in [Thread -> Call] /\ Me' = n /\ call'[cur] = n
      /\ \A t \in Thread : t # cur => call'[t] = call[t]
  BY <1>1, <1>2, OwnStep
<1>4. \A q \in QueueName :
         /\ q = Me.q => Content(q)' = Forward(m)
         /\ q # Me.q => Content(q)' = Content(q) /\ links'[q] = links[q]
  <2>1. links'[Me.q] = m /\ \A q \in QueueName : q # Me.q => links'[q] = links[q]
    BY <1>1
  <2> QED BY <2>1 DEF Content
<1>5. \A q \in QueueName :
         /\ Members(Content(q)) \subseteq Members(Content(q)')
         /\ Members(Content(q)') \subseteq Members(Content(q)) \cup {p}
         /\ p \in Members(Content(q)') /\ p \notin Members(Content(q)) =>
               q = Me.q /\ next = "link_prev" /\ Me.pc = "link_next"
  <2> SUFFICES ASSUME NEW q \in QueueName
               PROVE  /\ Members(Content(q)) \subseteq Members(Content(q)')
                      /\ Members(Content(q)') \subseteq Members(Content(q)) \cup {p}
                      /\ p \in Members(Content(q)') /\ p \notin Members(Content(q)) =>
                            q = Me.q /\ next = "link_prev" /\ Me.pc = "link_next"
    OBVIOUS
  <2>1. CASE q = Me.q
    <3>1. Members(Content(q)') = Members(Forward(m))
      BY <1>4, <2>1
    <3> QED BY <2>1, <3>1
  <2>2. CASE q # Me.q
    <3>1. Content(q)' = Content(q)
      BY <1>4, <2>2
    <3> QED BY <3>1
  <2> QED BY <2>1, <2>2
<1> HIDE DEF p
<1>6. TypeOK'
  BY <1>1, <1>3 DEF TypeOK
<1>7. LockInv'
  BY <1>3 DEF IInv, LockInv, Linking
<1>8. \A q \in QueueName : LinksInv(q)'
  <2> SUFFICES ASSUME NEW q \in QueueName, q # Me.q PROVE LinksInv(q)'
    <3>1. Me'.q = Me.q
      BY <1>2, <1>3
    <3> QED BY <3>1
  <2>1. /\ Content(q) \in Seq(Thread) /\ Distinct(Content(q))
        /\ NextSpells(links[q], Content(q)) /\ PrevSpells(links[q], Content(q))
    BY PrevWhole DEF Inserts
  <2>2. Content(q)' = Content(q) /\ links'[q] = links[q]
    BY <1>4
  <2>3. ~Inserts(q, "link_next")' /\ ~Inserts(q, "link_prev")'
    BY <1>2, <1>3 DEF Inserts
  <2> QED BY <2>1, <2>2, <2>3 DEF LinksInv
<1>9. Unlinked(cur, Me.q) <=> Me.pc # "link_prev"
  BY DEF Unlinked, ToLink, Me
<1>10. \A t \in Thread, q \in QueueName : Unlinked(t, q)' => Unlinked(t, q)
  <2> SUFFICES ASSUME NEW t \in Thread, NEW q \in QueueName, Unlinked(t, q)'
               PROVE  Unlinked(t, q)
    OBVIOUS
  <2>1. CASE t = cur
    BY <1>2, <1>3, <2>1 DEF Unlinked, ToLink, Me
  <2>2. CASE t # cur
    BY <1>3, <2>2 DEF Unlinked
  <2> QED BY <2>1, <2>2
<1>11. /\ \A t \in Thread : call'[t].elem = call[t].elem
       /\ \A t \in Thread : call'[t].pc # "body" => call[t].pc # "body"
  BY <1>2, <1>3 DEF Me, p
<1>12. ElemInv'
  <2>1. /\ cur \in created /\ cur \notin Members(Content("ready"))
        /\ \A q \in QueueName : Members(Content(q)) \subseteq created
        /\ \A t \in Thread : call[t].pc # "body" => call[t].elem \in created \ {t}
        /\ \A t, u \in Thread :
              t # u /\ call[t].pc # "body" /\ call[u].pc # "body" =>
                 call[t].elem # call[u].elem
        /\ \A t \in Thread, q \in QueueName :
              Unlinked(t, q) => call[t].elem \notin Members(Content(q))
        /\ \A t \in Thread : Unlinked(t, "ready") => call[t].elem # cur
    BY DEF IInv, ElemInv
  <2>2. p \in created
    BY <1>1, <2>1 DEF Me, p
  <2>3. cur \notin Members(Content("ready")')
    <3> SUFFICES ASSUME cur = p, p \in Members(Content("ready")') PROVE FALSE
      BY <1>5, <2>1 DEF QueueName
    <3>1. Me.q = "ready" /\ Me.pc = "link_next"
      BY <1>5, <2>1 DEF QueueName
    <3>2. Unlinked(cur, "ready")
      BY <1>9, <3>1
    <3> QED BY <1>1, <2>1, <3>2 DEF Me, p
  <2>4. ASSUME NEW t \in Thread, NEW q \in QueueName, Unlinked(t, q)'
        PROVE  call[t].elem \notin Members(Content(q)')
    <3>1. call[t].elem \notin Members(Content(q)) /\ call[t].pc # "body"
      BY <1>10, <2>1, <2>4 DEF Unlinked
    <3> SUFFICES ASSUME call[t].elem = p, p \in Members(Content(q)') PROVE FALSE
      BY <1>5, <3>1
    <3>2. q = Me.q /\ next = "link_prev" /\ Me.pc = "link_next"
      BY <1>5, <3>1
    <3>3. CASE t = cur
      BY <1>2, <1>3, <2>4, <3>2, <3>3 DEF Unlinked, ToLink
    <3>4. CASE t # cur
      BY <1>1, <2>1, <3>1, <3>2, <3>4 DEF Me, p
    <3> QED BY <3>3, <3>4
  <2>5. \A q \in QueueName : Members(Content(q)') \subseteq created
    BY <1>5, <2>1, <2>2
  <2>6. \A t \in Thread : Unlinked(t, "ready")' => call[t].elem # cur
    BY <1>10, <2>1 DEF QueueName
  <2> QED BY <1>11, <2>1, <2>3, <2>4, <2>5, <2>6 DEF ElemInv
<1>13. SearchInv'
  <2>1. \A t \in Thread :
           call'[t].pc \in {"empty", "search"} => t # cur /\ call'[t] = call[t]
    BY <1>2, <1>3
  <2>2. \A t \in Thread : call[t].q \in QueueName
    BY <1>1 DEF Call
  <2> QED BY <1>5, <2>1, <2>2 DEF IInv, SearchInv
<1> QED BY <1>6, <1>7, <1>8, <1>12, <1>13 DEF IInv

\* The queue that cur links its new thread into, before each assignment
LEMMA InsertLinks ==
    ASSUME IInv, Me.pc \in {"link_elem", "link_next", "link_prev"}
    PROVE  LET s == Content(Me.q)
               l == links[Me.q]
               n == Len(s)
               p == Me.elem
           IN  /\ Me.q \in QueueName /\ l \in Links /\ p \in Thread
               /\ s \in Seq(Thread) /\ Distinct(s) /\ NextSpells(l, s)
               /\ Me.pc # "link_prev" => PrevSpells(l, s) /\ p \notin Members(s)
               /\ Me.pc = "link_next" =>
                     l.prev[p] = l.prev[TailElem] /\ l.next[p] = TailElem
               /\ Me.pc = "link_prev" =>
                     /\ n > 0 /\ s[n] = p
                     /\ \A i \in 0..n - 1 :
                           l.prev[Station(s, i + 1)] = Station(s, i)
<1>1. /\ Me.q \in QueueName /\ links[Me.q] \in Links /\ Me.elem \in Thread
      /\ cur \in Thread
  BY CallTypes DEF IInv
<1>2. LinksInv(Me.q)
  BY <1>1 DEF IInv
<1>3. Me.pc # "link_prev" => Unlinked(cur, Me.q)
  BY DEF Unlinked, ToLink, Me
<1>4. Me.pc # "link_prev" => Me.elem \notin Members(Content(Me.q))
  BY <1>1, <1>3 DEF IInv, ElemInv, Me
<1> QED BY <1>1, <1>2, <1>4 DEF LinksInv, Inserts

LEMMA LinkElemInv ==
    ASSUME IInv, Assign("link_elem", LinkElem, "link_next")
    PROVE  IInv' /\ Forward(links'[Me.q]) = Content(Me.q)
<1> DEFINE s == Content(Me.q)
           l == links[Me.q]
           p == Me.elem
           m == LinkElem(l, TailElem, p)
<1>1. /\ Me.pc = "link_elem"
      /\ links' = [links EXCEPT ![Me.q] = m]
      /\ call' = [call EXCEPT ![cur].pc = "link_next"]
      /\ UNCHANGED <<cur, intr_on, created, unvisited, panic>>
  BY DEF Assign, At, Goto, MyLinks
<1>2. /\ Me.q \in QueueName /\ l \in Links /\ p \in Thread
      /\ s \in Seq(Thread) /\ Distinct(s) /\ NextSpells(l, s)
      /\ PrevSpells(l, s) /\ p \notin Members(s)
  BY <1>1, InsertLinks
<1>3. /\ m \in Links /\ NextSpells(m, s) /\ PrevSpells(m, s)
      /\ m.prev[p] = m.prev[TailElem] /\ m.next[p] = TailElem
  BY <1>2, LinkElemSpells
<1> HIDE DEF m, s
<1>4. Forward(m) = s
  BY <1>2, <1>3, ForwardIs
<1>5. Me'.q = Me.q /\ Me'.pc = "link_next" /\ Me'.elem = p
  BY <1>1, CallTypes DEF IInv, Me, Call
<1>6. links'[Me.q] = m
  BY <1>1, <1>2 DEF IInv, TypeOK
<1>7. LinksInv(Me.q)'
  <2>1. Content(Me.q)' = s
    BY <1>4, <1>5, <1>6 DEF Content
  <2>2. ~Inserts(Me.q, "link_prev")'
    BY <1>5 DEF Inserts
  <2> QED BY <1>2, <1>3, <1>5, <1>6, <2>1, <2>2 DEF LinksInv
<1>8. Members(Forward(m)) = Members(Content(Me.q))
  BY <1>4 DEF s
<1>9. IInv'
  BY <1>1, <1>3, <1>7, <1>8, AssignStep
<1> QED BY <1>4, <1>6, <1>9 DEF s

LEMMA LinkNextInv ==
    ASSUME IInv, Assign("link_next", LinkNext, "link_prev")
    PROVE  IInv' /\ Forward(links'[Me.q]) = Append(Content(Me.q), Me.elem)
<1> DEFINE s == Content(Me.q)
           l == links[Me.q]
           p == Me.elem
           m == LinkNext(l, TailElem, p)
           t == Append(s, p)
           n == Len(s)
<1>1. /\ Me.pc = "link_next"
      /\ links' = [links EXCEPT ![Me.q] = m]
      /\ call' = [call EXCEPT ![cur].pc = "link_prev"]
      /\ UNCHANGED <<cur, intr_on, created, unvisited, panic>>
  BY DEF Assign, At, Goto, MyLinks
<1>2. /\ Me.q \in QueueName /\ l \in Links /\ p \in Thread
      /\ s \in Seq(Thread) /\ Distinct(s) /\ NextSpells(l, s)
      /\ PrevSpells(l, s) /\ p \notin Members(s)
      /\ l.prev[p] = l.prev[TailElem] /\ l.next[p] = TailElem
  BY <1>1, InsertLinks
<1>3. /\ m \in Links /\ NextSpells(m, t)
      /\ m.prev = l.prev /\ l.prev[TailElem] = Station(s, n)
  BY <1>2, LinkNextSpells
<1>4. /\ t \in Seq(Thread) /\ Distinct(t) /\ Len(t) = n + 1 /\ n \in Nat
      /\ Members(t) = Members(s) \cup {p}
      /\ \A i \in 0..n : Station(t, i) = Station(s, i)
      /\ Station(t, n + 1) = p
  BY <1>2, AppendStations
<1>5. t[Len(t)] = p
  <2>1. n + 1 \in 1..Len(t)
    BY <1>4
  <2> QED BY <1>4, <2>1, StationIs
<1> HIDE DEF m, t, s
<1>6. Forward(m) = t
  BY <1>3, <1>4, ForwardIs
<1>7. Me'.q = Me.q /\ Me'.pc = "link_prev" /\ Me'.elem = p
  BY <1>1, CallTypes DEF IInv, Me, Call
<1>8. links'[Me.q] = m
  BY <1>1, <1>2 DEF IInv, TypeOK
<1>9. ASSUME NEW i \in 0..Len(t) - 1
      PROVE  m.prev[Station(t, i + 1)] = Station(t, i)
  <2>1. CASE i = n
    BY <1>2, <1>3, <1>4, <2>1
  <2>2. CASE i # n
    <3>1. i \in 0..n /\ i + 1 \in 0..n
      BY <1>4, <2>2
    <3>2. l.prev[Station(s, i + 1)] = Station(s, i)
      BY <1>2, <3>1 DEF PrevSpells
    <3> QED BY <1>3, <1>4, <3>1, <3>2
  <2> QED BY <2>1, <2>2
<1>10. Content(Me.q)' = t
  BY <1>6, <1>7, <1>8 DEF Content
<1>11. LinksInv(Me.q)'
  <2>1. Inserts(Me.q, "link_prev")' /\ ~Inserts(Me.q, "link_next")'
    BY <1>7 DEF Inserts
  <2>2. m.prev[TailElem] = Station(t, Len(t) - 1) /\ Len(t) > 0
    BY <1>3, <1>4
  <2> QED BY <1>3, <1>4, <1>5, <1>7, <1>8, <1>9, <1>10, <2>1, <2>2 DEF LinksInv
<1>12. Members(Forward(m)) = Members(Content(Me.q)) \cup {Me.elem}
  BY <1>4, <1>6 DEF s
<1>13. IInv'
  BY <1>1, <1>3, <1>11, <1>12, AssignStep
<1> QED BY <1>6, <1>8, <1>13 DEF t, s

LEMMA LinkPrevInv ==
    ASSUME IInv, Assign("link_prev", LinkPrev, "restore")
    PROVE  IInv' /\ Forward(links'[Me.q]) = Content(Me.q)
<1> DEFINE s == Content(Me.q)
           l == links[Me.q]
           p == Me.elem
           m == LinkPrev(l, TailElem, p)
           n == Len(s)
<1>1. /\ Me.pc = "link_prev"
      /\ links' = [links EXCEPT ![Me.q] = m]
      /\ call' = [call EXCEPT ![cur].pc = "restore"]
      /\ UNCHANGED <<cur, intr_on, created, unvisited, panic>>
  BY DEF Assign, At, Goto, MyLinks
<1>2. /\ Me.q \in QueueName /\ l \in Links /\ p \in Thread
      /\ s \in Seq(Thread) /\ Distinct(s) /\ NextSpells(l, s)
      /\ n > 0 /\ s[n] = p
      /\ \A i \in 0..n - 1 : l.prev[Station(s, i + 1)] = Station(s, i)
  BY <1>1, InsertLinks
<1>3. s # <<>>
  BY <1>2
<1>4. m \in Links /\ NextSpells(m, s) /\ PrevSpells(m, s)
  <2> HIDE DEF s
  <2>1. LET r == LinkPrev(l, TailElem, s[Len(s)])
        IN  r \in Links /\ NextSpells(r, s) /\ PrevSpells(r, s)
    BY <1>2, <1>3, LinkPrevSpells
  <2> QED BY <1>2, <2>1
<1> HIDE DEF m, s
<1>5. Forward(m) = s
  BY <1>2, <1>4, ForwardIs
<1>6. Me'.q = Me.q /\ Me'.pc = "restore"
  BY <1>1, CallTypes DEF IInv, Me, Call
<1>7. links'[Me.q] = m
  BY <1>1, <1>2 DEF IInv, TypeOK
<1>8. LinksInv(Me.q)'
  <2>1. Content(Me.q)' = s
    BY <1>5, <1>6, <1>7 DEF Content
  <2>2. ~Inserts(Me.q, "link_prev")' /\ ~Inserts(Me.q, "link_next")'
    BY <1>6 DEF Inserts
  <2> QED BY <1>2, <1>4, <1>6, <1>7, <2>1, <2>2 DEF LinksInv
<1>9. Members(Forward(m)) = Members(Content(Me.q))
  BY <1>5 DEF s
<1>10. IInv'
  BY <1>1, <1>4, <1>8, <1>9, AssignStep
<1> QED BY <1>5, <1>7, <1>10 DEF s

\* The threads in front of schedule: the running thread is not in the ready
\* queue; what leaves the queue is first of the running thread's new queue.
LEMMA ScheduleQueue ==
    ASSUME IInv, Schedule
    PROVE  LET s == Content("ready")
               t == Append(s, cur)
           IN  /\ s \in Seq(Thread) /\ cur \notin Members(s)
               /\ cur \in Thread /\ cur' = t[1] /\ cur' \in Thread
               /\ t \in Seq(Thread) /\ t # <<>>
               /\ panic' = FALSE /\ links' \in [QueueName -> Links]
               /\ links'["all"] = links["all"]
               /\ NextSpells(links'["ready"], Tail(t))
               /\ PrevSpells(links'["ready"], Tail(t))
               /\ Tail(t) \in Seq(Thread) /\ Distinct(Tail(t))
               /\ Content("ready")' = Tail(t)
               /\ cur' \in Members(s) \cup {cur}
               /\ Members(Tail(t)) = (Members(s) \cup {cur}) \ {cur'}
               /\ UNCHANGED <<intr_on, created, call, unvisited>>
               /\ ~panic /\ intr_on
<1> DEFINE s == Content("ready")
           t == Append(s, cur)
           appended == list_append(links["ready"], cur)
           first == appended.next[HeadElem]
           m == list_remove(appended, first)
<1>1. TypeOK /\ cur \in Thread /\ links["ready"] \in Links /\ "ready" \in QueueName
  BY CallTypes DEF IInv, QueueName
<1>2. ~panic /\ intr_on /\ UNCHANGED <<intr_on, created, call, unvisited>>
  BY DEF Schedule
<1>3. cur \notin Members(s)
  BY DEF IInv, ElemInv
<1>4. ~Inserts("ready", "link_prev")
  BY <1>2 DEF IInv, LockInv, Inserts, Linking
<1>5. /\ s \in Seq(Thread) /\ Distinct(s)
      /\ NextSpells(links["ready"], s) /\ PrevSpells(links["ready"], s)
  BY <1>1, <1>4, PrevWhole
<1>6. ~list_has_elem(links["ready"], cur)
  BY <1>3 DEF list_has_elem, Content
<1>7. /\ panic' = list_empty(appended) /\ cur' = first
      /\ links' = [links EXCEPT !["ready"] = m]
  BY <1>6 DEF Schedule
<1> HIDE DEF s
<1>8. appended \in Links /\ NextSpells(appended, t) /\ PrevSpells(appended, t)
  BY <1>1, <1>3, <1>5, AppendSpells
<1>9. /\ t \in Seq(Thread) /\ Distinct(t) /\ Len(t) = Len(s) + 1
      /\ Members(t) = Members(s) \cup {cur} /\ Len(s) \in Nat
  BY <1>1, <1>3, <1>5, AppendStations
<1> HIDE DEF t, appended
<1>10. /\ t # <<>> /\ 0 \in 0..Len(t) /\ Len(t) \in 0..Len(t) /\ 1 \in 1..Len(t)
       /\ Len(t) \in 1..Len(t)
  BY <1>9
<1>11. first = t[1]
  <2>1. appended.next[Station(t, 0)] = Station(t, 0 + 1)
    BY <1>8, <1>10 DEF NextSpells
  <2> QED BY <1>9, <1>10, <2>1, StationIs
<1>12. ~list_empty(appended)
  <2>1. appended.prev[Station(t, Len(t) + 1)] = Station(t, Len(t))
    BY <1>8, <1>10 DEF PrevSpells
  <2> QED BY <1>9, <1>10, <2>1, StationIs, ListsAssumption DEF list_empty
<1>13. /\ Tail(t) \in Seq(Thread) /\ Distinct(Tail(t))
       /\ t[1] \in Thread /\ Members(Tail(t)) = Members(t) \ {t[1]}
       /\ t[1] \in Members(t)
  BY <1>9, <1>10, TailStations
<1>14. m \in Links /\ NextSpells(m, Tail(t)) /\ PrevSpells(m, Tail(t))
  BY <1>8, <1>9, <1>10, <1>11, RemoveSpells
<1> HIDE DEF m, first
<1>15. /\ links' \in [QueueName -> Links] /\ links'["ready"] = m
       /\ links'["all"] = links["all"]
  BY <1>1, <1>7, <1>14 DEF TypeOK, QueueName
<1>16. Forward(m) = Tail(t)
  BY <1>13, <1>14, ForwardIs
<1>17. Content("ready")' = Tail(t)
  BY <1>15, <1>16 DEF Content
<1>18. panic' = FALSE
  BY <1>7, <1>12
<1> HIDE DEF s
<1> QED
  BY <1>1, <1>2, <1>3, <1>5, <1>7, <1>9, <1>10, <1>11, <1>13, <1>14, <1>15,
     <1>17, <1>18 DEF s, t

LEMMA ScheduleInv ==
    ASSUME IInv, Schedule
    PROVE  IInv'
<1> DEFINE s == Content("ready")
           t == Append(s, cur)
<1>1. /\ s \in Seq(Thread) /\ cur \notin Members(s)
      /\ cur \in Thread /\ cur' = t[1] /\ cur' \in Thread
      /\ t \in Seq(Thread) /\ t # <<>>
      /\ panic' = FALSE /\ links' \in [QueueName -> Links]
      /\ links'["all"] = links["all"]
      /\ NextSpells(links'["ready"], Tail(t))
      /\ PrevSpells(links'["ready"], Tail(t))
      /\ Tail(t) \in Seq(Thread) /\ Distinct(Tail(t))
      /\ Content("ready")' = Tail(t)
      /\ cur' \in Members(s) \cup {cur}
      /\ Members(Tail(t)) = (Members(s) \cup {cur}) \ {cur'}
      /\ UNCHANGED <<intr_on, created, call, unvisited>>
      /\ ~panic /\ intr_on
  BY ScheduleQueue
<1>2. Content("all")' = Content("all")
  BY <1>1 DEF Content
<1>3. /\ \A u \in Thread : call[u].pc \notin Linking
      /\ Me.pc \notin Linking /\ Me'.pc \notin Linking
  BY <1>1 DEF IInv, LockInv, Me
<1>4. /\ Members(Content("ready")') = (Members(s) \cup {cur}) \ {cur'}
      /\ Members(Content("all")') = Members(Content("all"))
  BY <1>1, <1>2
<1>5. TypeOK'
  BY <1>1 DEF IInv, TypeOK
<1>6. LockInv'
  BY <1>1, <1>3 DEF LockInv
<1>7. \A q \in QueueName : LinksInv(q)'
  <2>1. \A q : /\ ~Inserts(q, "link_next") /\ ~Inserts(q, "link_prev")
               /\ ~Inserts(q, "link_next")' /\ ~Inserts(q, "link_prev")'
    BY <1>3 DEF Inserts, Linking
  <2>2. LinksInv("ready")'
    BY <1>1, <2>1 DEF LinksInv
  <2>3. LinksInv("all")'
    BY <1>1, <1>2, <2>1, PrevWhole DEF LinksInv, QueueName
  <2> QED BY <2>2, <2>3 DEF QueueName
<1>8. \A u \in Thread, q \in QueueName : Unlinked(u, q)' <=> Unlinked(u, q)
  BY <1>1 DEF Unlinked
<1> HIDE DEF s, t
<1>9. ElemInv'
  <2>1. /\ cur \in created
        /\ Members(s) \subseteq created /\ Members(Content("all")) \subseteq created
        /\ \A u \in Thread : call[u].pc # "body" => call[u].elem \in created \ {u}
        /\ \A u, v \in Thread :
              u # v /\ call[u].pc # "body" /\ call[v].pc # "body" =>
                 call[u].elem # call[v].elem
        /\ \A u \in Thread : Unlinked(u, "ready") => call[u].elem \notin Members(s)
        /\ \A u \in Thread :
              Unlinked(u, "all") => call[u].elem \notin Members(Content("all"))
        /\ \A u \in Thread : Unlinked(u, "ready") => call[u].elem # cur
    BY DEF IInv, ElemInv, s, QueueName
  <2>2. cur' \in created' /\ cur' \notin Members(Content("ready")')
    BY <1>1, <1>4, <2>1
  <2>3. \A q \in QueueName : Members(Content(q)') \subseteq created'
    BY <1>1, <1>4, <2>1 DEF QueueName
  <2>4. \A u \in Thread, q \in QueueName :
           Unlinked(u, q)' => call'[u].elem \notin Members(Content(q)')
    BY <1>1, <1>4, <1>8, <2>1 DEF QueueName
  <2>5. \A u \in Thread : Unlinked(u, "ready")' => call'[u].elem # cur'
    BY <1>1, <1>8, <2>1 DEF QueueName
  <2> QED BY <1>1, <2>1, <2>2, <2>3, <2>4, <2>5 DEF ElemInv
<1>10. SearchInv'
  <2> SUFFICES ASSUME NEW u \in Thread, call[u].pc \in {"empty", "search"}
               PROVE  /\ \/ call[u].pelem \in
                               Members(Content(call[u].q)') \cup {TailElem}
                         \/ call[u].q = "ready" /\ call[u].pelem = cur'
                      /\ call[u].q = "ready" => call[u].pelem # u
    BY <1>1 DEF SearchInv
  <2>1. /\ \/ call[u].pelem \in Members(Content(call[u].q)) \cup {TailElem}
           \/ call[u].q = "ready" /\ call[u].pelem = cur
        /\ call[u].q = "ready" => call[u].pelem # u
        /\ call[u].q \in QueueName
    BY DEF IInv, SearchInv, TypeOK, Call
  <2>2. CASE call[u].q = "ready"
    BY <1>1, <1>4, <2>1, <2>2 DEF s
  <2>3. CASE call[u].q = "all"
    <3>1. Content(call[u].q)' = Content(call[u].q)
      BY <1>1, <1>2, <2>3
    <3> QED BY <2>1, <2>3, <3>1
  <2> QED BY <2>1, <2>2, <2>3 DEF QueueName
<1> QED BY <1>5, <1>6, <1>7, <1>9, <1>10 DEF IInv

\* make_main_thread appends main to an empty all_thread_queue.
LEMMA InitInv ==
    ASSUME Init
    PROVE  IInv /\ Content("ready") = <<>> /\ Content("all") = <<MainThread>>
<1> DEFINE e == << >>
           one == Append(e, MainThread)
           empty == EmptyList
           all == list_append(empty, MainThread)
<1>1. /\ e \in Seq(Thread) /\ Distinct(e) /\ Members(e) = {} /\ Len(e) = 0
      /\ MainThread \in Thread /\ MainThread \notin Members(e)
  BY ListsAssumption DEF Distinct, Members
<1>2. empty \in Links
  BY ListsAssumption DEF EmptyList, Links, Elem
<1>3. empty.next[HeadElem] = TailElem /\ empty.prev[TailElem] = HeadElem
  BY DEF EmptyList, Elem
<1>4. Station(e, 0) = HeadElem /\ Station(e, 1) = TailElem
  BY <1>1 DEF Station
<1> HIDE DEF e, empty
<1>5. NextSpells(empty, e) /\ PrevSpells(empty, e)
  BY <1>1, <1>3, <1>4 DEF NextSpells, PrevSpells
<1>6. all \in Links /\ NextSpells(all, one) /\ PrevSpells(all, one)
  BY <1>1, <1>2, <1>5, AppendSpells
<1>7. /\ one \in Seq(Thread) /\ Distinct(one)
      /\ Members(one) = Members(e) \cup {MainThread}
  BY <1>1, AppendStations
<1> HIDE DEF one, all
<1>8. /\ cur = MainThread /\ intr_on = FALSE /\ created = {MainThread}
      /\ links \in [QueueName -> Links]
      /\ links["all"] = all /\ links["ready"] = empty
      /\ unvisited = [t \in Thread |-> {}] /\ panic = FALSE
  BY <1>2, <1>6 DEF Init, QueueName, all, empty
<1>9. call \in [Thread -> Call] /\ \A t \in Thread : call[t].pc = "body"
  BY <1>1, ListsAssumption DEF Init, Call, Points, QueueName
<1>10. Content("ready") = e /\ Content("all") = one
  BY <1>1, <1>5, <1>6, <1>7, <1>8, ForwardIs DEF Content
<1>11. TypeOK
  BY <1>1, <1>8, <1>9 DEF TypeOK
<1>12. Me.pc = "body"
  BY <1>1, <1>8, <1>9 DEF Me
<1>13. LockInv /\ SearchInv
  BY <1>8, <1>9, <1>12 DEF LockInv, SearchInv, Linking
<1>14. ElemInv
  <2>1. \A t \in Thread, q \in QueueName : ~Unlinked(t, q)
    BY <1>9 DEF Unlinked
  <2> QED BY <1>1, <1>7, <1>8, <1>9, <1>10, <2>1 DEF ElemInv, QueueName
<1>15. \A q \in QueueName : LinksInv(q)
  <2>1. \A q : ~Inserts(q, "link_next") /\ ~Inserts(q, "link_prev")
    BY <1>12 DEF Inserts
  <2> QED BY <1>1, <1>5, <1>6, <1>7, <1>8, <1>10, <2>1 DEF LinksInv, QueueName
<1>16. e = << >> /\ one = <<MainThread>>
  BY DEF e, one
<1> QED BY <1>10, <1>11, <1>13, <1>14, <1>15, <1>16 DEF IInv

LEMMA NextInv ==
    ASSUME IInv, [Next]_vars
    PROVE  IInv'
<1>1. CASE EnableInterrupts
  BY <1>1, EnableInterruptsInv
<1>2. CASE \E t \in Thread : ThreadCreate(t)
  BY <1>2, ThreadCreateInv
<1>3. CASE ThreadStep
  <2>1. CASE HasElemFirst
    BY <2>1, HasElemFirstInv
  <2>2. CASE HasElemEmpty
    BY <2>2, HasElemEmptyInv
  <2>3. CASE HasElemSearch
    BY <2>3, HasElemSearchInv
  <2>4. CASE Disable
    BY <2>4, DisableInv
  <2>5. CASE Insert
    BY <2>5, LinkElemInv, LinkNextInv, LinkPrevInv DEF Insert
  <2>6. CASE Restore
    BY <2>6, RestoreInv
  <2> QED BY <1>3, <2>1, <2>2, <2>3, <2>4, <2>5, <2>6 DEF ThreadStep
<1>4. CASE Schedule
  BY <1>4, ScheduleInv
<1>5. CASE UNCHANGED vars
  <2>1. /\ UNCHANGED <<cur, intr_on, created, links, call, unvisited, panic>>
    BY <1>5 DEF vars
  <2>2. Me' = Me /\ \A q : Content(q)' = Content(q)
    BY <2>1 DEF Me, Content
  <2>3. \A t, q : Unlinked(t, q)' <=> Unlinked(t, q)
    BY <2>1 DEF Unlinked
  <2>4. TypeOK' /\ LockInv'
    BY <2>1, <2>2 DEF IInv, TypeOK, LockInv
  <2>5. ElemInv' /\ SearchInv'
    BY <2>1, <2>2, <2>3 DEF IInv, ElemInv, SearchInv
  <2>6. \A q \in QueueName : LinksInv(q)'
    BY <2>1, <2>2 DEF IInv, LinksInv, Inserts
  <2> QED BY <2>4, <2>5, <2>6 DEF IInv
<1> QED BY <1>1, <1>2, <1>3, <1>4, <1>5 DEF Next

(* The queues hold sequences of different threads, changed by at most one   *)
(* insertion, of the running thread; no search meets a thread that has yet  *)
(* to be linked, and no ASSERT of list.c or schedule fails (list.c:42-53,   *)
(* 163-181, thread.c:144-161).                                              *)
THEOREM LinksSpellQueues == Spec => []IInv
<1>1. Init => IInv
  BY InitInv
<1>2. IInv /\ [Next]_vars => IInv'
  BY NextInv
<1> QED BY <1>1, <1>2, PTL DEF Spec

(* Whenever an interrupt may be accepted both lists read backwards what they*)
(* read forwards, for any number of threads that create others.             *)
THEOREM QueuesIntact == Spec => []ListsIntact
<1>1. IInv => ListsIntact
  <2> SUFFICES ASSUME IInv, intr_on, NEW q \in QueueName
               PROVE  Backward(links[q]) = Reversed(Forward(links[q]))
    BY DEF ListsIntact
  <2>1. ~Inserts(q, "link_prev")
    BY DEF IInv, LockInv, Linking, Inserts
  <2> QED BY <2>1, PrevWhole, BackwardIs DEF Content
<1> QED BY <1>1, LinksSpellQueues, PTL

(* A search stands on a member of its list or at the end, whatever schedule *)
(* has unlinked and appended while its thread was preempted (list.c:163-181).*)
THEOREM SearchesStay == Spec => []SearchStaysInList
<1>1. IInv => SearchStaysInList
  BY SearchStands DEF SearchStaysInList, Content, MyLinks
<1> QED BY <1>1, LinksSpellQueues, PTL

-----------------------------------------------------------------------------
(* The abstract queues *)

\* What an assignment of list_insert_before does to the queues
LEMMA InsertEnqueues ==
    ASSUME IInv, Insert
    PROVE  /\ cur' = cur /\ Me.q \in QueueName
           /\ \A q \in QueueName :
                 q # Me.q => Forward(links'[q]) = Content(q)
           /\ \/ Forward(links'[Me.q]) = Content(Me.q)
              \/ /\ Forward(links'[Me.q]) = Append(Content(Me.q), Me.elem)
                 /\ Me.elem \in Thread /\ Me.elem # cur
                 /\ Me.elem \notin Members(Content(Me.q))
<1>1. Me.q \in QueueName /\ Me.elem \in Thread /\ cur \in Thread
  BY CallTypes DEF IInv
<1>2. cur' = cur /\ \A q \in QueueName : q # Me.q => links'[q] = links[q]
  BY <1>1 DEF Insert, Assign, IInv, TypeOK
<1>3. \A q \in QueueName : q # Me.q => Forward(links'[q]) = Content(q)
  BY <1>2 DEF Content
<1>4. CASE Assign("link_next", LinkNext, "link_prev")
  <2>1. Me.pc = "link_next"
    BY <1>4 DEF Assign, At
  <2>2. Me.elem \notin Members(Content(Me.q))
    BY <2>1, InsertLinks
  <2>3. Me.elem # cur
    BY <1>1, <2>1 DEF IInv, ElemInv, Me
  <2> QED BY <1>1, <1>2, <1>3, <1>4, <2>2, <2>3, LinkNextInv
<1>5. CASE Assign("link_elem", LinkElem, "link_next")
  BY <1>1, <1>2, <1>3, <1>5, LinkElemInv
<1>6. CASE Assign("link_prev", LinkPrev, "restore")
  BY <1>1, <1>2, <1>3, <1>6, LinkPrevInv
<1> QED BY <1>4, <1>5, <1>6 DEF Insert

(* Seen forwards, each step of a thread that creates another appends that   *)
(* thread to one queue, or none, and schedule puts the running thread last  *)
(* and takes the first, wherever it interrupts.                             *)
THEOREM QueueRefinement == Spec => ImplementsQueues
<1> DEFINE content == [q \in QueueName |-> Forward(links[q])]
<1>1. Init => Q!QInit
  <2> SUFFICES ASSUME Init PROVE Q!QInit
    OBVIOUS
  <2>1. Content("ready") = <<>> /\ Content("all") = <<MainThread>>
    BY InitInv
  <2>2. cur = MainThread
    BY DEF Init
  <2>3. content = [q \in Q!QueueName |->
                      IF q = "all" THEN <<MainThread>> ELSE <<>>]
    BY <2>1 DEF Q!QueueName, QueueName, Content
  <2> QED BY <2>2, <2>3 DEF Q!QInit
<1>2. IInv /\ [Next]_vars => [Q!QNext]_<<cur, content>>
  <2> SUFFICES ASSUME IInv, [Next]_vars
               PROVE  Q!QNext \/ UNCHANGED <<cur, content>>
    OBVIOUS
  <2>1. CASE UNCHANGED <<cur, links>>
    BY <2>1
  <2>2. /\ \A q \in QueueName : content[q] = Content(q)
        /\ \A q \in QueueName : content'[q] = Forward(links'[q])
        /\ content' = [q \in QueueName |-> content'[q]]
        /\ content = [q \in QueueName |-> content[q]]
    BY DEF Content
  <2>3. \A q \in QueueName : \A t : Q!In(q, t) <=> t \in Members(Content(q))
    BY <2>2 DEF Q!In, Members, Content
  <2>4. CASE Insert
    <3>1. /\ cur' = cur /\ Me.q \in QueueName
          /\ \A q \in QueueName : q # Me.q => content'[q] = content[q]
          /\ \/ content'[Me.q] = content[Me.q]
             \/ /\ content'[Me.q] = Append(content[Me.q], Me.elem)
                /\ Me.elem \in Thread /\ Me.elem # cur /\ ~Q!In(Me.q, Me.elem)
      BY <2>2, <2>3, <2>4, InsertEnqueues
    <3>2. CASE content'[Me.q] = content[Me.q]
      <4> HIDE DEF content
      <4> QED BY <2>2, <3>1, <3>2
    <3>3. CASE /\ content'[Me.q] = Append(content[Me.q], Me.elem)
               /\ Me.elem \in Thread /\ Me.elem # cur /\ ~Q!In(Me.q, Me.elem)
      <4>1. content' = [content EXCEPT ![Me.q] = Append(@, Me.elem)]
        <5> DEFINE more == Append(content[Me.q], Me.elem)
        <5> HIDE DEF content, more
        <5>1. content' = [content EXCEPT ![Me.q] = more]
          BY <2>2, <3>1, <3>3 DEF more
        <5> QED BY <5>1 DEF more
      <4> QED BY <3>1, <3>3, <4>1 DEF Q!QNext, Q!Enqueue, Q!QueueName, QueueName
    <3> QED BY <3>1, <3>2, <3>3
  <2>5. CASE Schedule
    <3> DEFINE waiting == Append(content["ready"], cur)
               rest == Tail(waiting)
    <3>1. /\ content["ready"] = Content("ready") /\ cur \notin Members(Content("ready"))
          /\ waiting \in Seq(Thread) /\ waiting # <<>>
          /\ cur' = waiting[1]
          /\ content'["all"] = content["all"]
          /\ content'["ready"] = rest
      BY <2>2, <2>5, ScheduleQueue DEF Content, QueueName
    <3>2. ~Q!In("ready", cur) /\ cur' = Head(waiting)
      BY <2>3, <3>1 DEF QueueName
    <3>3. content' = [content EXCEPT !["ready"] = rest]
      <4> HIDE DEF content, rest
      <4> QED BY <2>2, <3>1 DEF QueueName
    <3> QED BY <3>2, <3>3 DEF Q!QNext, Q!Rotate
  <2> QED
    BY <2>1, <2>4, <2>5 DEF Next, ThreadStep, EnableInterrupts, ThreadCreate,
       HasElemFirst, HasElemEmpty, HasElemSearch, Disable, Restore, vars
<1> QED BY <1>1, <1>2, LinksSpellQueues, PTL DEF Spec, ImplementsQueues, Q!QSpec

-----------------------------------------------------------------------------
(* What a search has still to see *)

\* Another thread's step, or one that moves neither queue nor search
LEMMA AheadStays ==
    ASSUME NEW t \in Thread, Ahead(t), cur' = cur, call'[t].q = call[t].q,
           call'[t].pelem = call[t].pelem, unvisited'[t] = unvisited[t],
           Content(call[t].q) = Forward(links'[call[t].q])
    PROVE  Ahead(t)'
<1> DEFINE q == call[t].q
           pelem == call[t].pelem
           seen == unvisited[t]
<1>1. /\ pelem = TailElem => seen = {}
      /\ \A e \in seen : /\ e \in Members(Content(q)) \/ (q = "ready" /\ e = cur)
                         /\ q = "ready" => e # t
      /\ \A i, j, k \in 0..Len(Content(q)) :
            /\ Ring(q, i) = Origin(t, q) /\ Ring(q, j) \in seen /\ Ring(q, k) = pelem
            => ~Cyclic(i, j, k)
  BY DEF Ahead
<1>2. /\ q' = q /\ pelem' = pelem /\ seen' = seen
      /\ Content(q)' = Content(q)
  BY DEF Content
<1>3. /\ Origin(t, q)' = Origin(t, q)
      /\ \A i : Ring(q, i)' = Ring(q, i)
  BY <1>2 DEF Origin, Ring
<1> QED BY <1>1, <1>2, <1>3 DEF Ahead

\* A queue grows behind every search in it.
LEMMA AheadAppends ==
    ASSUME IInv, ActiveInv, NEW t \in Thread, call[t].pc \in {"empty", "search"},
           Ahead(t), cur' = cur, call'[t] = call[t], unvisited'[t] = unvisited[t],
           NEW x \in Thread, x # cur, x \notin Members(Content(call[t].q)),
           Forward(links'[call[t].q]) = Append(Content(call[t].q), x)
    PROVE  Ahead(t)'
<1> DEFINE q == call[t].q
           s == Content(q)
           n == Len(s)
           more == Append(s, x)
           pelem == call[t].pelem
           seen == unvisited[t]
<1>1. /\ pelem = TailElem => seen = {}
      /\ \A e \in seen : /\ e \in Members(s) \/ (q = "ready" /\ e = cur)
                         /\ q = "ready" => e # t
      /\ \A i, j, k \in 0..n :
            /\ Ring(q, i) = Origin(t, q) /\ Ring(q, j) \in seen /\ Ring(q, k) = pelem
            => ~Cyclic(i, j, k)
  BY DEF Ahead
<1>2. q \in QueueName /\ s \in Seq(Thread) /\ Distinct(s)
  BY DEF IInv, TypeOK, Call, LinksInv
<1>3. x \notin seen /\ x # pelem /\ x # Origin(t, q)
  <2>1. x \notin seen
    BY <1>1
  <2>2. x # pelem
    BY ListsAssumption DEF IInv, SearchInv
  <2>3. x # Origin(t, q)
    BY ListsAssumption DEF Origin, ActiveInv
  <2> QED BY <2>1, <2>2, <2>3
<1>4. /\ q' = q /\ pelem' = pelem /\ seen' = seen /\ Content(q)' = more
      /\ Origin(t, q)' = Origin(t, q)
  BY DEF Content, Origin
<1>5. /\ Len(more) = n + 1 /\ Members(more) = Members(s) \cup {x} /\ n \in Nat
      /\ \A i \in 1..n : more[i] = s[i]
      /\ more[n + 1] = x
  <2>1. Len(more) = n + 1 /\ Members(more) = Members(s) \cup {x}
    BY <1>2, AppendStations
  <2> QED BY <1>2, <2>1
<1> HIDE DEF more, s
<1>6. /\ \A i \in 0..n : Ring(q, i)' = Ring(q, i)
      /\ \A i : i = n + 1 => Ring(q, i)' = x
  <2>1. \A i : Ring(q, i)' = IF i = 0 THEN IF q = "ready" THEN cur ELSE NULL
                                      ELSE more[i]
    BY <1>4 DEF Ring
  <2>2. \A i : Ring(q, i) = IF i = 0 THEN IF q = "ready" THEN cur ELSE NULL
                                     ELSE s[i]
    BY DEF Ring, s
  <2> QED BY <1>5, <2>1, <2>2
<1>7. ASSUME NEW i \in 0..n + 1, NEW j \in 0..n + 1, NEW k \in 0..n + 1,
             Ring(q, i)' = Origin(t, q), Ring(q, j)' \in seen, Ring(q, k)' = pelem
      PROVE  ~Cyclic(i, j, k)
  <2>1. i # n + 1 /\ j # n + 1 /\ k # n + 1
    BY <1>3, <1>6, <1>7
  <2>2. i \in 0..n /\ j \in 0..n /\ k \in 0..n
    BY <1>5, <2>1
  <2> QED BY <1>1, <1>6, <1>7, <2>2
<1>8. \A e \in seen : e \in Members(more) \/ (q = "ready" /\ e = cur)
  BY <1>1, <1>5
<1> QED BY <1>1, <1>4, <1>5, <1>7, <1>8 DEF Ahead

\* schedule turns the ring, and what lies ahead of a search stays ahead of it.
LEMMA AheadTurns ==
    ASSUME IInv, Schedule, NEW t \in Thread, Ahead(t)
    PROVE  Ahead(t)'
<1> DEFINE s == Content("ready")
           n == Len(s)
           waiting == Append(s, cur)
           rest == Tail(waiting)
           pelem == call[t].pelem
           seen == unvisited[t]
           turn(i) == IF i = n THEN 0 ELSE i + 1
<1>1. /\ s \in Seq(Thread) /\ cur \in Thread /\ cur' = waiting[1]
      /\ Content("ready")' = rest
      /\ links'["all"] = links["all"]
      /\ Members(rest) = (Members(s) \cup {cur}) \ {cur'}
      /\ UNCHANGED <<call, unvisited>>
  BY ScheduleQueue
<1>2. call[t].q \in QueueName
  BY DEF IInv, TypeOK, Call
<1>3. CASE call[t].q = "all"
  <2>1. Content("all")' = Content("all")
    BY <1>1 DEF Content
  <2>2. \A i : Ring("all", i)' = Ring("all", i)
    BY <2>1 DEF Ring
  <2> QED BY <1>1, <1>3, <2>1, <2>2 DEF Ahead, Origin
<1>4. CASE call[t].q = "ready"
  <2>1. /\ pelem = TailElem => seen = {}
        /\ \A e \in seen : (e \in Members(s) \/ e = cur) /\ e # t
        /\ \A i, j, k \in 0..n :
              /\ Ring("ready", i) = t /\ Ring("ready", j) \in seen
              /\ Ring("ready", k) = pelem
              => ~Cyclic(i, j, k)
    BY <1>4 DEF Ahead, Origin
  <2>2. /\ n \in Nat /\ Len(rest) = n
        /\ waiting[n + 1] = cur /\ \A i \in 1..n : waiting[i] = s[i]
        /\ \A i \in 1..n : rest[i] = waiting[i + 1]
    BY <1>1
  <2> HIDE DEF s, waiting, rest
  <2>3. \A i \in 0..n : turn(i) \in 0..n /\ Ring("ready", i)' = Ring("ready", turn(i))
    <3> SUFFICES ASSUME NEW i \in 0..n
                 PROVE  /\ turn(i) \in 0..n
                        /\ Ring("ready", i)' = Ring("ready", turn(i))
      OBVIOUS
    <3>1. turn(i) \in 0..n
      BY <2>2
    <3>2. Ring("ready", i)' = waiting[i + 1]
      BY <1>1, <2>2 DEF Ring
    <3>3. Ring("ready", turn(i)) = waiting[i + 1]
      BY <2>2 DEF Ring, s
    <3> QED BY <3>1, <3>2, <3>3
  <2>4. \A i, j, k \in 0..n :
           Cyclic(i, j, k) => Cyclic(turn(i), turn(j), turn(k))
    BY <2>2 DEF Cyclic
  <2> HIDE DEF turn
  <2>5. \A i, j, k \in 0..n :
           /\ Ring("ready", i)' = t /\ Ring("ready", j)' \in seen
           /\ Ring("ready", k)' = pelem
           => ~Cyclic(i, j, k)
    BY SMTT(30), <2>1, <2>3, <2>4
  <2>6. \A e \in seen : e \in Members(rest) \/ e = cur'
    BY <1>1, <2>1
  <2> QED BY <1>1, <1>4, <2>1, <2>2, <2>5, <2>6 DEF Ahead, Origin
<1> QED BY <1>2, <1>3, <1>4 DEF QueueName

\* The other threads' searches, when cur takes a step in its own code
LEMMA OthersVisit ==
    ASSUME IInv, VisitInv, cur' = cur, links' = links,
           \A t \in Thread : t # cur => /\ call'[t] = call[t]
                                        /\ unvisited'[t] = unvisited[t],
           call'[cur].pc \in {"empty", "search"} => Ahead(cur)'
    PROVE  VisitInv'
<1>1. \A q : Content(q)' = Content(q)
  BY DEF Content
<1>2. ActiveInv'
  BY <1>1 DEF VisitInv, ActiveInv
<1>3. ASSUME NEW t \in Thread, t # cur, call'[t].pc \in {"empty", "search"}
      PROVE  Ahead(t)'
  <2>1. Ahead(t)
    BY <1>3 DEF VisitInv
  <2>2. Forward(links'[call[t].q]) = Content(call[t].q)
    BY DEF Content
  <2> QED BY <1>3, <2>1, <2>2, AheadStays
<1> QED BY <1>2, <1>3 DEF VisitInv

\* What a step that leaves n in call[cur] keeps of the others
LEMMA OthersStand ==
    ASSUME TypeOK, NEW n, call' = [call EXCEPT ![cur] = n],
           NEW set, unvisited' = [unvisited EXCEPT ![cur] = set]
    PROVE  /\ call'[cur] = n
           /\ \A t \in Thread : t # cur => /\ call'[t] = call[t]
                                           /\ unvisited'[t] = unvisited[t]
BY DEF TypeOK

\* Where the running thread's own search stands: at some place k of the list,
\* with what it has not seen at k or behind.
LEMMA AheadOfOwn ==
    ASSUME IInv, VisitInv, Me.pc \in {"empty", "search"}
    PROVE  LET s == Content(Me.q)
           IN  \E k \in 1..Len(s) + 1 :
                  /\ Me.pelem = Station(s, k)
                  /\ unvisited[cur] \subseteq {s[j] : j \in k..Len(s)}
<1> DEFINE q == Me.q
           s == Content(q)
           n == Len(s)
           seen == unvisited[cur]
<1>1. /\ cur \in Thread /\ q \in QueueName /\ Me.pelem \in Members(s) \cup {TailElem}
  BY CallTypes, SearchStands DEF IInv
<1>2. s \in Seq(Thread) /\ Distinct(s) /\ n \in Nat /\ DOMAIN s = 1..n
  BY <1>1 DEF IInv, LinksInv
<1>3. /\ Me.pelem = TailElem => seen = {}
      /\ \A e \in seen : /\ e \in Members(s) \/ (q = "ready" /\ e = cur)
                         /\ q = "ready" => e # cur
      /\ \A i, j, k \in 0..n :
            /\ Ring(q, i) = Origin(cur, q) /\ Ring(q, j) \in seen
            /\ Ring(q, k) = Me.pelem
            => ~Cyclic(i, j, k)
  BY <1>1 DEF VisitInv, Ahead, Me
<1>4. Ring(q, 0) = Origin(cur, q) /\ \A i \in 1..n : Ring(q, i) = s[i]
  BY DEF Ring, Origin
<1> HIDE DEF s
<1>5. CASE Me.pelem = TailElem
  <2>1. Station(s, n + 1) = TailElem /\ n + 1 \in 1..n + 1
    BY <1>2, StationIs
  <2> QED BY <1>3, <1>5, <2>1 DEF s
<1>6. CASE Me.pelem \in Members(s)
  <2>1. PICK k \in 1..n : Me.pelem = s[k]
    BY <1>2, <1>6 DEF Members
  <2>2. ASSUME NEW e \in seen
        PROVE  e \in {s[j] : j \in k..n}
    <3>1. PICK j \in 1..n : e = s[j]
      BY <1>2, <1>3 DEF Members
    <3>2. ~Cyclic(0, j, k)
      BY <1>2, <1>3, <1>4, <2>1, <3>1
    <3>3. j \in k..n
      BY <1>2, <3>2 DEF Cyclic
    <3> QED BY <3>1, <3>3
  <2>3. k \in 1..n + 1 /\ Station(s, k) = s[k]
    BY <1>2, StationIs
  <2> QED BY <2>1, <2>2, <2>3 DEF s
<1> QED BY <1>1, <1>5, <1>6

LEMMA OwnAhead ==
    ASSUME IInv, NEW q \in QueueName, cur' = cur,
           Forward(links'[q]) = Content(q), call'[cur].q = q,
           NEW k \in 1..Len(Content(q)) + 1,
           call'[cur].pelem = Station(Content(q), k),
           unvisited'[cur] \subseteq {Content(q)[j] : j \in k..Len(Content(q))}
    PROVE  Ahead(cur)'
<1> DEFINE s == Content(q)
           n == Len(s)
           seen == unvisited'[cur]
           pelem == call'[cur].pelem
<1>1. s \in Seq(Thread) /\ Distinct(s) /\ n \in Nat /\ DOMAIN s = 1..n
  BY DEF IInv, LinksInv
<1>2. /\ cur' = cur /\ call'[cur].q = q /\ Content(q)' = s
      /\ \A i : Ring(q, i)' = Ring(q, i)
      /\ Origin(cur, q)' = Origin(cur, q)
  BY DEF Content, Ring, Origin
<1>3. q = "ready" => cur \notin Members(s)
  BY DEF IInv, ElemInv
<1>4. /\ Ring(q, 0) = Origin(cur, q) /\ Ring(q, 0) \notin Members(s)
      /\ Ring(q, 0) # TailElem
      /\ \A i \in 1..n : Ring(q, i) = s[i] /\ s[i] \in Members(s)
      /\ Members(s) \subseteq Thread
  <2>1. Members(s) \subseteq Thread /\ \A i \in 1..n : s[i] \in Members(s)
    BY <1>1 DEF Members
  <2> QED BY <1>3, <2>1, ListsAssumption DEF Ring, Origin, IInv, TypeOK
<1> HIDE DEF s
<1>5. /\ k \in 1..n => pelem = s[k] /\ pelem \in Members(s)
      /\ k = n + 1 => pelem = TailElem /\ seen = {}
      /\ k \in 1..n \/ k = n + 1
  <2>1. k \in 1..n => Station(s, k) = s[k]
    BY <1>1, StationIs
  <2>2. k = n + 1 => Station(s, k) = TailElem /\ k..n = {}
    BY <1>1, StationIs
  <2>3. k \in 1..n \/ k = n + 1
    BY <1>1 DEF s
  <2> QED BY <1>4, <2>1, <2>2, <2>3 DEF s
<1>6. pelem = TailElem => seen = {}
  BY <1>4, <1>5, ListsAssumption
<1>7. \A e \in seen : e \in Members(s) /\ (q = "ready" => e # cur)
  <2>1. \A j \in k..n : j \in 1..n
    BY <1>1 DEF s
  <2> QED BY <1>3, <1>4, <2>1 DEF s
<1>8. ASSUME NEW i \in 0..n, NEW j \in 0..n, NEW m \in 0..n,
             Ring(q, i) = Origin(cur, q), Ring(q, j) \in seen, Ring(q, m) = pelem
      PROVE  ~Cyclic(i, j, m)
  <2>1. i = 0
    BY <1>1, <1>4, <1>8
  <2>2. k \in 1..n /\ j \in 1..n /\ m \in 1..n
    BY <1>1, <1>4, <1>5, <1>7, <1>8
  <2>3. m = k
    BY <1>1, <1>4, <1>5, <1>8, <2>2 DEF Distinct
  <2>4. PICK h \in k..n : s[j] = s[h]
    BY <1>4, <1>8, <2>2 DEF s
  <2>5. h = j
    BY <1>1, <2>2, <2>4 DEF Distinct
  <2> QED BY <1>1, <2>1, <2>2, <2>3, <2>4, <2>5 DEF Cyclic
<1> HIDE DEF seen, pelem
<1>9. /\ seen = unvisited'[cur] /\ pelem = call'[cur].pelem
  BY DEF seen, pelem
<1> QED BY <1>2, <1>6, <1>7, <1>8, <1>9 DEF Ahead

\* The steps of a search
LEMMA VisitFirst ==
    ASSUME IInv, VisitInv, HasElemFirst
    PROVE  VisitInv'
<1> DEFINE q == Me.q
           s == Content(q)
           first == MyLinks.next[HeadElem]
           n == [Me EXCEPT !.pelem = first, !.pc = "empty"]
<1>1. /\ cur \in Thread /\ call \in [Thread -> Call] /\ Me \in Call
      /\ q \in QueueName /\ unvisited \in [Thread -> SUBSET Thread]
  BY CallTypes DEF IInv, TypeOK
<1>2. /\ UNCHANGED <<cur, links>>
      /\ call' = [call EXCEPT ![cur] = n]
      /\ unvisited' = [unvisited EXCEPT ![cur] = Members(s)]
  BY <1>1 DEF HasElemFirst, Me, Call, Content, MyLinks
<1>3. /\ call'[cur] = n /\ n.q = q /\ n.pelem = first
      /\ unvisited'[cur] = Members(s)
  BY <1>1, <1>2 DEF Call
<1>4. s \in Seq(Thread) /\ NextSpells(MyLinks, s)
  BY <1>1 DEF IInv, LinksInv, MyLinks
<1>5. first = Station(s, 1) /\ 1 \in 1..Len(s) + 1
      /\ Members(s) = {s[j] : j \in 1..Len(s)}
  <2> HIDE DEF s
  <2>1. Len(s) \in Nat /\ 0 \in 0..Len(s) /\ 0 + 1 = 1 /\ DOMAIN s = 1..Len(s)
    BY <1>4
  <2>2. MyLinks.next[Station(s, 0)] = Station(s, 0 + 1)
    BY <1>4, <2>1 DEF NextSpells
  <2> QED BY <1>4, <2>1, <2>2, StationIs DEF Members
<1>6. Forward(links'[q]) = s
  BY <1>2 DEF Content
<1> HIDE DEF n, first, q
<1>7. Ahead(cur)'
  BY <1>1, <1>2, <1>3, <1>5, <1>6, OwnAhead
<1>8. \A t \in Thread : t # cur => /\ call'[t] = call[t]
                                   /\ unvisited'[t] = unvisited[t]
  BY <1>2, OthersStand DEF IInv
<1> QED BY <1>2, <1>7, <1>8, OthersVisit

LEMMA VisitEmpty ==
    ASSUME IInv, VisitInv, HasElemEmpty
    PROVE  VisitInv'
<1> DEFINE q == Me.q
           s == Content(q)
           n == [Me EXCEPT !.pc = IF list_empty(MyLinks) THEN "disable"
                                                         ELSE "search"]
<1>1. /\ cur \in Thread /\ call \in [Thread -> Call] /\ Me \in Call
      /\ q \in QueueName /\ unvisited \in [Thread -> SUBSET Thread]
  BY CallTypes DEF IInv, TypeOK
<1>2. /\ UNCHANGED <<cur, links>> /\ Me.pc = "empty"
      /\ call' = [call EXCEPT ![cur] = n]
      /\ unvisited' = [unvisited EXCEPT ![cur] = unvisited[cur]]
  BY <1>1 DEF HasElemEmpty, Goto, At, Me, Call
<1>3. /\ call'[cur] = n /\ n.q = q /\ n.pelem = Me.pelem
      /\ unvisited'[cur] = unvisited[cur]
  BY <1>1, <1>2 DEF Call
<1>4. PICK k \in 1..Len(s) + 1 :
         /\ Me.pelem = Station(s, k)
         /\ unvisited[cur] \subseteq {s[j] : j \in k..Len(s)}
  BY <1>2, AheadOfOwn
<1>5. Forward(links'[q]) = s
  BY <1>2 DEF Content
<1> HIDE DEF n, q
<1>6. Ahead(cur)'
  BY <1>1, <1>2, <1>3, <1>4, <1>5, OwnAhead
<1>7. \A t \in Thread : t # cur => /\ call'[t] = call[t]
                                   /\ unvisited'[t] = unvisited[t]
  BY <1>2, OthersStand DEF IInv
<1> QED BY <1>2, <1>6, <1>7, OthersVisit

LEMMA VisitSearch ==
    ASSUME IInv, VisitInv, HasElemSearch
    PROVE  VisitInv'
<1> DEFINE q == Me.q
           s == Content(q)
<1>1. /\ cur \in Thread /\ call \in [Thread -> Call] /\ Me \in Call
      /\ q \in QueueName /\ unvisited \in [Thread -> SUBSET Thread]
  BY CallTypes DEF IInv, TypeOK
<1>2. UNCHANGED <<cur, links>> /\ Me.pc = "search"
  BY DEF HasElemSearch, At
<1>3. CASE Me.pelem = TailElem
  <2> DEFINE n == [Me EXCEPT !.pc = "disable"]
  <2>1. /\ call' = [call EXCEPT ![cur] = n]
        /\ unvisited' = [unvisited EXCEPT ![cur] = unvisited[cur]]
    BY <1>1, <1>3 DEF HasElemSearch, Goto, Me, Call
  <2>2. n.pc = "disable"
    BY <1>1 DEF Call
  <2> HIDE DEF n
  <2>3. /\ call'[cur] = n
        /\ \A t \in Thread : t # cur => /\ call'[t] = call[t]
                                        /\ unvisited'[t] = unvisited[t]
    BY <2>1, OthersStand DEF IInv
  <2> QED BY <1>2, <2>2, <2>3, OthersVisit
<1>4. CASE Me.pelem # TailElem
  <2> DEFINE next == MyLinks.next[Me.pelem]
             n == [Me EXCEPT !.pelem = next]
             left == unvisited[cur] \ {Me.pelem}
  <2>1. /\ call' = [call EXCEPT ![cur] = n]
        /\ unvisited' = [unvisited EXCEPT ![cur] = left]
    BY <1>1, <1>4 DEF HasElemSearch, Me, Call
  <2>2. /\ call'[cur] = n /\ n.q = q /\ n.pelem = next
        /\ unvisited'[cur] = left
    BY <1>1, <2>1 DEF Call
  <2>3. PICK k \in 1..Len(s) + 1 :
           /\ Me.pelem = Station(s, k)
           /\ unvisited[cur] \subseteq {s[j] : j \in k..Len(s)}
    BY <1>2, AheadOfOwn
  <2>4. s \in Seq(Thread) /\ NextSpells(MyLinks, s)
    BY <1>1 DEF IInv, LinksInv, MyLinks
  <2>5. Forward(links'[q]) = s
    BY <1>2 DEF Content
  <2> HIDE DEF s
  <2>6. k \in 1..Len(s) /\ k \in 0..Len(s) /\ k + 1 \in 1..Len(s) + 1
        /\ Me.pelem = s[k]
    <3>1. Len(s) \in Nat /\ Station(s, Len(s) + 1) = TailElem
      BY <2>4, StationIs
    <3>2. k # Len(s) + 1
      BY <1>4, <2>3, <3>1
    <3>3. k \in 1..Len(s)
      BY <3>1, <3>2
    <3> QED BY <2>3, <2>4, <3>1, <3>3, StationIs
  <2>7. next = Station(s, k + 1)
    BY <2>3, <2>4, <2>6 DEF NextSpells
  <2>8. left \subseteq {s[j] : j \in k + 1..Len(s)}
    <3> SUFFICES ASSUME NEW e \in left PROVE e \in {s[j] : j \in k + 1..Len(s)}
      OBVIOUS
    <3>1. PICK j \in k..Len(s) : e = s[j]
      BY <2>3
    <3>2. j # k
      BY <2>6, <3>1
    <3>3. Len(s) \in Nat
      BY <2>4
    <3>4. j \in k + 1..Len(s)
      BY <2>6, <3>2, <3>3
    <3> QED BY <3>1, <3>4
  <2> HIDE DEF n, q, left, next
  <2>9. Ahead(cur)'
    <3>1. k + 1 \in 1..Len(Content(q)) + 1
      BY <2>6 DEF s
    <3>2. unvisited'[cur] \subseteq {Content(q)[j] : j \in k + 1..Len(Content(q))}
      BY <2>2, <2>8 DEF s
    <3> QED BY <1>1, <1>2, <2>2, <2>5, <2>7, <3>1, <3>2, OwnAhead DEF s
  <2>10. \A t \in Thread : t # cur => /\ call'[t] = call[t]
                                      /\ unvisited'[t] = unvisited[t]
    BY <2>1, OthersStand DEF IInv
  <2> QED BY <1>2, <2>9, <2>10, OthersVisit
<1> QED BY <1>3, <1>4

\* Steps outside the searches
LEMMA VisitOwn ==
    ASSUME IInv, VisitInv, cur' = cur, links' = links, unvisited' = unvisited,
           \A t \in Thread : t # cur => call'[t] = call[t],
           call'[cur].pc \notin {"empty", "search"}
    PROVE  VisitInv'
BY OthersVisit

LEMMA VisitInsert ==
    ASSUME IInv, VisitInv, Insert
    PROVE  VisitInv'
<1>1. /\ cur' = cur /\ Me.q \in QueueName
      /\ \A q \in QueueName : q # Me.q => Forward(links'[q]) = Content(q)
      /\ \/ Forward(links'[Me.q]) = Content(Me.q)
         \/ /\ Forward(links'[Me.q]) = Append(Content(Me.q), Me.elem)
            /\ Me.elem \in Thread /\ Me.elem # cur
            /\ Me.elem \notin Members(Content(Me.q))
  BY InsertEnqueues
<1>2. /\ unvisited' = unvisited
      /\ \A t \in Thread : t # cur => call'[t] = call[t]
      /\ call'[cur].pc \notin {"empty", "search"}
  <2>1. PICK next \in {"link_next", "link_prev", "restore"} :
           call' = [call EXCEPT ![cur].pc = next]
    BY DEF Insert, Assign, Goto
  <2>2. cur \in Thread /\ call \in [Thread -> Call] /\ call[cur] \in Call
    BY DEF IInv, TypeOK
  <2>3. unvisited' = unvisited
    BY DEF Insert, Assign
  <2>4. call'[cur].pc = next
    BY <2>1, <2>2 DEF Call
  <2> QED BY <2>1, <2>2, <2>3, <2>4
<1>3. Members(Content("ready")) \subseteq Members(Forward(links'["ready"]))
  <2>1. Content("ready") \in Seq(Thread) /\ Distinct(Content("ready"))
    BY DEF IInv, LinksInv, QueueName
  <2>2. ASSUME Forward(links'["ready"]) = Append(Content("ready"), Me.elem),
               Me.elem \in Thread, Me.elem \notin Members(Content("ready"))
        PROVE  Members(Content("ready")) \subseteq Members(Forward(links'["ready"]))
    BY <2>1, <2>2, AppendStations
  <2> QED BY <1>1, <2>2 DEF QueueName
<1>4. ActiveInv'
  BY <1>1, <1>2, <1>3 DEF VisitInv, ActiveInv, Content
<1>5. ASSUME NEW t \in Thread, call'[t].pc \in {"empty", "search"}
      PROVE  Ahead(t)'
  <2>1. t # cur /\ call'[t] = call[t] /\ Ahead(t) /\ ActiveInv
    BY <1>2, <1>5 DEF VisitInv
  <2>2. call[t].q \in QueueName
    BY DEF IInv, TypeOK, Call
  <2>3. CASE Forward(links'[call[t].q]) = Content(call[t].q)
    BY <1>1, <1>2, <2>1, <2>3, AheadStays
  <2>4. CASE /\ call[t].q = Me.q
             /\ Forward(links'[Me.q]) = Append(Content(Me.q), Me.elem)
             /\ Me.elem \in Thread /\ Me.elem # cur
             /\ Me.elem \notin Members(Content(Me.q))
    <3> DEFINE x == Me.elem
    <3>1. /\ x \in Thread /\ x # cur /\ x \notin Members(Content(call[t].q))
          /\ Forward(links'[call[t].q]) = Append(Content(call[t].q), x)
      BY <2>4
    <3> HIDE DEF x
    <3> QED BY <1>1, <1>2, <1>5, <2>1, <3>1, AheadAppends
  <2> QED BY <1>1, <2>2, <2>3, <2>4
<1> QED BY <1>4, <1>5 DEF VisitInv

LEMMA VisitSchedule ==
    ASSUME IInv, VisitInv, Schedule
    PROVE  VisitInv'
<1>1. /\ Members(Content("ready")') = (Members(Content("ready")) \cup {cur}) \ {cur'}
      /\ call' = call
  <2> DEFINE s == Content("ready")
             rest == Tail(Append(s, cur))
  <2>1. /\ Content("ready")' = rest /\ call' = call
        /\ Members(rest) = (Members(s) \cup {cur}) \ {cur'}
    BY ScheduleQueue
  <2> QED BY <2>1
<1>2. ActiveInv'
  BY <1>1 DEF VisitInv, ActiveInv
<1>3. ASSUME NEW t \in Thread, call'[t].pc \in {"empty", "search"}
      PROVE  Ahead(t)'
  BY <1>1, <1>3, AheadTurns DEF VisitInv
<1> QED BY <1>2, <1>3 DEF VisitInv

LEMMA VisitInit ==
    ASSUME Init
    PROVE  VisitInv
BY DEF Init, VisitInv, ActiveInv

LEMMA VisitNext ==
    ASSUME IInv, VisitInv, [Next]_vars
    PROVE  VisitInv'
<1>1. /\ cur \in Thread /\ call \in [Thread -> Call]
  BY CallTypes DEF IInv
<1>2. CASE EnableInterrupts
  BY <1>1, <1>2, VisitOwn DEF EnableInterrupts, At, Me
<1>3. CASE \E t \in Thread : ThreadCreate(t)
  <2>1. PICK t \in Thread : ThreadCreate(t)
    BY <1>3
  <2>2. /\ UNCHANGED <<cur, links, unvisited>>
        /\ \A u \in Thread : u # cur => call'[u] = call[u]
        /\ call'[cur].pc = "first"
    BY <1>1, <2>1 DEF ThreadCreate, Call
  <2> QED BY <2>2, VisitOwn
<1>4. CASE Disable
  <2>1. /\ UNCHANGED <<cur, links, unvisited>>
        /\ \A u \in Thread : u # cur => call'[u] = call[u]
        /\ call'[cur].pc = "link_elem"
    BY <1>1, <1>4 DEF Disable, Call
  <2> QED BY <2>1, VisitOwn
<1>5. CASE Restore
  <2>1. /\ UNCHANGED <<cur, links, unvisited>>
        /\ \A u \in Thread : u # cur => call'[u] = call[u]
        /\ call'[cur].pc \in {"first", "body"}
    BY <1>1, <1>5 DEF Restore, Call
  <2> QED BY <2>1, VisitOwn
<1>6. CASE UNCHANGED vars
  <2>1. UNCHANGED <<cur, links, call, unvisited>>
    BY <1>6 DEF vars
  <2>2. call'[cur].pc \in {"empty", "search"} => Ahead(cur)'
    <3>1. call[cur].pc \in {"empty", "search"} => Ahead(cur)
      BY <1>1 DEF VisitInv
    <3>2. Ahead(cur) => Ahead(cur)'
      <4>1. \A q : Content(q)' = Content(q)
        BY <2>1 DEF Content
      <4> QED BY <2>1, <4>1 DEF Ahead, Ring, Origin
    <3> QED BY <2>1, <3>1, <3>2
  <2> QED BY <2>1, <2>2, OthersVisit
<1> QED
  BY <1>2, <1>3, <1>4, <1>5, <1>6, VisitFirst, VisitEmpty, VisitSearch,
     VisitInsert, VisitSchedule DEF Next, ThreadStep

LEMMA SearchSeesAll ==
    ASSUME IInv, VisitInv, [Next]_vars, cur' = cur,
           Me.pc \in {"empty", "search"}, Me'.pc = "disable"
    PROVE  unvisited'[cur] = {}
<1> DEFINE s == Content(Me.q)
           n == Len(s)
<1>1. /\ cur \in Thread /\ call \in [Thread -> Call] /\ Me.q \in QueueName
      /\ Me \in Call
  BY CallTypes DEF IInv
<1>2. PICK k \in 1..n + 1 :
         /\ Me.pelem = Station(s, k)
         /\ unvisited[cur] \subseteq {s[j] : j \in k..n}
  BY AheadOfOwn
<1>3. s \in Seq(Thread) /\ n \in Nat
  BY <1>1 DEF IInv, LinksInv
<1>4. PrevSpells(MyLinks, s)
  BY <1>1, PrevWhole DEF Inserts, MyLinks
<1> HIDE DEF s
<1>5. CASE HasElemEmpty
  <2>1. list_empty(MyLinks) /\ unvisited' = unvisited
    BY <1>1, <1>5 DEF HasElemEmpty, Goto, Me, Call
  <2>2. n = 0
    <3>1. n \in 0..n /\ (n # 0 => n \in 1..n + 1)
      BY <1>3
    <3>2. MyLinks.prev[Station(s, n + 1)] = Station(s, n)
      BY <1>4, <3>1 DEF PrevSpells
    <3>3. Station(s, n) = HeadElem
      BY <1>3, <2>1, <3>2, StationIs DEF list_empty
    <3> QED BY <1>3, <3>1, <3>3, StationIs
  <2>3. k..n = {}
    BY <2>2
  <2> QED BY <1>2, <2>1, <2>3
<1>6. CASE HasElemSearch
  <2>1. Me.pelem = TailElem /\ unvisited' = unvisited
    BY <1>1, <1>6 DEF HasElemSearch, At, Me, Call
  <2>2. k \notin 0..n
    BY <1>2, <1>3, <2>1, StationIs
  <2>3. k..n = {}
    BY <1>3, <2>2
  <2> QED BY <1>2, <2>1, <2>3
<1>7. CASE Schedule
  BY <1>7 DEF Schedule, Me
<1>8. CASE UNCHANGED vars
  BY <1>8 DEF vars, Me
<1> QED
  BY <1>5, <1>6, <1>7, <1>8 DEF Next, ThreadStep, EnableInterrupts,
     ThreadCreate, HasElemFirst, Disable, Insert, Assign, Restore, At

(* A search that answers "not there" has looked at every thread that was in *)
(* the list when it began, wherever schedule has turned the ready queue     *)
(* under it (list.c:163-181, thread.c:106-137).                             *)
THEOREM SearchesSeeAll == Spec => SearchVisitsAll
<1>1. Init => IInv /\ VisitInv
  BY InitInv, VisitInit
<1>2. (IInv /\ VisitInv) /\ [Next]_vars => (IInv /\ VisitInv)'
  BY NextInv, VisitNext
<1>3. (IInv /\ VisitInv) /\ [Next]_vars =>
         [cur' = cur /\ Me.pc \in {"empty", "search"} /\ Me'.pc = "disable"
             => unvisited'[cur] = {}]_vars
  BY SearchSeesAll
<1> QED BY <1>1, <1>2, <1>3, PTL DEF Spec, SearchVisitsAll
=============================================================================
