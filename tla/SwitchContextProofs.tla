-------------------------- MODULE SwitchContextProofs --------------------------
(***************************************************************************)
(* Every thread gets its registers and its stack back, for any number of   *)
(* threads, any page size and any gap that leaves the handler its room.    *)
(***************************************************************************)
EXTENDS SwitchContextInv, SequenceTheorems, TLAPS

-----------------------------------------------------------------------------
(* Words *)

LEMMA AddrParts ==
    ASSUME NEW t, NEW i
    PROVE  Addr(t, i)[2] = t /\ Addr(t, i)[3] = i
BY DEF Addr

LEMMA FlagsParts == ASSUME NEW on PROVE Flags(on)[2] = on
BY DEF Flags

LEMMA Kinds ==
    ASSUME NEW t, NEW l
    PROVE  /\ Func(t) # Junk
           /\ Code(l) \notin Bodies
           /\ Code(l)[1] # "body"
           /\ \A b \in Bodies : b[1] = "body"
<1>1. Func(t)[1] = "func" /\ Junk[1] = "junk" /\ Code(l)[1] = "code"
  BY DEF Func, Junk, Code
<1>2. \A b \in Bodies : b[1] = "body"
  BY DEF Bodies
<1> QED BY <1>1, <1>2

LEMMA Labels ==
    ASSUME NEW k \in STRING, NEW l \in STRING, Code(k) = Code(l)
    PROVE  k = l
<1>1. Code(k)[2] = k /\ Code(l)[2] = l
  BY DEF Code
<1> QED BY <1>1

\* A thread has entered its function when it has received it.
LEMMA StartedIs ==
    ASSUME NEW t
    PROVE  Arguments(t) # <<Junk, Junk>>
<1>1. Arguments(t)[1] = Func(t) /\ <<Junk, Junk>>[1] = Junk
  BY DEF Arguments
<1> QED BY <1>1, Kinds

-----------------------------------------------------------------------------
(* Instructions *)

\* All words of n are those of m, except between the PCB of t and word s of its
\* page.
Keeps(m, n, t, s) ==
    /\ \A u \in Thread : u # t => n.mem[u] = m.mem[u]
    /\ \A i \in Rows : i < PcbWords \/ i >= s => n.mem[t][i] = m.mem[t][i]

LEMMA KeepsTwice ==
    ASSUME NEW m, NEW n, NEW o, NEW t \in Thread,
           NEW s \in Int, NEW q \in Int, NEW top \in Int,
           Keeps(m, n, t, s), Keeps(n, o, t, q), s <= top, q <= top
    PROVE  Keeps(m, o, t, top)
BY SwitchAssumption DEF Keeps, Rows

LEMMA SetEspIs ==
    ASSUME NEW m, IsMachine(m), NEW t \in Thread, NEW sp \in 0 .. PageWords
    PROVE  LET n == SetEsp(m, t, sp)
           IN  /\ IsMachine(n)
               /\ n.cpu.r = m.cpu.r /\ n.cpu.page = t /\ n.cpu.sp = sp
               /\ n.cpu.intr_on = m.cpu.intr_on /\ n.cpu.pc = m.cpu.pc
               /\ Keeps(m, n, t, sp)
<1> DEFINE n == SetEsp(m, t, sp)
           row == [i \in DOMAIN m.mem[t] |->
                     IF i >= PcbWords /\ i < sp THEN Junk ELSE m.mem[t][i]]
<1>1. n.cpu = [m.cpu EXCEPT !.page = t, !.sp = sp]
  BY DEF SetEsp, IsMachine
<1>2. n.mem = [m.mem EXCEPT ![t] = row]
  BY DEF SetEsp, IsMachine
<1>3. DOMAIN n = {"cpu", "mem"}
  BY DEF SetEsp, IsMachine
<1>4. /\ DOMAIN m.mem[t] = Rows /\ DOMAIN m.mem = Thread
      /\ \A u \in Thread : DOMAIN m.mem[u] = Rows
  BY DEF IsMachine
<1> HIDE DEF n
<1>5. /\ DOMAIN n.cpu = {"r", "page", "sp", "intr_on", "pc"}
      /\ n.cpu.r = m.cpu.r /\ n.cpu.page = t /\ n.cpu.sp = sp
      /\ n.cpu.intr_on = m.cpu.intr_on /\ n.cpu.pc = m.cpu.pc
  BY <1>1 DEF IsMachine
<1>6. /\ DOMAIN n.mem = Thread
      /\ \A u \in Thread : n.mem[u] = IF u = t THEN row ELSE m.mem[u]
  BY <1>2, <1>4
<1>7. DOMAIN row = Rows
  BY <1>4
<1>8. \A i \in Rows : i < PcbWords \/ i >= sp => row[i] = m.mem[t][i]
  BY <1>4, SwitchAssumption DEF Rows
<1> HIDE DEF row
<1>9. IsMachine(n)
  BY <1>3, <1>4, <1>5, <1>6, <1>7 DEF IsMachine
<1>10. Keeps(m, n, t, sp)
  BY <1>6, <1>8 DEF Keeps
<1> QED BY <1>5, <1>9, <1>10 DEF n

LEMMA DropIs ==
    ASSUME NEW m, IsMachine(m), NEW k \in Int, m.cpu.sp + k \in 0 .. PageWords
    PROVE  LET n == Drop(m, k)
           IN  /\ IsMachine(n)
               /\ n.cpu.r = m.cpu.r /\ n.cpu.page = m.cpu.page
               /\ n.cpu.sp = m.cpu.sp + k
               /\ n.cpu.intr_on = m.cpu.intr_on /\ n.cpu.pc = m.cpu.pc
               /\ Keeps(m, n, m.cpu.page, m.cpu.sp + k)
<1>1. m.cpu.page \in Thread
  BY DEF IsMachine
<1> QED BY <1>1, SetEspIs DEF Drop

\* What a row of pushes leaves
Pushed(m, n, words) ==
    /\ IsMachine(n)
    /\ n.cpu.r = m.cpu.r /\ n.cpu.page = m.cpu.page
    /\ n.cpu.sp = m.cpu.sp - Len(words)
    /\ n.cpu.intr_on = m.cpu.intr_on /\ n.cpu.pc = m.cpu.pc
    /\ Keeps(m, n, m.cpu.page, m.cpu.sp)
    /\ \A j \in 1 .. Len(words) :
          n.mem[m.cpu.page][m.cpu.sp - j] = words[j]

LEMMA PushAllIs ==
    ASSUME NEW m, IsMachine(m), NEW words, Len(words) \in Nat,
           m.cpu.sp - Len(words) >= PcbWords
    PROVE  Pushed(m, PushAll(m, words), words)
<1> DEFINE k == Len(words)
<1>0. k = Len(words) /\ k \in Nat /\ m.cpu.sp - k >= PcbWords
  OBVIOUS
<1> DEFINE d == Drop(m, -k)
           n == PushAll(m, words)
           t == m.cpu.page
           top == m.cpu.sp
           row == [i \in DOMAIN d.mem[t] |->
                     IF i < top /\ i >= top - k THEN words[top - i]
                     ELSE d.mem[t][i]]
<1>1. t \in Thread /\ top \in 0 .. PageWords /\ top - k \in 0 .. PageWords
      /\ -k \in Int /\ top + (-k) = top - k
  BY SMTT(30), <1>0, SwitchAssumption DEF IsMachine
<1>2. /\ IsMachine(d)
      /\ d.cpu.r = m.cpu.r /\ d.cpu.page = t /\ d.cpu.sp = top - k
      /\ d.cpu.intr_on = m.cpu.intr_on /\ d.cpu.pc = m.cpu.pc
      /\ Keeps(m, d, t, top - k)
  BY <1>1, DropIs
<1>3. n = [d EXCEPT !.mem[t] = row]
  BY DEF PushAll
<1> HIDE DEF d, n, k
<1>4. /\ DOMAIN d.mem[t] = Rows /\ DOMAIN d.mem = Thread
      /\ DOMAIN d = {"cpu", "mem"}
      /\ \A u \in Thread : DOMAIN d.mem[u] = Rows
  BY <1>1, <1>2 DEF IsMachine
<1>5. n.cpu = d.cpu /\ n.mem = [d.mem EXCEPT ![t] = row] /\ DOMAIN n = DOMAIN d
  BY <1>3, <1>4
<1>6. /\ DOMAIN n.mem = Thread
      /\ \A u \in Thread : n.mem[u] = IF u = t THEN row ELSE d.mem[u]
  BY <1>4, <1>5
<1>7. DOMAIN row = Rows
  BY <1>4
<1>8. \A i \in Rows : i < top - k \/ i >= top => row[i] = d.mem[t][i]
  BY <1>0, <1>1, <1>4 DEF Rows
<1>9. \A j \in 1 .. k : row[top - j] = words[j]
  <2> SUFFICES ASSUME NEW j \in 1 .. k PROVE row[top - j] = words[j]
    OBVIOUS
  <2>1. top - j \in Rows /\ top - j < top /\ top - j >= top - k
        /\ top - (top - j) = j
    BY SMTT(30), <1>0, <1>1, SwitchAssumption DEF Rows
  <2> QED BY <1>4, <2>1
<1> HIDE DEF row
<1>10. IsMachine(n)
  BY <1>2, <1>4, <1>5, <1>6, <1>7 DEF IsMachine
<1>11. Keeps(m, n, t, top)
  <2>1. \A i \in Rows : i < PcbWords \/ i >= top =>
           (i < top - k \/ i >= top) /\ (i < PcbWords \/ i >= top - k)
    <3>1. /\ top \in Int /\ k \in Nat /\ top - k >= PcbWords /\ PcbWords \in Int
          /\ Rows \subseteq Int
      BY <1>0, <1>1, SwitchAssumption DEF Rows
    <3> HIDE DEF top
    <3> QED BY <3>1
  <2> QED BY <1>1, <1>2, <1>6, <1>8, <2>1 DEF Keeps
<1> QED BY <1>1, <1>2, <1>5, <1>6, <1>9, <1>10, <1>11 DEF n, k, Pushed

LEMMA PushIs ==
    ASSUME NEW m, IsMachine(m), NEW word, m.cpu.sp - 1 >= PcbWords
    PROVE  LET n == Push(m, word)
           IN  /\ IsMachine(n)
               /\ n.cpu.r = m.cpu.r /\ n.cpu.page = m.cpu.page
               /\ n.cpu.sp = m.cpu.sp - 1
               /\ n.cpu.intr_on = m.cpu.intr_on /\ n.cpu.pc = m.cpu.pc
               /\ Keeps(m, n, m.cpu.page, m.cpu.sp)
               /\ n.mem[m.cpu.page][m.cpu.sp - 1] = word
<1> DEFINE words == <<word>>
           n == Push(m, word)
<1>1. /\ Len(words) = 1 /\ words[1] = word
      /\ Len(words) \in Nat /\ m.cpu.sp - Len(words) >= PcbWords
  OBVIOUS
<1>2. n = PushAll(m, words)
  BY DEF Push
<1> HIDE DEF n, words
<1>3. Pushed(m, n, words)
  BY <1>1, <1>2, PushAllIs
<1>4. 1 \in 1 .. Len(words)
  BY <1>1
<1> QED BY <1>1, <1>3, <1>4 DEF n, Pushed

\* What a row of pops leaves
Popped(m, n, regs) ==
    /\ IsMachine(n)
    /\ n.cpu.page = m.cpu.page /\ n.cpu.sp = m.cpu.sp + Len(regs)
    /\ n.cpu.intr_on = m.cpu.intr_on /\ n.cpu.pc = m.cpu.pc
    /\ Keeps(m, n, m.cpu.page, m.cpu.sp + Len(regs))
    /\ \A i \in 1 .. Len(regs) :
          regs[i] \in Register =>
             n.cpu.r[regs[i]] = m.mem[m.cpu.page][m.cpu.sp + (i - 1)]
    /\ \A x \in Register :
          (\A i \in 1 .. Len(regs) : regs[i] # x) => n.cpu.r[x] = m.cpu.r[x]

LEMMA PopAllIs ==
    ASSUME NEW m, IsMachine(m), NEW regs,
           Len(regs) \in Nat, DOMAIN regs = 1 .. Len(regs),
           m.cpu.sp + Len(regs) <= PageWords,
           \A i, j \in DOMAIN regs : regs[i] = regs[j] => i = j
    PROVE  Popped(m, PopAll(m, regs), regs)
<1> DEFINE k == Len(regs)
<1>0. k = Len(regs) /\ k \in Nat /\ DOMAIN regs = 1 .. k /\ m.cpu.sp + k <= PageWords
  OBVIOUS
<1> DEFINE d == Drop(m, k)
           n == PopAll(m, regs)
           place(x) == CHOOSE i \in DOMAIN regs : regs[i] = x
           r == [x \in Register |->
                   IF \E i \in DOMAIN regs : regs[i] = x
                   THEN Peek(m, place(x) - 1) ELSE d.cpu.r[x]]
<1>1. m.cpu.sp + k \in 0 .. PageWords /\ k \in Int
  BY SwitchAssumption DEF IsMachine
<1>2. /\ IsMachine(d)
      /\ d.cpu.r = m.cpu.r /\ d.cpu.page = m.cpu.page
      /\ d.cpu.sp = m.cpu.sp + k
      /\ d.cpu.intr_on = m.cpu.intr_on /\ d.cpu.pc = m.cpu.pc
      /\ Keeps(m, d, m.cpu.page, m.cpu.sp + k)
  BY <1>1, DropIs
<1>3. n = [d EXCEPT !.cpu.r = r]
  BY DEF PopAll
<1> HIDE DEF d, n, k
<1>4. /\ DOMAIN d = {"cpu", "mem"}
      /\ DOMAIN d.cpu = {"r", "page", "sp", "intr_on", "pc"}
  BY <1>2 DEF IsMachine
<1>5. /\ DOMAIN n = {"cpu", "mem"} /\ n.mem = d.mem
      /\ DOMAIN n.cpu = {"r", "page", "sp", "intr_on", "pc"}
      /\ n.cpu.r = r /\ n.cpu.page = d.cpu.page /\ n.cpu.sp = d.cpu.sp
      /\ n.cpu.intr_on = d.cpu.intr_on /\ n.cpu.pc = d.cpu.pc
  BY <1>3, <1>4
<1>6. r = [x \in Register |-> r[x]]
  OBVIOUS
<1>7. ASSUME NEW i \in 1 .. k, regs[i] \in Register
      PROVE  r[regs[i]] = m.mem[m.cpu.page][m.cpu.sp + (i - 1)]
  <2>1. place(regs[i]) \in 1 .. k /\ regs[place(regs[i])] = regs[i]
    BY <1>0
  <2>2. place(regs[i]) = i
    BY <1>0, <2>1
  <2> HIDE DEF place
  <2> QED BY <1>0, <1>7, <2>2 DEF Peek
<1>8. ASSUME NEW x \in Register, \A i \in 1 .. k : regs[i] # x
      PROVE  r[x] = m.cpu.r[x]
  BY <1>0, <1>2, <1>8
<1> HIDE DEF r
<1>9. IsMachine(n)
  BY <1>2, <1>5, <1>6 DEF IsMachine
<1>10. Keeps(m, n, m.cpu.page, m.cpu.sp + k)
  BY <1>2, <1>5 DEF Keeps
<1> QED BY <1>2, <1>5, <1>7, <1>8, <1>9, <1>10 DEF n, k, Popped

LEMMA Pop1Is ==
    ASSUME NEW m, IsMachine(m), NEW x \in Register, m.cpu.sp + 1 <= PageWords
    PROVE  LET n == PopAll(m, <<x>>)
           IN  /\ IsMachine(n)
               /\ n.cpu.page = m.cpu.page /\ n.cpu.sp = m.cpu.sp + 1
               /\ n.cpu.intr_on = m.cpu.intr_on /\ n.cpu.pc = m.cpu.pc
               /\ Keeps(m, n, m.cpu.page, m.cpu.sp + 1)
               /\ n.cpu.r[x] = m.mem[m.cpu.page][m.cpu.sp]
               /\ \A y \in Register \ {x} : n.cpu.r[y] = m.cpu.r[y]
<1> DEFINE regs == <<x>>
           n == PopAll(m, regs)
<1>1. /\ Len(regs) = 1 /\ DOMAIN regs = 1 .. 1 /\ regs[1] = x
      /\ \A i \in 1 .. 1 : regs[i] = x
      /\ m.cpu.sp \in Int /\ m.cpu.sp + (1 - 1) = m.cpu.sp
      /\ \A i, j \in 1 .. 1 : i = j
  BY SwitchAssumption DEF IsMachine
<1> HIDE DEF regs
<1>2. /\ Len(regs) \in Nat /\ DOMAIN regs = 1 .. Len(regs)
      /\ m.cpu.sp + Len(regs) <= PageWords
      /\ \A i, j \in DOMAIN regs : regs[i] = regs[j] => i = j
  BY <1>1
<1>3. Popped(m, n, regs)
  BY <1>2, PopAllIs
<1> HIDE DEF n
<1>4. n.cpu.r[regs[1]] = m.mem[m.cpu.page][m.cpu.sp + (1 - 1)]
  BY <1>1, <1>3 DEF Popped
<1> QED BY <1>1, <1>3, <1>4 DEF n, Popped, regs

LEMMA Pop3Is ==
    ASSUME NEW m, IsMachine(m), NEW x \in Register, NEW y \in Register,
           NEW z \in Register, x # y, x # z, y # z, m.cpu.sp + 3 <= PageWords
    PROVE  LET n == PopAll(m, <<x, y, z>>)
           IN  /\ IsMachine(n)
               /\ n.cpu.page = m.cpu.page /\ n.cpu.sp = m.cpu.sp + 3
               /\ n.cpu.intr_on = m.cpu.intr_on /\ n.cpu.pc = m.cpu.pc
               /\ Keeps(m, n, m.cpu.page, m.cpu.sp + 3)
               /\ n.cpu.r[x] = m.mem[m.cpu.page][m.cpu.sp]
               /\ n.cpu.r[y] = m.mem[m.cpu.page][m.cpu.sp + 1]
               /\ n.cpu.r[z] = m.mem[m.cpu.page][m.cpu.sp + 2]
               /\ \A u \in Register \ {x, y, z} : n.cpu.r[u] = m.cpu.r[u]
<1> DEFINE regs == <<x, y, z>>
           n == PopAll(m, regs)
<1>1. /\ Len(regs) = 3 /\ DOMAIN regs = 1 .. 3
      /\ regs[1] = x /\ regs[2] = y /\ regs[3] = z
      /\ m.cpu.sp \in Int /\ m.cpu.sp + (1 - 1) = m.cpu.sp
      /\ m.cpu.sp + (2 - 1) = m.cpu.sp + 1 /\ m.cpu.sp + (3 - 1) = m.cpu.sp + 2
      /\ \A i \in 1 .. 3 : i = 1 \/ i = 2 \/ i = 3
  BY SwitchAssumption DEF IsMachine
<1> HIDE DEF regs
<1>2. /\ Len(regs) \in Nat /\ DOMAIN regs = 1 .. Len(regs)
      /\ m.cpu.sp + Len(regs) <= PageWords
      /\ \A i, j \in DOMAIN regs : regs[i] = regs[j] => i = j
  BY <1>1
<1>3. Popped(m, n, regs)
  BY <1>2, PopAllIs
<1> HIDE DEF n
<1>4. /\ n.cpu.r[regs[1]] = m.mem[m.cpu.page][m.cpu.sp + (1 - 1)]
      /\ n.cpu.r[regs[2]] = m.mem[m.cpu.page][m.cpu.sp + (2 - 1)]
      /\ n.cpu.r[regs[3]] = m.mem[m.cpu.page][m.cpu.sp + (3 - 1)]
  BY <1>1, <1>3 DEF Popped
<1>5. \A u \in Register \ {x, y, z} : n.cpu.r[u] = m.cpu.r[u]
  BY <1>1, <1>3 DEF Popped
<1> QED BY <1>1, <1>3, <1>4, <1>5 DEF n, Popped, regs

\* Four pops into different registers
Popped4(m, n, x, y, z, w) ==
    /\ IsMachine(n)
    /\ n.cpu.page = m.cpu.page /\ n.cpu.sp = m.cpu.sp + 4
    /\ n.cpu.intr_on = m.cpu.intr_on /\ n.cpu.pc = m.cpu.pc
    /\ Keeps(m, n, m.cpu.page, m.cpu.sp + 4)
    /\ n.cpu.r[x] = m.mem[m.cpu.page][m.cpu.sp]
    /\ n.cpu.r[y] = m.mem[m.cpu.page][m.cpu.sp + 1]
    /\ n.cpu.r[z] = m.mem[m.cpu.page][m.cpu.sp + 2]
    /\ n.cpu.r[w] = m.mem[m.cpu.page][m.cpu.sp + 3]
    /\ \A u \in Register \ {x, y, z, w} : n.cpu.r[u] = m.cpu.r[u]

LEMMA Pop4Is ==
    ASSUME NEW m, IsMachine(m), NEW x \in Register, NEW y \in Register,
           NEW z \in Register, NEW w \in Register,
           x # y, x # z, y # z, x # w, y # w, z # w, m.cpu.sp + 4 <= PageWords
    PROVE  Popped4(m, PopAll(m, <<x, y, z, w>>), x, y, z, w)
<1> DEFINE regs == <<x, y, z, w>>
           n == PopAll(m, regs)
<1>1. /\ Len(regs) = 4 /\ DOMAIN regs = 1 .. 4
      /\ regs[1] = x /\ regs[2] = y /\ regs[3] = z /\ regs[4] = w
      /\ m.cpu.sp \in Int /\ m.cpu.sp + (1 - 1) = m.cpu.sp
      /\ m.cpu.sp + (2 - 1) = m.cpu.sp + 1 /\ m.cpu.sp + (3 - 1) = m.cpu.sp + 2
      /\ m.cpu.sp + (4 - 1) = m.cpu.sp + 3
      /\ \A i \in 1 .. 4 : i = 1 \/ i = 2 \/ i = 3 \/ i = 4
  BY SwitchAssumption DEF IsMachine
<1> HIDE DEF regs
<1>2. /\ Len(regs) \in Nat /\ DOMAIN regs = 1 .. Len(regs)
      /\ m.cpu.sp + Len(regs) <= PageWords
      /\ \A i, j \in DOMAIN regs : regs[i] = regs[j] => i = j
  BY <1>1
<1>3. Popped(m, n, regs)
  BY <1>2, PopAllIs
<1> HIDE DEF n
<1>4. /\ n.cpu.r[regs[1]] = m.mem[m.cpu.page][m.cpu.sp + (1 - 1)]
      /\ n.cpu.r[regs[2]] = m.mem[m.cpu.page][m.cpu.sp + (2 - 1)]
      /\ n.cpu.r[regs[3]] = m.mem[m.cpu.page][m.cpu.sp + (3 - 1)]
      /\ n.cpu.r[regs[4]] = m.mem[m.cpu.page][m.cpu.sp + (4 - 1)]
  BY <1>1, <1>3 DEF Popped
<1>5. \A u \in Register \ {x, y, z, w} : n.cpu.r[u] = m.cpu.r[u]
  BY <1>1, <1>3 DEF Popped
<1> QED BY <1>1, <1>3, <1>4, <1>5 DEF n, Popped, regs, Popped4

LEMMA JumpIs ==
    ASSUME NEW m, IsMachine(m), NEW code
    PROVE  LET n == Jump(m, code)
           IN  /\ IsMachine(n) /\ n.mem = m.mem
               /\ n.cpu.r = m.cpu.r /\ n.cpu.page = m.cpu.page
               /\ n.cpu.sp = m.cpu.sp
               /\ n.cpu.intr_on = m.cpu.intr_on /\ n.cpu.pc = code
<1> DEFINE n == Jump(m, code)
<1>1. /\ DOMAIN m = {"cpu", "mem"}
      /\ DOMAIN m.cpu = {"r", "page", "sp", "intr_on", "pc"}
  BY DEF IsMachine
<1>2. /\ DOMAIN n = {"cpu", "mem"} /\ n.mem = m.mem
      /\ DOMAIN n.cpu = {"r", "page", "sp", "intr_on", "pc"}
      /\ n.cpu.r = m.cpu.r /\ n.cpu.page = m.cpu.page /\ n.cpu.sp = m.cpu.sp
      /\ n.cpu.intr_on = m.cpu.intr_on /\ n.cpu.pc = code
  BY <1>1 DEF Jump
<1> HIDE DEF n
<1>3. IsMachine(n)
  BY <1>2 DEF IsMachine
<1> QED BY <1>2, <1>3 DEF n

LEMMA CallIs ==
    ASSUME NEW m, IsMachine(m), NEW label, NEW back,
           m.cpu.sp - 1 >= PcbWords
    PROVE  LET n == Call(m, label, back)
           IN  /\ IsMachine(n)
               /\ n.cpu.r = m.cpu.r /\ n.cpu.page = m.cpu.page
               /\ n.cpu.sp = m.cpu.sp - 1
               /\ n.cpu.intr_on = m.cpu.intr_on /\ n.cpu.pc = Code(label)
               /\ Keeps(m, n, m.cpu.page, m.cpu.sp)
               /\ n.mem[m.cpu.page][m.cpu.sp - 1] = Code(back)
<1> DEFINE p == Push(m, Code(back))
           n == Call(m, label, back)
<1>1. /\ IsMachine(p)
      /\ p.cpu.r = m.cpu.r /\ p.cpu.page = m.cpu.page
      /\ p.cpu.sp = m.cpu.sp - 1
      /\ p.cpu.intr_on = m.cpu.intr_on
      /\ Keeps(m, p, m.cpu.page, m.cpu.sp)
      /\ p.mem[m.cpu.page][m.cpu.sp - 1] = Code(back)
  BY PushIs
<1>2. n = Jump(p, Code(label))
  BY DEF Call
<1> HIDE DEF p, n
<1>3. /\ IsMachine(n) /\ n.mem = p.mem
      /\ n.cpu.r = p.cpu.r /\ n.cpu.page = p.cpu.page /\ n.cpu.sp = p.cpu.sp
      /\ n.cpu.intr_on = p.cpu.intr_on /\ n.cpu.pc = Code(label)
  BY <1>1, <1>2, JumpIs
<1> QED BY <1>1, <1>3 DEF n, Keeps

LEMMA RetIs ==
    ASSUME NEW m, IsMachine(m), m.cpu.sp + 1 <= PageWords
    PROVE  LET n == Ret(m)
           IN  /\ IsMachine(n)
               /\ n.cpu.r = m.cpu.r /\ n.cpu.page = m.cpu.page
               /\ n.cpu.sp = m.cpu.sp + 1
               /\ n.cpu.intr_on = m.cpu.intr_on
               /\ n.cpu.pc = m.mem[m.cpu.page][m.cpu.sp]
               /\ Keeps(m, n, m.cpu.page, m.cpu.sp + 1)
<1>1. m.cpu.sp + 1 \in 0 .. PageWords /\ m.cpu.sp + 0 = m.cpu.sp
  BY SwitchAssumption DEF IsMachine
<1> DEFINE d == Drop(m, 1)
           n == Ret(m)
           word == m.mem[m.cpu.page][m.cpu.sp]
<1>2. /\ IsMachine(d)
      /\ d.cpu.r = m.cpu.r /\ d.cpu.page = m.cpu.page
      /\ d.cpu.sp = m.cpu.sp + 1
      /\ d.cpu.intr_on = m.cpu.intr_on
      /\ Keeps(m, d, m.cpu.page, m.cpu.sp + 1)
  BY <1>1, DropIs
<1>3. n = Jump(d, word)
  BY <1>1 DEF Ret, Peek
<1> HIDE DEF d, n, word
<1>4. /\ IsMachine(n) /\ n.mem = d.mem
      /\ n.cpu.r = d.cpu.r /\ n.cpu.page = d.cpu.page /\ n.cpu.sp = d.cpu.sp
      /\ n.cpu.intr_on = d.cpu.intr_on
      /\ n.cpu.pc = word
  BY <1>2, <1>3, JumpIs
<1> QED BY <1>2, <1>4 DEF n, word, Keeps

LEMMA ClobberIs ==
    ASSUME NEW m, IsMachine(m)
    PROVE  LET n == Clobber(m)
           IN  /\ IsMachine(n) /\ n.mem = m.mem
               /\ n.cpu.page = m.cpu.page /\ n.cpu.sp = m.cpu.sp
               /\ n.cpu.intr_on = m.cpu.intr_on /\ n.cpu.pc = m.cpu.pc
               /\ \A x \in {"ebp", "ebx", "esi", "edi"} :
                     n.cpu.r[x] = m.cpu.r[x]
<1> DEFINE n == Clobber(m)
           r == [m.cpu.r EXCEPT !["eax"] = Junk, !["ecx"] = Junk, !["edx"] = Junk]
<1>1. /\ DOMAIN m = {"cpu", "mem"}
      /\ DOMAIN m.cpu = {"r", "page", "sp", "intr_on", "pc"}
      /\ m.cpu.r = [x \in Register |-> m.cpu.r[x]]
  BY DEF IsMachine
<1>2. /\ DOMAIN n = {"cpu", "mem"} /\ n.mem = m.mem
      /\ DOMAIN n.cpu = {"r", "page", "sp", "intr_on", "pc"}
      /\ n.cpu.r = r /\ n.cpu.page = m.cpu.page /\ n.cpu.sp = m.cpu.sp
      /\ n.cpu.intr_on = m.cpu.intr_on /\ n.cpu.pc = m.cpu.pc
  BY <1>1 DEF Clobber
<1>3. r = [x \in Register |-> r[x]]
  BY <1>1
<1>4. \A x \in {"ebp", "ebx", "esi", "edi"} : r[x] = m.cpu.r[x]
  BY <1>1 DEF Register, General, Segments
<1> HIDE DEF n, r
<1>5. IsMachine(n)
  BY <1>2, <1>3 DEF IsMachine
<1> QED BY <1>2, <1>4, <1>5 DEF n

\* push ebp; mov ebp, esp
LEMMA EnterIs ==
    ASSUME NEW m, IsMachine(m), m.cpu.sp - 1 >= PcbWords
    PROVE  LET n == Enter(m)
           IN  /\ IsMachine(n)
               /\ n.cpu.page = m.cpu.page /\ n.cpu.sp = m.cpu.sp - 1
               /\ n.cpu.intr_on = m.cpu.intr_on /\ n.cpu.pc = m.cpu.pc
               /\ Keeps(m, n, m.cpu.page, m.cpu.sp)
               /\ n.mem[m.cpu.page][m.cpu.sp - 1] = m.cpu.r["ebp"]
               /\ n.cpu.r["ebp"] = Addr(m.cpu.page, m.cpu.sp - 1)
               /\ \A x \in Register : x # "ebp" => n.cpu.r[x] = m.cpu.r[x]
<1> DEFINE p == Push(m, m.cpu.r["ebp"])
           n == Enter(m)
           r == [p.cpu.r EXCEPT !["ebp"] = Addr(p.cpu.page, p.cpu.sp)]
<1>1. /\ IsMachine(p)
      /\ p.cpu.r = m.cpu.r /\ p.cpu.page = m.cpu.page
      /\ p.cpu.sp = m.cpu.sp - 1
      /\ p.cpu.intr_on = m.cpu.intr_on /\ p.cpu.pc = m.cpu.pc
      /\ Keeps(m, p, m.cpu.page, m.cpu.sp)
      /\ p.mem[m.cpu.page][m.cpu.sp - 1] = m.cpu.r["ebp"]
  BY PushIs
<1>2. n = [p EXCEPT !.cpu.r["ebp"] = Addr(p.cpu.page, p.cpu.sp)]
  BY DEF Enter
<1> HIDE DEF n, p
<1>3. /\ DOMAIN p = {"cpu", "mem"}
      /\ DOMAIN p.cpu = {"r", "page", "sp", "intr_on", "pc"}
      /\ p.cpu.r = [x \in Register |-> p.cpu.r[x]]
  BY <1>1 DEF IsMachine
<1>4. /\ DOMAIN n = {"cpu", "mem"} /\ n.mem = p.mem
      /\ DOMAIN n.cpu = {"r", "page", "sp", "intr_on", "pc"}
      /\ n.cpu.r = r /\ n.cpu.page = p.cpu.page /\ n.cpu.sp = p.cpu.sp
      /\ n.cpu.intr_on = p.cpu.intr_on /\ n.cpu.pc = p.cpu.pc
  BY <1>2, <1>3
<1>5. /\ r = [x \in Register |-> r[x]] /\ r["ebp"] = Addr(p.cpu.page, p.cpu.sp)
      /\ \A x \in Register : x # "ebp" => r[x] = p.cpu.r[x]
  BY <1>3 DEF Register, General
<1> HIDE DEF r
<1>6. IsMachine(n)
  BY <1>1, <1>4, <1>5 DEF IsMachine
<1> QED BY <1>1, <1>4, <1>5, <1>6 DEF n, Keeps

\* leave; ret, with EBP pointing at word e of the page
LEMMA LeaveRetIs ==
    ASSUME NEW m, IsMachine(m), NEW e \in 0 .. PageWords - 2,
           m.cpu.r["ebp"] = Addr(m.cpu.page, e)
    PROVE  LET n == LeaveRet(m)
           IN  /\ IsMachine(n)
               /\ n.cpu.page = m.cpu.page /\ n.cpu.sp = e + 2
               /\ n.cpu.intr_on = m.cpu.intr_on
               /\ Keeps(m, n, m.cpu.page, e + 2)
               /\ n.cpu.pc = m.mem[m.cpu.page][e + 1]
               /\ n.cpu.r["ebp"] = m.mem[m.cpu.page][e]
               /\ \A x \in Register : x # "ebp" => n.cpu.r[x] = m.cpu.r[x]
<1> DEFINE t == m.cpu.page
           a == SetEsp(m, t, e)
           b == PopAll(a, <<"ebp">>)
           n == LeaveRet(m)
<1>1. /\ t \in Thread /\ e \in 0 .. PageWords /\ e + 1 \in Rows /\ e \in Rows
      /\ e + 1 <= PageWords /\ e + 2 <= PageWords /\ e + (1 - 1) = e
      /\ e + 1 \in Int /\ e + 2 \in Int /\ e + 1 + 1 = e + 2
  BY SMTT(30), SwitchAssumption DEF IsMachine, Rows
<1>2. n = Ret(b)
  BY AddrParts DEF LeaveRet, LoadEsp
<1> HIDE DEF n
<1>3. /\ IsMachine(a)
      /\ a.cpu.r = m.cpu.r /\ a.cpu.page = t /\ a.cpu.sp = e
      /\ a.cpu.intr_on = m.cpu.intr_on
      /\ Keeps(m, a, t, e)
  BY <1>1, SetEspIs
<1> HIDE DEF a
<1>4. "ebp" \in Register /\ a.cpu.sp + 1 <= PageWords
  BY <1>1, <1>3 DEF Register, General
<1>5. /\ IsMachine(b)
      /\ b.cpu.page = a.cpu.page /\ b.cpu.sp = a.cpu.sp + 1
      /\ b.cpu.intr_on = a.cpu.intr_on
      /\ Keeps(a, b, a.cpu.page, a.cpu.sp + 1)
      /\ b.cpu.r["ebp"] = a.mem[a.cpu.page][a.cpu.sp]
      /\ \A x \in Register \ {"ebp"} : b.cpu.r[x] = a.cpu.r[x]
  BY <1>3, <1>4, Pop1Is
<1> HIDE DEF b
<1>6. /\ IsMachine(n)
      /\ n.cpu.r = b.cpu.r /\ n.cpu.page = t
      /\ n.cpu.sp = e + 2
      /\ n.cpu.intr_on = m.cpu.intr_on
      /\ n.cpu.pc = b.mem[t][e + 1]
      /\ Keeps(b, n, t, e + 2)
  BY <1>1, <1>2, <1>3, <1>5, RetIs
<1>7. a.mem[t][e] = m.mem[t][e] /\ b.mem[t][e + 1] = m.mem[t][e + 1]
  BY <1>1, <1>3, <1>5 DEF Keeps
<1>8. Keeps(m, n, t, e + 2)
  BY <1>1, <1>3, <1>5, <1>6, KeepsTwice
<1> QED BY <1>3, <1>5, <1>6, <1>7, <1>8 DEF n

\* The prologue that saves EBX, ESI and EDI, and the epilogue that takes them
\* back
LEMMA SaveCallersIs ==
    ASSUME NEW m, IsMachine(m), m.cpu.sp - 3 >= PcbWords
    PROVE  LET n == SaveCallers(m)
           IN  /\ IsMachine(n)
               /\ n.cpu.page = m.cpu.page /\ n.cpu.sp = m.cpu.sp - 3
               /\ n.cpu.intr_on = m.cpu.intr_on
               /\ Keeps(m, n, m.cpu.page, m.cpu.sp)
               /\ n.cpu.r["ebp"] = m.cpu.r["ebp"]
               /\ \A x \in {"ebx", "esi", "edi"} :
                     n.cpu.r[x] = Temp(m.cpu.page, x)
<1> DEFINE words == Regs(m, <<"ebx", "esi", "edi">>)
           p == PushAll(m, words)
           n == SaveCallers(m)
           r == [p.cpu.r EXCEPT !["ebx"] = Temp(m.cpu.page, "ebx"),
                                !["esi"] = Temp(m.cpu.page, "esi"),
                                !["edi"] = Temp(m.cpu.page, "edi")]
<1>1. words = <<m.cpu.r["ebx"], m.cpu.r["esi"], m.cpu.r["edi"]>>
  BY DEF Regs
<1>2. /\ Len(words) = 3
      /\ Len(words) \in Nat /\ m.cpu.sp - Len(words) >= PcbWords
  BY <1>1
<1> HIDE DEF words
<1>3. /\ IsMachine(p)
      /\ p.cpu.r = m.cpu.r /\ p.cpu.page = m.cpu.page
      /\ p.cpu.sp = m.cpu.sp - 3
      /\ p.cpu.intr_on = m.cpu.intr_on
      /\ Keeps(m, p, m.cpu.page, m.cpu.sp)
  <2>1. Pushed(m, p, words)
    BY <1>2, PushAllIs
  <2> HIDE DEF p
  <2> QED BY <1>2, <2>1 DEF Pushed
<1>4. n = [p EXCEPT !.cpu.r["ebx"] = Temp(m.cpu.page, "ebx"),
                    !.cpu.r["esi"] = Temp(m.cpu.page, "esi"),
                    !.cpu.r["edi"] = Temp(m.cpu.page, "edi")]
  BY DEF SaveCallers, words
<1> HIDE DEF n, p
<1>5. /\ DOMAIN p = {"cpu", "mem"}
      /\ DOMAIN p.cpu = {"r", "page", "sp", "intr_on", "pc"}
      /\ p.cpu.r = [x \in Register |-> p.cpu.r[x]]
  BY <1>3 DEF IsMachine
<1>6. /\ DOMAIN n = {"cpu", "mem"} /\ n.mem = p.mem
      /\ DOMAIN n.cpu = {"r", "page", "sp", "intr_on", "pc"}
      /\ n.cpu.r = r /\ n.cpu.page = p.cpu.page /\ n.cpu.sp = p.cpu.sp
      /\ n.cpu.intr_on = p.cpu.intr_on
  BY <1>4, <1>5
<1>7. /\ r = [x \in Register |-> r[x]] /\ r["ebp"] = p.cpu.r["ebp"]
      /\ \A x \in {"ebx", "esi", "edi"} : r[x] = Temp(m.cpu.page, x)
  BY <1>5 DEF Register, General
<1> HIDE DEF r
<1>8. IsMachine(n)
  BY <1>3, <1>6, <1>7 DEF IsMachine
<1> QED BY <1>3, <1>6, <1>7, <1>8 DEF n, Keeps

LEMMA RestoreCallersIs ==
    ASSUME NEW m, IsMachine(m), NEW e \in 3 .. PageWords,
           m.cpu.r["ebp"] = Addr(m.cpu.page, e)
    PROVE  LET n == RestoreCallers(m)
           IN  /\ IsMachine(n)
               /\ n.cpu.page = m.cpu.page /\ n.cpu.sp = e
               /\ n.cpu.intr_on = m.cpu.intr_on
               /\ Keeps(m, n, m.cpu.page, e)
               /\ n.cpu.r["ebp"] = m.cpu.r["ebp"]
<1> DEFINE t == m.cpu.page
           a == SetEsp(m, t, e - 3)
           n == RestoreCallers(m)
<1>1. /\ t \in Thread /\ e - 3 \in 0 .. PageWords /\ e - 3 + 3 = e
      /\ e \in Int /\ e - 3 <= e /\ e <= e /\ e <= PageWords
  BY SwitchAssumption DEF IsMachine
<1>2. n = PopAll(a, <<"edi", "esi", "ebx">>)
  BY AddrParts DEF RestoreCallers
<1> HIDE DEF n
<1>3. /\ IsMachine(a)
      /\ a.cpu.r = m.cpu.r /\ a.cpu.page = t /\ a.cpu.sp = e - 3
      /\ a.cpu.intr_on = m.cpu.intr_on
      /\ Keeps(m, a, t, e - 3)
  BY <1>1, SetEspIs
<1> HIDE DEF a
<1>4. /\ {"edi", "esi", "ebx", "ebp"} \subseteq Register
      /\ a.cpu.sp + 3 <= PageWords
  BY <1>1, <1>3 DEF Register, General
<1>5. /\ IsMachine(n)
      /\ n.cpu.page = a.cpu.page /\ n.cpu.sp = a.cpu.sp + 3
      /\ n.cpu.intr_on = a.cpu.intr_on
      /\ Keeps(a, n, a.cpu.page, a.cpu.sp + 3)
      /\ \A u \in Register \ {"edi", "esi", "ebx"} : n.cpu.r[u] = a.cpu.r[u]
  BY <1>2, <1>3, <1>4, Pop3Is
<1>6. Keeps(m, n, t, e)
  BY <1>1, <1>3, <1>5, KeepsTwice
<1>7. n.cpu.r["ebp"] = m.cpu.r["ebp"]
  BY <1>3, <1>4, <1>5
<1> QED BY <1>1, <1>3, <1>5, <1>6, <1>7 DEF n

SetIntr(m, on) == [m EXCEPT !.cpu.intr_on = on]

LEMMA SetIntrIs ==
    ASSUME NEW m, IsMachine(m), NEW on
    PROVE  LET n == SetIntr(m, on)
           IN  /\ IsMachine(n) /\ n.mem = m.mem
               /\ n.cpu.r = m.cpu.r /\ n.cpu.page = m.cpu.page
               /\ n.cpu.sp = m.cpu.sp
               /\ n.cpu.intr_on = on /\ n.cpu.pc = m.cpu.pc
<1> DEFINE n == SetIntr(m, on)
<1>1. /\ DOMAIN m = {"cpu", "mem"}
      /\ DOMAIN m.cpu = {"r", "page", "sp", "intr_on", "pc"}
  BY DEF IsMachine
<1>2. /\ DOMAIN n = {"cpu", "mem"} /\ n.mem = m.mem
      /\ DOMAIN n.cpu = {"r", "page", "sp", "intr_on", "pc"}
      /\ n.cpu.r = m.cpu.r /\ n.cpu.page = m.cpu.page /\ n.cpu.sp = m.cpu.sp
      /\ n.cpu.intr_on = on /\ n.cpu.pc = m.cpu.pc
  BY <1>1 DEF SetIntr
<1> HIDE DEF n
<1>3. IsMachine(n)
  BY <1>2 DEF IsMachine
<1> QED BY <1>2, <1>3 DEF n

-----------------------------------------------------------------------------
(* What the gate and the stub push *)

\* EFLAGS, CS, EIP; the error code and the segments
Gated(m) ==
    LET gate   == PushAll(m, <<Flags(m.cpu.intr_on), Junk, m.cpu.pc>>)
        masked == [gate EXCEPT !.cpu.intr_on = FALSE]
    IN  PushAll(masked, <<Zero>> \o Regs(masked, PushOrder))

LEMMA GatedIs ==
    ASSUME NEW m, IsMachine(m), NEW t, t = m.cpu.page,
           NEW s, s = m.cpu.sp, s - 8 >= PcbWords
    PROVE  LET n == Gated(m)
           IN  /\ IsMachine(n)
               /\ n.cpu.page = t /\ n.cpu.sp = s - 8 /\ n.cpu.r = m.cpu.r
               /\ Keeps(m, n, t, s)
               /\ n.mem[t][s - 1] = Flags(m.cpu.intr_on)
               /\ n.mem[t][s - 3] = m.cpu.pc
               /\ n.mem[t][s - 5] = m.cpu.r["ds"]
               /\ n.mem[t][s - 6] = m.cpu.r["es"]
               /\ n.mem[t][s - 7] = m.cpu.r["fs"]
               /\ n.mem[t][s - 8] = m.cpu.r["gs"]
<1> DEFINE first == <<Flags(m.cpu.intr_on), Junk, m.cpu.pc>>
           gate == PushAll(m, first)
           off == FALSE
           masked == SetIntr(gate, off)
           second == <<Zero>> \o Regs(masked, PushOrder)
           n == Gated(m)
<1>0. t \in Thread /\ s \in Int /\ 0 <= s /\ s <= PageWords
  BY SwitchAssumption DEF IsMachine
<1>1. /\ s - 3 \in Int /\ s - 1 \in Rows /\ s - 3 \in Rows
      /\ s - 3 <= s /\ s <= s /\ s - 1 >= s - 3 /\ s - 3 >= s - 3
      /\ s - 3 - 2 = s - 5 /\ s - 3 - 3 = s - 6 /\ s - 3 - 4 = s - 7
      /\ s - 3 - 5 = s - 8 /\ s - 3 >= PcbWords
  BY <1>0, SwitchAssumption DEF Rows
<1>2. /\ Len(first) = 3 /\ first[1] = Flags(m.cpu.intr_on)
      /\ first[3] = m.cpu.pc
      /\ Len(first) \in Nat /\ m.cpu.sp - Len(first) >= PcbWords
  BY <1>1
<1>3. n = PushAll(masked, second)
  BY DEF Gated, SetIntr
<1> HIDE DEF first, off, n
<1>4. Pushed(m, gate, first)
  BY <1>2, PushAllIs
<1> HIDE DEF gate
<1>5. /\ IsMachine(gate) /\ gate.cpu.page = t /\ gate.cpu.sp = s - 3
      /\ gate.cpu.r = m.cpu.r /\ Keeps(m, gate, t, s)
      /\ gate.mem[t][s - 1] = Flags(m.cpu.intr_on)
      /\ gate.mem[t][s - 3] = m.cpu.pc
  BY <1>2, <1>4 DEF Pushed
<1>6. /\ IsMachine(masked) /\ masked.mem = gate.mem
      /\ masked.cpu.r = m.cpu.r /\ masked.cpu.page = t
      /\ masked.cpu.sp = s - 3
  BY <1>5, SetIntrIs
<1> HIDE DEF masked
<1>7. /\ Len(second) = 5 /\ second[2] = m.cpu.r["ds"]
      /\ second[3] = m.cpu.r["es"] /\ second[4] = m.cpu.r["fs"]
      /\ second[5] = m.cpu.r["gs"]
  <2> DEFINE a == m.cpu.r["ds"]
             b == m.cpu.r["es"]
             c == m.cpu.r["fs"]
             d == m.cpu.r["gs"]
             S == {Zero, a, b, c, d}
  <2>1. Regs(masked, PushOrder) = <<a, b, c, d>>
    BY <1>6 DEF Regs, PushOrder
  <2>2. Zero \in S /\ a \in S /\ b \in S /\ c \in S /\ d \in S
    OBVIOUS
  <2> HIDE DEF a, b, c, d, S
  <2>3. /\ Len(<<Zero>> \o <<a, b, c, d>>) = 5
        /\ (<<Zero>> \o <<a, b, c, d>>)[2] = a
        /\ (<<Zero>> \o <<a, b, c, d>>)[3] = b
        /\ (<<Zero>> \o <<a, b, c, d>>)[4] = c
        /\ (<<Zero>> \o <<a, b, c, d>>)[5] = d
    BY <2>2
  <2> QED BY <2>1, <2>3 DEF a, b, c, d
<1>8. Len(second) \in Nat /\ masked.cpu.sp - Len(second) >= PcbWords
  BY <1>1, <1>6, <1>7
<1> HIDE DEF second
<1>9. Pushed(masked, n, second)
  BY <1>3, <1>6, <1>8, PushAllIs
<1>10. /\ IsMachine(n) /\ n.cpu.page = t /\ n.cpu.sp = s - 8
       /\ n.cpu.r = m.cpu.r
       /\ Keeps(masked, n, t, s - 3)
       /\ n.mem[t][s - 5] = m.cpu.r["ds"]
       /\ n.mem[t][s - 6] = m.cpu.r["es"]
       /\ n.mem[t][s - 7] = m.cpu.r["fs"]
       /\ n.mem[t][s - 8] = m.cpu.r["gs"]
  <2>1. \A j \in 1 .. 5 : n.mem[t][s - 3 - j] = second[j]
    BY <1>6, <1>7, <1>9 DEF Pushed
  <2>2. /\ n.mem[t][s - 3 - 2] = second[2] /\ n.mem[t][s - 3 - 3] = second[3]
        /\ n.mem[t][s - 3 - 4] = second[4] /\ n.mem[t][s - 3 - 5] = second[5]
    BY <2>1
  <2> QED BY <1>1, <1>6, <1>7, <1>9, <2>2 DEF Pushed
<1>11. n.mem[t][s - 1] = gate.mem[t][s - 1] /\ n.mem[t][s - 3] = gate.mem[t][s - 3]
  BY <1>0, <1>1, <1>6, <1>10 DEF Keeps
<1>12. Keeps(m, n, t, s)
  <2>1. Keeps(gate, n, t, s - 3)
    BY <1>6, <1>10 DEF Keeps
  <2> QED BY <1>0, <1>1, <1>5, <2>1, KeepsTwice
<1> QED BY <1>5, <1>10, <1>11, <1>12 DEF n

\* pushad
PushedAll(m) ==
    PushAll(m, Regs(m, <<"eax", "ecx", "edx", "ebx">>)
                 \o <<Addr(m.cpu.page, m.cpu.sp)>>
                 \o Regs(m, <<"ebp", "esi", "edi">>))

LEMMA PushedAllIs ==
    ASSUME NEW m, IsMachine(m), NEW t, t = m.cpu.page,
           NEW s, s = m.cpu.sp, s - 8 >= PcbWords
    PROVE  LET n == PushedAll(m)
           IN  /\ IsMachine(n)
               /\ n.cpu.page = t /\ n.cpu.sp = s - 8 /\ n.cpu.r = m.cpu.r
               /\ Keeps(m, n, t, s)
               /\ n.mem[t][s - 1] = m.cpu.r["eax"]
               /\ n.mem[t][s - 2] = m.cpu.r["ecx"]
               /\ n.mem[t][s - 3] = m.cpu.r["edx"]
               /\ n.mem[t][s - 4] = m.cpu.r["ebx"]
               /\ n.mem[t][s - 6] = m.cpu.r["ebp"]
               /\ n.mem[t][s - 7] = m.cpu.r["esi"]
               /\ n.mem[t][s - 8] = m.cpu.r["edi"]
<1> DEFINE a == m.cpu.r["eax"]
           b == m.cpu.r["ecx"]
           c == m.cpu.r["edx"]
           d == m.cpu.r["ebx"]
           e == Addr(m.cpu.page, m.cpu.sp)
           f == m.cpu.r["ebp"]
           g == m.cpu.r["esi"]
           h == m.cpu.r["edi"]
           S == {a, b, c, d, e, f, g, h}
           words == <<a, b, c, d>> \o <<e>> \o <<f, g, h>>
           n == PushedAll(m)
<1>1. /\ Regs(m, <<"eax", "ecx", "edx", "ebx">>) = <<a, b, c, d>>
      /\ Regs(m, <<"ebp", "esi", "edi">>) = <<f, g, h>>
  BY DEF Regs
<1>2. n = PushAll(m, words)
  BY <1>1 DEF PushedAll
<1>3. a \in S /\ b \in S /\ c \in S /\ d \in S /\ e \in S /\ f \in S
      /\ g \in S /\ h \in S
  OBVIOUS
<1> HIDE DEF n, a, b, c, d, e, f, g, h, S
<1>4. /\ Len(words) = 8 /\ words[1] = a /\ words[2] = b /\ words[3] = c
      /\ words[4] = d /\ words[6] = f /\ words[7] = g /\ words[8] = h
  BY <1>3
<1> HIDE DEF words
<1>5. Len(words) \in Nat /\ m.cpu.sp - Len(words) >= PcbWords
  BY <1>4
<1>6. Pushed(m, n, words)
  BY <1>2, <1>5, PushAllIs
<1>7. \A j \in 1 .. 8 : n.mem[t][s - j] = words[j]
  BY <1>4, <1>6 DEF Pushed
<1>8. /\ n.mem[t][s - 1] = words[1] /\ n.mem[t][s - 2] = words[2]
      /\ n.mem[t][s - 3] = words[3] /\ n.mem[t][s - 4] = words[4]
      /\ n.mem[t][s - 6] = words[6] /\ n.mem[t][s - 7] = words[7]
      /\ n.mem[t][s - 8] = words[8]
  BY <1>7
<1>9. /\ IsMachine(n) /\ n.cpu.page = t /\ n.cpu.sp = s - 8
      /\ n.cpu.r = m.cpu.r /\ Keeps(m, n, t, s)
  BY <1>4, <1>6 DEF Pushed
<1> QED BY <1>4, <1>8, <1>9 DEF a, b, c, d, f, g, h, n

\* The interrupt up to the first instruction of the handler
Interrupted(m) ==
    Call(Push(Clobber(PushedAll(Gated(m))), Zero), "handler", "stub")

LEMMA InterruptedIs ==
    ASSUME NEW m, IsMachine(m), NEW t, t = m.cpu.page,
           NEW s, s = m.cpu.sp, s - 18 >= PcbWords
    PROVE  LET n == Interrupted(m)
           IN  /\ IsMachine(n)
               /\ n.cpu.page = t /\ n.cpu.sp = s - 18
               /\ n.cpu.pc = Code("handler")
               /\ Keeps(m, n, t, s)
               /\ n.mem[t][s - 1] = Flags(m.cpu.intr_on)
               /\ n.mem[t][s - 3] = m.cpu.pc
               /\ n.mem[t][s - 5] = m.cpu.r["ds"]
               /\ n.mem[t][s - 6] = m.cpu.r["es"]
               /\ n.mem[t][s - 7] = m.cpu.r["fs"]
               /\ n.mem[t][s - 8] = m.cpu.r["gs"]
               /\ n.mem[t][s - 9] = m.cpu.r["eax"]
               /\ n.mem[t][s - 10] = m.cpu.r["ecx"]
               /\ n.mem[t][s - 11] = m.cpu.r["edx"]
               /\ n.mem[t][s - 12] = m.cpu.r["ebx"]
               /\ n.mem[t][s - 14] = m.cpu.r["ebp"]
               /\ n.mem[t][s - 15] = m.cpu.r["esi"]
               /\ n.mem[t][s - 16] = m.cpu.r["edi"]
               /\ n.mem[t][s - 18] = Code("stub")
<1> DEFINE a == Gated(m)
           b == PushedAll(a)
           c == Clobber(b)
           d == Push(c, Zero)
           n == Interrupted(m)
<1>0. t \in Thread /\ s \in Int /\ 0 <= s /\ s <= PageWords
  BY SwitchAssumption DEF IsMachine
<1>1. /\ \A j \in 1 .. 18 : s - j \in Rows
      /\ s - 8 >= PcbWords /\ (s - 8) - 8 >= PcbWords
      /\ (s - 8) - 8 = s - 16 /\ (s - 16) - 1 = s - 17 /\ (s - 17) - 1 = s - 18
      /\ (s - 16) - 1 >= PcbWords /\ (s - 17) - 1 >= PcbWords
      /\ \A j \in 1 .. 8 : s - j >= s - 8 /\ s - j >= s - 16 /\ s - j >= s - 17
      /\ \A j \in 9 .. 16 : s - j >= s - 16 /\ s - j >= s - 17
      /\ s - 8 \in Int /\ s - 16 \in Int /\ s - 17 \in Int
      /\ s - 8 <= s /\ s - 16 <= s /\ s - 17 <= s /\ s <= s
      /\ (s - 8) - 1 = s - 9 /\ (s - 8) - 2 = s - 10 /\ (s - 8) - 3 = s - 11
      /\ (s - 8) - 4 = s - 12 /\ (s - 8) - 6 = s - 14 /\ (s - 8) - 7 = s - 15
  BY <1>0, SwitchAssumption DEF Rows
<1>2. n = Call(d, "handler", "stub")
  BY DEF Interrupted
<1> HIDE DEF n
<1>3. /\ IsMachine(a)
      /\ a.cpu.page = t /\ a.cpu.sp = s - 8 /\ a.cpu.r = m.cpu.r
      /\ Keeps(m, a, t, s)
      /\ a.mem[t][s - 1] = Flags(m.cpu.intr_on)
      /\ a.mem[t][s - 3] = m.cpu.pc
      /\ a.mem[t][s - 5] = m.cpu.r["ds"]
      /\ a.mem[t][s - 6] = m.cpu.r["es"]
      /\ a.mem[t][s - 7] = m.cpu.r["fs"]
      /\ a.mem[t][s - 8] = m.cpu.r["gs"]
  BY <1>1, GatedIs
<1> HIDE DEF a
<1>4. /\ IsMachine(b)
      /\ b.cpu.page = t /\ b.cpu.sp = s - 16
      /\ Keeps(a, b, t, s - 8)
      /\ b.mem[t][s - 9] = m.cpu.r["eax"]
      /\ b.mem[t][s - 10] = m.cpu.r["ecx"]
      /\ b.mem[t][s - 11] = m.cpu.r["edx"]
      /\ b.mem[t][s - 12] = m.cpu.r["ebx"]
      /\ b.mem[t][s - 14] = m.cpu.r["ebp"]
      /\ b.mem[t][s - 15] = m.cpu.r["esi"]
      /\ b.mem[t][s - 16] = m.cpu.r["edi"]
  <2> DEFINE q == s - 8
  <2>1. q = a.cpu.sp /\ t = a.cpu.page /\ q - 8 >= PcbWords
    BY <1>1, <1>3
  <2> HIDE DEF q
  <2>2. /\ IsMachine(b)
        /\ b.cpu.page = t /\ b.cpu.sp = q - 8
        /\ Keeps(a, b, t, q)
        /\ b.mem[t][q - 1] = a.cpu.r["eax"]
        /\ b.mem[t][q - 2] = a.cpu.r["ecx"]
        /\ b.mem[t][q - 3] = a.cpu.r["edx"]
        /\ b.mem[t][q - 4] = a.cpu.r["ebx"]
        /\ b.mem[t][q - 6] = a.cpu.r["ebp"]
        /\ b.mem[t][q - 7] = a.cpu.r["esi"]
        /\ b.mem[t][q - 8] = a.cpu.r["edi"]
    BY SMTT(30), <1>3, <2>1, PushedAllIs
  <2> QED BY <1>1, <1>3, <2>2 DEF q
<1> HIDE DEF b
<1>5. /\ IsMachine(c) /\ c.mem = b.mem
      /\ c.cpu.page = t /\ c.cpu.sp = s - 16
  BY <1>4, ClobberIs
<1> HIDE DEF c
<1>6. /\ IsMachine(d)
      /\ d.cpu.page = t /\ d.cpu.sp = s - 17
      /\ Keeps(c, d, t, s - 16)
  BY <1>1, <1>5, PushIs
<1> HIDE DEF d
<1>7. /\ IsMachine(n)
      /\ n.cpu.page = t /\ n.cpu.sp = s - 18
      /\ n.cpu.pc = Code("handler")
      /\ Keeps(d, n, t, s - 17)
      /\ n.mem[t][s - 18] = Code("stub")
  BY <1>1, <1>2, <1>6, CallIs
<1>8. Keeps(b, n, t, s - 16)
  <2>1. Keeps(b, d, t, s - 16)
    BY <1>5, <1>6 DEF Keeps
  <2>2. s - 17 <= s - 16 /\ s - 16 <= s - 16
    BY <1>0
  <2> QED BY <1>0, <1>1, <1>7, <2>1, <2>2, KeepsTwice
<1>9. Keeps(a, n, t, s - 8)
  <2>1. s - 16 <= s - 8 /\ s - 8 <= s - 8
    BY <1>0
  <2> QED BY <1>0, <1>1, <1>4, <1>8, <2>1, KeepsTwice
<1>10. Keeps(m, n, t, s)
  BY <1>0, <1>1, <1>3, <1>9, KeepsTwice
<1>11. \A j \in 9 .. 16 : n.mem[t][s - j] = b.mem[t][s - j]
  BY SMTT(30), <1>1, <1>8 DEF Keeps
<1>12. \A j \in 1 .. 8 : n.mem[t][s - j] = a.mem[t][s - j]
  BY SMTT(30), <1>1, <1>9 DEF Keeps
<1>13. /\ n.mem[t][s - 1] = a.mem[t][s - 1] /\ n.mem[t][s - 3] = a.mem[t][s - 3]
       /\ n.mem[t][s - 5] = a.mem[t][s - 5] /\ n.mem[t][s - 6] = a.mem[t][s - 6]
       /\ n.mem[t][s - 7] = a.mem[t][s - 7] /\ n.mem[t][s - 8] = a.mem[t][s - 8]
  BY <1>12
<1>14. /\ n.mem[t][s - 9] = b.mem[t][s - 9]
       /\ n.mem[t][s - 10] = b.mem[t][s - 10]
       /\ n.mem[t][s - 11] = b.mem[t][s - 11]
       /\ n.mem[t][s - 12] = b.mem[t][s - 12]
       /\ n.mem[t][s - 14] = b.mem[t][s - 14]
       /\ n.mem[t][s - 15] = b.mem[t][s - 15]
       /\ n.mem[t][s - 16] = b.mem[t][s - 16]
  BY <1>11
<1> QED BY <1>3, <1>4, <1>7, <1>10, <1>13, <1>14 DEF n

-----------------------------------------------------------------------------
(* The C functions *)

\* intr_timer_handler returns at once ...
HandlerReturned(m) == LeaveRet(Clobber(Enter(m)))

LEMMA HandlerReturnedIs ==
    ASSUME NEW m, IsMachine(m), NEW t, t = m.cpu.page,
           NEW s, s = m.cpu.sp, s - 1 >= PcbWords, s + 1 <= PageWords
    PROVE  LET n == HandlerReturned(m)
           IN  /\ IsMachine(n)
               /\ n.cpu.page = t /\ n.cpu.sp = s + 1
               /\ n.cpu.pc = m.mem[t][s]
               /\ Keeps(m, n, t, s + 1)
<1> DEFINE a == Enter(m)
           b == Clobber(a)
           n == HandlerReturned(m)
<1>0. t \in Thread /\ s \in Int /\ 0 <= s /\ s <= PageWords
  BY SwitchAssumption DEF IsMachine
<1>1. /\ s - 1 \in 0 .. PageWords - 2 /\ s - 1 + 2 = s + 1 /\ s - 1 + 1 = s
      /\ s + 1 \in Int /\ s <= s + 1 /\ s + 1 <= s + 1 /\ s \in Rows /\ s >= s
  BY <1>0, SwitchAssumption DEF Rows
<1>2. n = LeaveRet(b)
  BY DEF HandlerReturned
<1> HIDE DEF n
<1>3. /\ IsMachine(a) /\ a.cpu.page = t /\ Keeps(m, a, t, s)
      /\ a.cpu.r["ebp"] = Addr(t, s - 1)
  BY EnterIs
<1> HIDE DEF a
<1>4. /\ IsMachine(b) /\ b.mem = a.mem /\ b.cpu.page = t
      /\ b.cpu.r["ebp"] = Addr(t, s - 1)
  BY <1>3, ClobberIs
<1> HIDE DEF b
<1>5. /\ IsMachine(n) /\ n.cpu.page = t /\ n.cpu.sp = s + 1
      /\ Keeps(b, n, t, s + 1) /\ n.cpu.pc = b.mem[t][s]
  <2> DEFINE e == s - 1
  <2>1. e \in 0 .. PageWords - 2 /\ b.cpu.r["ebp"] = Addr(b.cpu.page, e)
    BY <1>1, <1>4
  <2> HIDE DEF e
  <2>2. /\ IsMachine(n) /\ n.cpu.page = t /\ n.cpu.sp = e + 2
        /\ Keeps(b, n, t, e + 2) /\ n.cpu.pc = b.mem[t][e + 1]
    BY <1>2, <1>4, <2>1, LeaveRetIs
  <2> QED BY <1>1, <2>2 DEF e
<1>6. Keeps(m, n, t, s + 1)
  <2>1. Keeps(m, b, t, s)
    BY <1>3, <1>4 DEF Keeps
  <2> QED BY <1>0, <1>1, <1>5, <2>1, KeepsTwice
<1>7. b.mem[t][s] = m.mem[t][s]
  BY <1>1, <1>3, <1>4 DEF Keeps
<1> QED BY <1>5, <1>6, <1>7 DEF n

\* ... or calls schedule.
HandlerCalled(m) == Call(Clobber(Enter(m)), "schedule", "handler_end")

LEMMA HandlerCalledIs ==
    ASSUME NEW m, IsMachine(m), NEW t, t = m.cpu.page,
           NEW s, s = m.cpu.sp, s - 2 >= PcbWords
    PROVE  LET n == HandlerCalled(m)
           IN  /\ IsMachine(n)
               /\ n.cpu.page = t /\ n.cpu.sp = s - 2
               /\ n.cpu.pc = Code("schedule")
               /\ n.cpu.r["ebp"] = Addr(t, s - 1)
               /\ n.mem[t][s - 2] = Code("handler_end")
               /\ Keeps(m, n, t, s)
<1> DEFINE a == Enter(m)
           b == Clobber(a)
           n == HandlerCalled(m)
<1>0. t \in Thread /\ s \in Int /\ 0 <= s /\ s <= PageWords
  BY SwitchAssumption DEF IsMachine
<1>1. /\ s - 1 \in Int /\ s - 1 <= s /\ s <= s /\ s - 1 >= PcbWords
      /\ (s - 1) - 1 = s - 2 /\ (s - 1) - 1 >= PcbWords
  BY <1>0, SwitchAssumption
<1>2. n = Call(b, "schedule", "handler_end")
  BY DEF HandlerCalled
<1> HIDE DEF n
<1>3. /\ IsMachine(a) /\ a.cpu.page = t /\ a.cpu.sp = s - 1
      /\ Keeps(m, a, t, s) /\ a.cpu.r["ebp"] = Addr(t, s - 1)
  BY <1>1, EnterIs
<1> HIDE DEF a
<1>4. /\ IsMachine(b) /\ b.mem = a.mem /\ b.cpu.page = t /\ b.cpu.sp = s - 1
      /\ b.cpu.r["ebp"] = Addr(t, s - 1)
  BY <1>3, ClobberIs
<1> HIDE DEF b
<1>5. /\ IsMachine(n) /\ n.cpu.page = t /\ n.cpu.sp = s - 2
      /\ n.cpu.pc = Code("schedule") /\ n.cpu.r = b.cpu.r
      /\ n.mem[t][s - 2] = Code("handler_end") /\ Keeps(b, n, t, s - 1)
  BY <1>1, <1>2, <1>4, CallIs
<1>6. Keeps(m, n, t, s)
  <2>1. Keeps(m, b, t, s)
    BY <1>3, <1>4 DEF Keeps
  <2> QED BY <1>0, <1>1, <1>5, <2>1, KeepsTwice
<1> QED BY <1>4, <1>5, <1>6 DEF n

\* schedule calls switch_to.
ScheduleCalled(m, next) ==
    Call(PushAll(SaveCallers(Clobber(Enter(m))),
                 <<Addr(next, 0), Addr(m.cpu.page, 0)>>),
         "switch_to", "schedule_end")

LEMMA ScheduleCalledIs ==
    ASSUME NEW m, IsMachine(m), NEW t, t = m.cpu.page,
           NEW s, s = m.cpu.sp, s - 7 >= PcbWords, NEW next
    PROVE  LET n == ScheduleCalled(m, next)
           IN  /\ IsMachine(n)
               /\ n.cpu.page = t /\ n.cpu.sp = s - 7
               /\ n.cpu.pc = Code("switch_to")
               /\ n.cpu.r["ebp"] = Addr(t, s - 1)
               /\ \A x \in {"ebx", "esi", "edi"} : n.cpu.r[x] = Temp(t, x)
               /\ n.mem[t][s - 1] = m.cpu.r["ebp"]
               /\ n.mem[t][s - 5] = Addr(next, 0)
               /\ n.mem[t][s - 6] = Addr(t, 0)
               /\ n.mem[t][s - 7] = Code("schedule_end")
               /\ Keeps(m, n, t, s)
<1> DEFINE a == Enter(m)
           b == Clobber(a)
           c == SaveCallers(b)
           words == <<Addr(next, 0), Addr(m.cpu.page, 0)>>
           d == PushAll(c, words)
           n == ScheduleCalled(m, next)
<1>0. t \in Thread /\ s \in Int /\ 0 <= s /\ s <= PageWords
  BY SwitchAssumption DEF IsMachine
<1>1. /\ s - 1 \in Int /\ s - 4 \in Int /\ s - 6 \in Int
      /\ s - 1 <= s /\ s <= s /\ s - 4 <= s - 1 /\ s - 1 <= s - 1
      /\ s - 6 <= s - 4 /\ s - 4 <= s - 4 /\ s - 1 >= PcbWords
      /\ s - 1 - 3 = s - 4 /\ s - 1 - 3 >= PcbWords
      /\ s - 4 - 1 = s - 5 /\ s - 4 - 2 = s - 6 /\ s - 4 - 2 >= PcbWords
      /\ s - 6 - 1 = s - 7 /\ s - 6 - 1 >= PcbWords
      /\ s - 1 \in Rows /\ s - 5 \in Rows /\ s - 6 \in Rows
      /\ s - 1 >= s - 1 /\ s - 5 >= s - 6 /\ s - 6 >= s - 6
  BY <1>0, SwitchAssumption DEF Rows
<1>2. n = Call(d, "switch_to", "schedule_end")
  BY DEF ScheduleCalled
<1> HIDE DEF n
<1>3. /\ IsMachine(a) /\ a.cpu.page = t /\ a.cpu.sp = s - 1
      /\ Keeps(m, a, t, s) /\ a.cpu.r["ebp"] = Addr(t, s - 1)
      /\ a.mem[t][s - 1] = m.cpu.r["ebp"]
  BY <1>1, EnterIs
<1> HIDE DEF a
<1>4. /\ IsMachine(b) /\ b.mem = a.mem /\ b.cpu.page = t /\ b.cpu.sp = s - 1
      /\ b.cpu.r["ebp"] = Addr(t, s - 1)
  BY <1>3, ClobberIs
<1> HIDE DEF b
<1>5. /\ IsMachine(c) /\ c.cpu.page = t /\ c.cpu.sp = s - 4
      /\ c.cpu.r["ebp"] = Addr(t, s - 1) /\ Keeps(b, c, t, s - 1)
      /\ \A x \in {"ebx", "esi", "edi"} : c.cpu.r[x] = Temp(t, x)
  BY <1>1, <1>4, SaveCallersIs
<1> HIDE DEF c
<1>6. /\ IsMachine(d) /\ d.cpu.page = t /\ d.cpu.sp = s - 6
      /\ d.cpu.r = c.cpu.r /\ Keeps(c, d, t, s - 4)
      /\ d.mem[t][s - 5] = Addr(next, 0) /\ d.mem[t][s - 6] = Addr(t, 0)
  <2>1. Len(words) = 2 /\ words[1] = Addr(next, 0) /\ words[2] = Addr(t, 0)
    OBVIOUS
  <2> HIDE DEF words
  <2>2. Len(words) \in Nat /\ c.cpu.sp - Len(words) >= PcbWords
    BY <1>1, <1>5, <2>1
  <2>3. Pushed(c, d, words)
    BY <1>5, <2>2, PushAllIs
  <2> HIDE DEF d
  <2>4. d.mem[t][s - 4 - 1] = words[1] /\ d.mem[t][s - 4 - 2] = words[2]
    BY <1>5, <2>1, <2>3 DEF Pushed
  <2> QED BY <1>1, <1>5, <2>1, <2>3, <2>4 DEF Pushed
<1> HIDE DEF d
<1>7. /\ IsMachine(n) /\ n.cpu.page = t /\ n.cpu.sp = s - 7
      /\ n.cpu.pc = Code("switch_to") /\ n.cpu.r = c.cpu.r
      /\ n.mem[t][s - 7] = Code("schedule_end") /\ Keeps(d, n, t, s - 6)
  BY <1>1, <1>2, <1>6, CallIs
<1>8. Keeps(c, n, t, s - 4)
  BY <1>0, <1>1, <1>6, <1>7, KeepsTwice
<1>9. Keeps(b, n, t, s - 1)
  BY <1>0, <1>1, <1>5, <1>8, KeepsTwice
<1>10. Keeps(m, n, t, s)
  <2>1. Keeps(m, b, t, s)
    BY <1>3, <1>4 DEF Keeps
  <2> QED BY <1>0, <1>1, <1>9, <2>1, KeepsTwice
<1>11. /\ n.mem[t][s - 1] = b.mem[t][s - 1]
       /\ n.mem[t][s - 5] = d.mem[t][s - 5] /\ n.mem[t][s - 6] = d.mem[t][s - 6]
  BY <1>1, <1>7, <1>9 DEF Keeps
<1> QED BY <1>3, <1>4, <1>5, <1>6, <1>7, <1>10, <1>11 DEF n

\* The end of intr_timer_handler
HandlerEnded(m) == LeaveRet(Clobber(m))

LEMMA HandlerEndedIs ==
    ASSUME NEW m, IsMachine(m), NEW t, t = m.cpu.page,
           NEW e \in 0 .. PageWords - 2, m.cpu.r["ebp"] = Addr(t, e)
    PROVE  LET n == HandlerEnded(m)
           IN  /\ IsMachine(n)
               /\ n.cpu.page = t /\ n.cpu.sp = e + 2
               /\ n.cpu.pc = m.mem[t][e + 1]
               /\ Keeps(m, n, t, e + 2)
<1> DEFINE b == Clobber(m)
           n == HandlerEnded(m)
<1>1. n = LeaveRet(b)
  BY DEF HandlerEnded
<1> HIDE DEF n
<1>2. /\ IsMachine(b) /\ b.mem = m.mem /\ b.cpu.page = t
      /\ b.cpu.r["ebp"] = Addr(b.cpu.page, e)
  BY ClobberIs
<1> HIDE DEF b
<1>3. /\ IsMachine(n) /\ n.cpu.page = t /\ n.cpu.sp = e + 2
      /\ Keeps(b, n, t, e + 2) /\ n.cpu.pc = b.mem[t][e + 1]
  BY <1>1, <1>2, LeaveRetIs
<1> QED BY <1>2, <1>3 DEF n, Keeps

\* That of schedule
ScheduleEnded(m) == LeaveRet(RestoreCallers(Clobber(m)))

LEMMA ScheduleEndedIs ==
    ASSUME NEW m, IsMachine(m), NEW t, t = m.cpu.page,
           NEW e \in 3 .. PageWords - 2, m.cpu.r["ebp"] = Addr(t, e)
    PROVE  LET n == ScheduleEnded(m)
           IN  /\ IsMachine(n)
               /\ n.cpu.page = t /\ n.cpu.sp = e + 2
               /\ n.cpu.pc = m.mem[t][e + 1]
               /\ n.cpu.r["ebp"] = m.mem[t][e]
               /\ Keeps(m, n, t, e + 2)
<1> DEFINE b == Clobber(m)
           c == RestoreCallers(b)
           n == ScheduleEnded(m)
<1>0. /\ t \in Thread /\ e \in 3 .. PageWords /\ e \in 0 .. PageWords - 2
      /\ e \in Int /\ e + 2 \in Int /\ e <= e + 2 /\ e + 2 <= e + 2
      /\ e \in Rows /\ e + 1 \in Rows /\ e >= e /\ e + 1 >= e
  BY SMTT(30), SwitchAssumption DEF IsMachine, Rows
<1>1. n = LeaveRet(c)
  BY DEF ScheduleEnded
<1> HIDE DEF n
<1>2. /\ IsMachine(b) /\ b.mem = m.mem /\ b.cpu.page = t
      /\ b.cpu.r["ebp"] = Addr(b.cpu.page, e)
  BY ClobberIs
<1> HIDE DEF b
<1>3. /\ IsMachine(c) /\ c.cpu.page = t
      /\ Keeps(b, c, t, e) /\ c.cpu.r["ebp"] = Addr(c.cpu.page, e)
  BY <1>0, <1>2, RestoreCallersIs
<1> HIDE DEF c
<1>4. /\ IsMachine(n) /\ n.cpu.page = t /\ n.cpu.sp = e + 2
      /\ Keeps(c, n, t, e + 2) /\ n.cpu.pc = c.mem[t][e + 1]
      /\ n.cpu.r["ebp"] = c.mem[t][e]
  BY <1>0, <1>1, <1>3, LeaveRetIs
<1>5. c.mem[t][e] = m.mem[t][e] /\ c.mem[t][e + 1] = m.mem[t][e + 1]
  BY <1>0, <1>2, <1>3 DEF Keeps
<1>6. Keeps(m, n, t, e + 2)
  <2>1. Keeps(m, c, t, e)
    BY <1>2, <1>3 DEF Keeps
  <2> QED BY <1>0, <1>4, <2>1, KeepsTwice
<1> QED BY <1>4, <1>5, <1>6 DEF n

\* The rest of intr0x20_entry, up to the pops of the segments ...
Popad(m) ==
    PopAll(Drop(PopAll(Drop(m, 1), <<"edi", "esi", "ebp">>), 1),
           <<"ebx", "edx", "ecx", "eax">>)

LEMMA PopadIs ==
    ASSUME NEW m, IsMachine(m), NEW t, t = m.cpu.page,
           NEW s, s = m.cpu.sp, s + 9 <= PageWords
    PROVE  LET n == Popad(m)
           IN  /\ IsMachine(n)
               /\ n.cpu.page = t /\ n.cpu.sp = s + 9
               /\ Keeps(m, n, t, s + 9)
               /\ n.cpu.r["edi"] = m.mem[t][s + 1]
               /\ n.cpu.r["esi"] = m.mem[t][s + 2]
               /\ n.cpu.r["ebp"] = m.mem[t][s + 3]
               /\ n.cpu.r["ebx"] = m.mem[t][s + 5]
               /\ n.cpu.r["edx"] = m.mem[t][s + 6]
               /\ n.cpu.r["ecx"] = m.mem[t][s + 7]
               /\ n.cpu.r["eax"] = m.mem[t][s + 8]
<1> DEFINE a == Drop(m, 1)
           b == PopAll(a, <<"edi", "esi", "ebp">>)
           c == Drop(b, 1)
           n == Popad(m)
<1>0. t \in Thread /\ s \in Int /\ 0 <= s /\ s <= PageWords
  BY SwitchAssumption DEF IsMachine
<1>1. /\ s + 1 \in 0 .. PageWords /\ 1 \in Int
      /\ s + 1 + 3 = s + 4 /\ s + 1 + 3 <= PageWords
      /\ s + 4 + 1 = s + 5 /\ s + 4 + 1 \in 0 .. PageWords
      /\ s + 5 + 4 = s + 9 /\ s + 5 + 4 <= PageWords
      /\ s + 1 + 1 = s + 2 /\ s + 1 + 2 = s + 3
      /\ s + 5 + 1 = s + 6 /\ s + 5 + 2 = s + 7 /\ s + 5 + 3 = s + 8
      /\ \A j \in 1 .. 8 : s + j \in Rows /\ s + j >= s + 1
      /\ \A j \in 5 .. 8 : s + j >= s + 4 /\ s + j >= s + 5
      /\ s + 1 \in Int /\ s + 4 \in Int /\ s + 5 \in Int /\ s + 9 \in Int
      /\ s + 1 <= s + 4 /\ s + 4 <= s + 4 /\ s + 4 <= s + 5 /\ s + 5 <= s + 5
      /\ s + 5 <= s + 9 /\ s + 9 <= s + 9
  BY <1>0, SwitchAssumption DEF Rows
<1>2. n = PopAll(c, <<"ebx", "edx", "ecx", "eax">>)
  BY DEF Popad
<1> HIDE DEF n
<1>3. /\ IsMachine(a) /\ a.cpu.page = t /\ a.cpu.sp = s + 1
      /\ Keeps(m, a, t, s + 1)
  BY <1>1, DropIs
<1> HIDE DEF a
<1>4. /\ "edi" \in Register /\ "esi" \in Register /\ "ebp" \in Register
      /\ "ebx" \in Register /\ "edx" \in Register /\ "ecx" \in Register
      /\ "eax" \in Register
  BY DEF Register, General
<1>5. /\ IsMachine(b) /\ b.cpu.page = t /\ b.cpu.sp = s + 4
      /\ Keeps(a, b, t, s + 4)
      /\ b.cpu.r["edi"] = a.mem[t][s + 1]
      /\ b.cpu.r["esi"] = a.mem[t][s + 2]
      /\ b.cpu.r["ebp"] = a.mem[t][s + 3]
  <2>1. a.cpu.sp + 3 <= PageWords
    BY <1>1, <1>3
  <2>2. /\ IsMachine(b) /\ b.cpu.page = a.cpu.page /\ b.cpu.sp = a.cpu.sp + 3
        /\ Keeps(a, b, a.cpu.page, a.cpu.sp + 3)
        /\ b.cpu.r["edi"] = a.mem[a.cpu.page][a.cpu.sp]
        /\ b.cpu.r["esi"] = a.mem[a.cpu.page][a.cpu.sp + 1]
        /\ b.cpu.r["ebp"] = a.mem[a.cpu.page][a.cpu.sp + 2]
    BY ONLY <1>3, <1>4, <2>1, Pop3Is
  <2> HIDE DEF b
  <2> QED BY <1>1, <1>3, <2>2
<1> HIDE DEF b
<1>6. /\ IsMachine(c) /\ c.cpu.page = t /\ c.cpu.sp = s + 5
      /\ Keeps(b, c, t, s + 5) /\ c.cpu.r = b.cpu.r
  BY <1>1, <1>5, DropIs
<1> HIDE DEF c
<1>7. /\ IsMachine(n) /\ n.cpu.page = t /\ n.cpu.sp = s + 9
      /\ Keeps(c, n, t, s + 9)
      /\ n.cpu.r["ebx"] = c.mem[t][s + 5]
      /\ n.cpu.r["edx"] = c.mem[t][s + 6]
      /\ n.cpu.r["ecx"] = c.mem[t][s + 7]
      /\ n.cpu.r["eax"] = c.mem[t][s + 8]
      /\ n.cpu.r["edi"] = c.cpu.r["edi"]
      /\ n.cpu.r["esi"] = c.cpu.r["esi"]
      /\ n.cpu.r["ebp"] = c.cpu.r["ebp"]
  <2>1. c.cpu.sp + 4 <= PageWords
    BY <1>1, <1>6
  <2>2. Popped4(c, n, "ebx", "edx", "ecx", "eax")
    BY ONLY <1>2, <1>4, <1>6, <2>1, Pop4Is
  <2> QED BY <1>1, <1>4, <1>6, <2>2 DEF Popped4
<1>8. Keeps(m, b, t, s + 4)
  BY <1>0, <1>1, <1>3, <1>5, KeepsTwice
<1>9. Keeps(m, c, t, s + 5)
  BY <1>0, <1>1, <1>6, <1>8, KeepsTwice
<1>10. Keeps(m, n, t, s + 9)
  BY <1>0, <1>1, <1>7, <1>9, KeepsTwice
<1>11. \A j \in 1 .. 8 : a.mem[t][s + j] = m.mem[t][s + j]
  BY <1>1, <1>3 DEF Keeps
<1>12. \A j \in 5 .. 8 : c.mem[t][s + j] = m.mem[t][s + j]
  BY <1>1, <1>9 DEF Keeps
<1>13. /\ a.mem[t][s + 1] = m.mem[t][s + 1] /\ a.mem[t][s + 2] = m.mem[t][s + 2]
       /\ a.mem[t][s + 3] = m.mem[t][s + 3]
  BY <1>11
<1>14. /\ c.mem[t][s + 5] = m.mem[t][s + 5] /\ c.mem[t][s + 6] = m.mem[t][s + 6]
       /\ c.mem[t][s + 7] = m.mem[t][s + 7] /\ c.mem[t][s + 8] = m.mem[t][s + 8]
  BY <1>12
<1> QED BY <1>5, <1>6, <1>7, <1>10, <1>13, <1>14 DEF n

\* ... and to iretd
StubEnded(m) ==
    LET popped == Drop(PopAll(Popad(m), PopOrder), 1)
    IN  [Jump(Drop(popped, 3), Peek(popped, 0)) EXCEPT
            !.cpu.intr_on = Peek(popped, 2)[2]]

LEMMA StubEndedIs ==
    ASSUME NEW m, IsMachine(m), NEW t, t = m.cpu.page,
           NEW s, s = m.cpu.sp, s + 17 <= PageWords
    PROVE  LET n == StubEnded(m)
           IN  /\ IsMachine(n)
               /\ n.cpu.page = t /\ n.cpu.sp = s + 17
               /\ Keeps(m, n, t, s + 17)
               /\ n.cpu.pc = m.mem[t][s + 14]
               /\ n.cpu.intr_on = m.mem[t][s + 16][2]
               /\ n.cpu.r["edi"] = m.mem[t][s + 1]
               /\ n.cpu.r["esi"] = m.mem[t][s + 2]
               /\ n.cpu.r["ebp"] = m.mem[t][s + 3]
               /\ n.cpu.r["ebx"] = m.mem[t][s + 5]
               /\ n.cpu.r["edx"] = m.mem[t][s + 6]
               /\ n.cpu.r["ecx"] = m.mem[t][s + 7]
               /\ n.cpu.r["eax"] = m.mem[t][s + 8]
               /\ n.cpu.r["gs"] = m.mem[t][s + 9]
               /\ n.cpu.r["fs"] = m.mem[t][s + 10]
               /\ n.cpu.r["es"] = m.mem[t][s + 11]
               /\ n.cpu.r["ds"] = m.mem[t][s + 12]
<1> DEFINE a == Popad(m)
           b == PopAll(a, <<"gs", "fs", "es", "ds">>)
           c == Drop(b, 1)
           eip == Peek(c, 0)
           eflags == Peek(c, 2)
           flag == eflags[2]
           d == Drop(c, 3)
           e == Jump(d, eip)
           n == StubEnded(m)
<1>0. t \in Thread /\ s \in Int /\ 0 <= s /\ s <= PageWords
  BY SwitchAssumption DEF IsMachine
<1>1. /\ s + 9 <= PageWords /\ s + 9 + 4 <= PageWords /\ s + 9 + 4 = s + 13
      /\ s + 13 + 1 \in 0 .. PageWords /\ s + 13 + 1 = s + 14 /\ 1 \in Int
      /\ s + 14 + 3 \in 0 .. PageWords /\ s + 14 + 3 = s + 17 /\ 3 \in Int
      /\ s + 14 + 0 = s + 14 /\ s + 14 + 2 = s + 16
      /\ s + 9 + 1 = s + 10 /\ s + 9 + 2 = s + 11 /\ s + 9 + 3 = s + 12
      /\ \A j \in 1 .. 16 : s + j \in Rows
      /\ \A j \in 9 .. 12 : s + j >= s + 9
      /\ \A j \in 14 .. 16 : s + j >= s + 14
      /\ s + 9 \in Int /\ s + 13 \in Int /\ s + 14 \in Int /\ s + 17 \in Int
      /\ s + 9 <= s + 13 /\ s + 13 <= s + 13 /\ s + 13 <= s + 14
      /\ s + 14 <= s + 14 /\ s + 14 <= s + 17 /\ s + 17 <= s + 17
  BY <1>0, SwitchAssumption DEF Rows
<1>2. n = SetIntr(e, flag)
  BY DEF StubEnded, PopOrder, SetIntr
<1> HIDE DEF n
<1>3. /\ IsMachine(a) /\ a.cpu.page = t /\ a.cpu.sp = s + 9
      /\ Keeps(m, a, t, s + 9)
      /\ a.cpu.r["edi"] = m.mem[t][s + 1]
      /\ a.cpu.r["esi"] = m.mem[t][s + 2]
      /\ a.cpu.r["ebp"] = m.mem[t][s + 3]
      /\ a.cpu.r["ebx"] = m.mem[t][s + 5]
      /\ a.cpu.r["edx"] = m.mem[t][s + 6]
      /\ a.cpu.r["ecx"] = m.mem[t][s + 7]
      /\ a.cpu.r["eax"] = m.mem[t][s + 8]
  BY <1>1, PopadIs
<1> HIDE DEF a
<1>4. /\ "gs" \in Register /\ "fs" \in Register /\ "es" \in Register
      /\ "ds" \in Register
      /\ {"edi", "esi", "ebp", "ebx", "edx", "ecx", "eax"} \subseteq
           Register \ {"gs", "fs", "es", "ds"}
  BY DEF Register, General, Segments
<1>5. /\ IsMachine(b) /\ b.cpu.page = t /\ b.cpu.sp = s + 13
      /\ Keeps(a, b, t, s + 13)
      /\ b.cpu.r["gs"] = a.mem[t][s + 9]
      /\ b.cpu.r["fs"] = a.mem[t][s + 10]
      /\ b.cpu.r["es"] = a.mem[t][s + 11]
      /\ b.cpu.r["ds"] = a.mem[t][s + 12]
      /\ \A u \in Register \ {"gs", "fs", "es", "ds"} :
            b.cpu.r[u] = a.cpu.r[u]
  <2>1. a.cpu.sp + 4 <= PageWords
    BY <1>1, <1>3
  <2>2. Popped4(a, b, "gs", "fs", "es", "ds")
    BY ONLY <1>3, <1>4, <2>1, Pop4Is
  <2> HIDE DEF b
  <2> QED BY SMTT(30), <1>1, <1>3, <2>2 DEF Popped4
<1> HIDE DEF b
<1>6. /\ IsMachine(c) /\ c.cpu.page = t /\ c.cpu.sp = s + 14
      /\ Keeps(b, c, t, s + 14) /\ c.cpu.r = b.cpu.r
  BY <1>1, <1>5, DropIs
<1> HIDE DEF c
<1>7. /\ IsMachine(d) /\ d.cpu.page = t /\ d.cpu.sp = s + 17
      /\ Keeps(c, d, t, s + 17) /\ d.cpu.r = b.cpu.r
  BY <1>1, <1>6, DropIs
<1> HIDE DEF d
<1>8. eip = c.mem[t][s + 14] /\ eflags = c.mem[t][s + 16]
  BY <1>1, <1>6 DEF Peek
<1> HIDE DEF eip, eflags
<1>9. flag = c.mem[t][s + 16][2]
  BY <1>8
<1> HIDE DEF flag
<1>10. /\ IsMachine(e) /\ e.mem = d.mem /\ e.cpu.page = t
       /\ e.cpu.sp = s + 17 /\ e.cpu.r = b.cpu.r /\ e.cpu.pc = eip
  BY <1>7, JumpIs
<1> HIDE DEF e
<1>11. /\ IsMachine(n) /\ n.mem = d.mem /\ n.cpu.page = t
       /\ n.cpu.sp = s + 17 /\ n.cpu.r = b.cpu.r /\ n.cpu.pc = eip
       /\ n.cpu.intr_on = flag
  BY <1>2, <1>10, SetIntrIs
<1>12. Keeps(m, b, t, s + 13)
  BY SMTT(30), <1>0, <1>1, <1>3, <1>5, KeepsTwice
<1>13. Keeps(m, c, t, s + 14)
  BY <1>0, <1>1, <1>6, <1>12, KeepsTwice
<1>14. Keeps(m, n, t, s + 17)
  <2>1. Keeps(m, d, t, s + 17)
    BY <1>0, <1>1, <1>7, <1>13, KeepsTwice
  <2> QED BY <1>11, <2>1 DEF Keeps
<1>15. /\ \A j \in 9 .. 12 : a.mem[t][s + j] = m.mem[t][s + j]
       /\ \A j \in 14 .. 16 : c.mem[t][s + j] = m.mem[t][s + j]
  <2>1. \A i \in Rows : i >= s + 9 => a.mem[t][i] = m.mem[t][i]
    BY <1>3 DEF Keeps
  <2>2. \A i \in Rows : i >= s + 14 => c.mem[t][i] = m.mem[t][i]
    BY <1>13 DEF Keeps
  <2>3. /\ \A j \in 9 .. 12 : s + j \in Rows
        /\ \A j \in 14 .. 16 : s + j \in Rows
    BY <1>1
  <2> QED BY <1>1, <2>1, <2>2, <2>3
<1>16. /\ a.mem[t][s + 9] = m.mem[t][s + 9] /\ a.mem[t][s + 10] = m.mem[t][s + 10]
       /\ a.mem[t][s + 11] = m.mem[t][s + 11] /\ a.mem[t][s + 12] = m.mem[t][s + 12]
       /\ c.mem[t][s + 14] = m.mem[t][s + 14] /\ c.mem[t][s + 16] = m.mem[t][s + 16]
  BY SMTT(30), <1>15
<1>17. /\ n.cpu.pc = m.mem[t][s + 14] /\ n.cpu.intr_on = m.mem[t][s + 16][2]
       /\ n.cpu.r["gs"] = m.mem[t][s + 9] /\ n.cpu.r["fs"] = m.mem[t][s + 10]
       /\ n.cpu.r["es"] = m.mem[t][s + 11] /\ n.cpu.r["ds"] = m.mem[t][s + 12]
  BY <1>5, <1>8, <1>9, <1>11, <1>16
<1>18. \A u \in {"edi", "esi", "ebp", "ebx", "edx", "ecx", "eax"} :
          n.cpu.r[u] = a.cpu.r[u]
  BY <1>4, <1>5, <1>11
<1> QED BY <1>3, <1>11, <1>14, <1>17, <1>18 DEF n

-----------------------------------------------------------------------------
(* switch_to *)

\* Up to the store into self_kstack ...
Stored(m) ==
    LET saved   == PushAll(m, Regs(m, <<"esi", "edi", "ebx", "ebp">>))
        current == Peek(saved, 5)
    IN  [saved EXCEPT !.mem[current[2]][current[3]] =
            Addr(saved.cpu.page, saved.cpu.sp)]

LEMMA StoredIs ==
    ASSUME NEW m, IsMachine(m), NEW t, t = m.cpu.page,
           NEW s, s = m.cpu.sp, s - 4 >= PcbWords, s + 1 < PageWords,
           m.mem[t][s + 1] = Addr(t, 0)
    PROVE  LET n == Stored(m)
           IN  /\ IsMachine(n)
               /\ n.cpu.page = t /\ n.cpu.sp = s - 4
               /\ \A u \in Thread : u # t => n.mem[u] = m.mem[u]
               /\ \A i \in Rows : i >= s => n.mem[t][i] = m.mem[t][i]
               /\ n.mem[t][0] = Addr(t, s - 4)
               /\ n.mem[t][s - 1] = m.cpu.r["esi"]
               /\ n.mem[t][s - 2] = m.cpu.r["edi"]
               /\ n.mem[t][s - 3] = m.cpu.r["ebx"]
               /\ n.mem[t][s - 4] = m.cpu.r["ebp"]
<1> DEFINE words == Regs(m, <<"esi", "edi", "ebx", "ebp">>)
           a == PushAll(m, words)
           current == Peek(a, 5)
           row == [a.mem[t] EXCEPT ![0] = Addr(t, s - 4)]
           n == Stored(m)
<1>0. t \in Thread /\ s \in Int /\ 0 <= s /\ s <= PageWords
  BY SwitchAssumption DEF IsMachine
<1>1. /\ s - 4 + 5 = s + 1 /\ s + 1 \in Rows /\ s + 1 >= s /\ 0 \in Rows
      /\ \A j \in 1 .. 4 : s - j \in Rows /\ s - j # 0
      /\ \A i \in Rows : i >= s => i # 0
  BY <1>0, SwitchAssumption DEF Rows
<1>2. /\ Len(words) = 4 /\ words[1] = m.cpu.r["esi"]
      /\ words[2] = m.cpu.r["edi"] /\ words[3] = m.cpu.r["ebx"]
      /\ words[4] = m.cpu.r["ebp"]
  <2>1. words = <<m.cpu.r["esi"], m.cpu.r["edi"], m.cpu.r["ebx"], m.cpu.r["ebp"]>>
    BY DEF Regs
  <2> HIDE DEF words
  <2> QED BY <2>1
<1>3. n = [a EXCEPT !.mem[current[2]][current[3]] = Addr(a.cpu.page, a.cpu.sp)]
  BY DEF Stored
<1> HIDE DEF words, n
<1>4. Len(words) \in Nat /\ m.cpu.sp - Len(words) >= PcbWords
  BY <1>2
<1>5. Pushed(m, a, words)
  BY <1>4, PushAllIs
<1> HIDE DEF a
<1>6. /\ IsMachine(a) /\ a.cpu.page = t /\ a.cpu.sp = s - 4
      /\ Keeps(m, a, t, s)
      /\ \A j \in 1 .. 4 : a.mem[t][s - j] = words[j]
  BY <1>2, <1>5 DEF Pushed
<1>7. current = Addr(t, 0)
  <2>1. current = a.mem[t][s + 1]
    BY <1>1, <1>6 DEF Peek
  <2> QED BY <1>1, <1>6, <2>1 DEF Keeps
<1>8. current[2] = t /\ current[3] = 0
  BY <1>7, AddrParts
<1> HIDE DEF current
<1>9. n = [a EXCEPT !.mem[t][0] = Addr(t, s - 4)]
  BY <1>3, <1>6, <1>8
<1>10. /\ DOMAIN a = {"cpu", "mem"} /\ DOMAIN a.mem = Thread
       /\ \A u \in Thread : DOMAIN a.mem[u] = Rows
  BY <1>6 DEF IsMachine
<1>11. /\ DOMAIN n = {"cpu", "mem"} /\ n.cpu = a.cpu
       /\ n.mem = [a.mem EXCEPT ![t] = row]
  BY <1>9, <1>10
<1>12. /\ DOMAIN row = Rows /\ row[0] = Addr(t, s - 4)
       /\ \A i \in Rows : i # 0 => row[i] = a.mem[t][i]
  BY <1>0, <1>1, <1>10
<1> HIDE DEF row
<1>13. /\ DOMAIN n.mem = Thread
       /\ \A u \in Thread : n.mem[u] = IF u = t THEN row ELSE a.mem[u]
  BY <1>10, <1>11
<1>14. IsMachine(n)
  BY <1>6, <1>10, <1>11, <1>12, <1>13 DEF IsMachine
<1>15. \A i \in Rows : i # 0 => n.mem[t][i] = a.mem[t][i]
  BY <1>0, <1>12, <1>13
<1>16. /\ \A j \in 1 .. 4 : n.mem[t][s - j] = words[j]
       /\ n.mem[t][0] = Addr(t, s - 4)
  BY <1>0, <1>1, <1>6, <1>12, <1>13, <1>15
<1>17. /\ n.mem[t][s - 1] = words[1] /\ n.mem[t][s - 2] = words[2]
       /\ n.mem[t][s - 3] = words[3] /\ n.mem[t][s - 4] = words[4]
  BY <1>16
<1>18. /\ \A u \in Thread : u # t => n.mem[u] = m.mem[u]
       /\ \A i \in Rows : i >= s => n.mem[t][i] = m.mem[t][i]
  BY <1>1, <1>6, <1>13, <1>15 DEF Keeps
<1> QED BY <1>2, <1>6, <1>11, <1>14, <1>16, <1>17, <1>18 DEF n

SetEax(m, word) == [m EXCEPT !.cpu.r["eax"] = word]

LEMMA SetEaxIs ==
    ASSUME NEW m, IsMachine(m), NEW word
    PROVE  LET n == SetEax(m, word)
           IN  /\ IsMachine(n) /\ n.mem = m.mem
               /\ n.cpu.page = m.cpu.page /\ n.cpu.sp = m.cpu.sp
               /\ n.cpu.intr_on = m.cpu.intr_on /\ n.cpu.pc = m.cpu.pc
<1> DEFINE n == SetEax(m, word)
           r == [m.cpu.r EXCEPT !["eax"] = word]
<1>1. /\ DOMAIN m = {"cpu", "mem"}
      /\ DOMAIN m.cpu = {"r", "page", "sp", "intr_on", "pc"}
      /\ m.cpu.r = [x \in Register |-> m.cpu.r[x]]
  BY DEF IsMachine
<1>2. /\ DOMAIN n = {"cpu", "mem"} /\ n.mem = m.mem
      /\ DOMAIN n.cpu = {"r", "page", "sp", "intr_on", "pc"}
      /\ n.cpu.r = r /\ n.cpu.page = m.cpu.page /\ n.cpu.sp = m.cpu.sp
      /\ n.cpu.intr_on = m.cpu.intr_on /\ n.cpu.pc = m.cpu.pc
  BY <1>1 DEF SetEax
<1>3. r = [x \in Register |-> r[x]]
  BY <1>1
<1> HIDE DEF n, r
<1>4. IsMachine(n)
  BY <1>2, <1>3 DEF IsMachine
<1> QED BY <1>2, <1>4 DEF n

\* ... and from the load of the other thread's on
Resumed(m, next) ==
    Ret(PopAll(SetEax(LoadEsp(m, m.mem[next[2]][next[3]]), next),
               <<"ebp", "ebx", "edi", "esi">>))

LEMMA ResumedIs ==
    ASSUME NEW m, IsMachine(m), NEW t \in Thread, NEW p \in 0 .. PageWords - 5,
           m.mem[t][0] = Addr(t, p)
    PROVE  LET n == Resumed(m, Addr(t, 0))
           IN  /\ IsMachine(n)
               /\ n.cpu.page = t /\ n.cpu.sp = p + 5
               /\ Keeps(m, n, t, p + 5)
               /\ n.cpu.pc = m.mem[t][p + 4]
               /\ n.cpu.r["ebp"] = m.mem[t][p]
               /\ n.cpu.r["ebx"] = m.mem[t][p + 1]
               /\ n.cpu.r["edi"] = m.mem[t][p + 2]
               /\ n.cpu.r["esi"] = m.mem[t][p + 3]
<1> DEFINE next == Addr(t, 0)
           a == SetEsp(m, t, p)
           b == SetEax(a, next)
           c == PopAll(b, <<"ebp", "ebx", "edi", "esi">>)
           n == Resumed(m, next)
<1>1. /\ p \in 0 .. PageWords /\ p \in Int /\ p + 4 <= PageWords
      /\ p + 4 + 1 = p + 5 /\ p + 4 + 1 <= PageWords
      /\ p + 4 \in Int /\ p + 5 \in Int
      /\ p <= p + 4 /\ p + 4 <= p + 4 /\ p + 4 <= p + 5 /\ p + 5 <= p + 5
      /\ p \in Rows /\ p + 1 \in Rows /\ p + 2 \in Rows /\ p + 3 \in Rows
      /\ p + 4 \in Rows
      /\ p >= p /\ p + 1 >= p /\ p + 2 >= p /\ p + 3 >= p /\ p + 4 >= p
      /\ p + 4 >= p + 4
  BY SwitchAssumption DEF Rows
<1>2. next[2] = t /\ next[3] = 0
  BY AddrParts
<1> HIDE DEF next
<1>3. LoadEsp(m, m.mem[next[2]][next[3]]) = a
  BY <1>2, AddrParts DEF LoadEsp
<1>4. n = Ret(c)
  BY <1>3 DEF Resumed
<1> HIDE DEF n
<1>5. /\ IsMachine(a) /\ a.cpu.page = t /\ a.cpu.sp = p /\ Keeps(m, a, t, p)
  BY <1>1, SetEspIs
<1> HIDE DEF a
<1>6. /\ IsMachine(b) /\ b.mem = a.mem /\ b.cpu.page = t /\ b.cpu.sp = p
  BY <1>5, SetEaxIs
<1> HIDE DEF b
<1>7. /\ "ebp" \in Register /\ "ebx" \in Register /\ "edi" \in Register
      /\ "esi" \in Register
  BY DEF Register, General
<1>8. b.cpu.sp + 4 <= PageWords
  BY <1>1, <1>6
<1>9. Popped4(b, c, "ebp", "ebx", "edi", "esi")
  BY ONLY <1>6, <1>7, <1>8, Pop4Is
<1> HIDE DEF c
<1>10. /\ IsMachine(c) /\ c.cpu.page = t /\ c.cpu.sp = p + 4
       /\ Keeps(b, c, t, p + 4)
       /\ c.cpu.r["ebp"] = b.mem[t][p] /\ c.cpu.r["ebx"] = b.mem[t][p + 1]
       /\ c.cpu.r["edi"] = b.mem[t][p + 2] /\ c.cpu.r["esi"] = b.mem[t][p + 3]
  BY <1>6, <1>9 DEF Popped4
<1>11. /\ IsMachine(n) /\ n.cpu.page = t /\ n.cpu.sp = p + 5
       /\ n.cpu.r = c.cpu.r /\ n.cpu.pc = c.mem[t][p + 4]
       /\ Keeps(c, n, t, p + 5)
  BY <1>1, <1>4, <1>10, RetIs
<1>12. Keeps(m, b, t, p)
  BY <1>5, <1>6 DEF Keeps
<1>13. Keeps(m, c, t, p + 4)
  BY <1>1, <1>10, <1>12, KeepsTwice
<1>14. Keeps(m, n, t, p + 5)
  BY <1>1, <1>11, <1>13, KeepsTwice
<1>15. /\ b.mem[t][p] = m.mem[t][p] /\ b.mem[t][p + 1] = m.mem[t][p + 1]
       /\ b.mem[t][p + 2] = m.mem[t][p + 2] /\ b.mem[t][p + 3] = m.mem[t][p + 3]
       /\ c.mem[t][p + 4] = m.mem[t][p + 4]
  BY <1>1, <1>12, <1>13 DEF Keeps
<1> QED BY <1>10, <1>11, <1>14, <1>15 DEF n, next

-----------------------------------------------------------------------------
(* kernel_thread *)

KernelEntered(m) ==
    LET entered == Enter(m)
        called  == Call(Push(Clobber(entered), Peek(entered, 3)), "",
                        "kernel_thread")
    IN  [Jump(called, <<"body", 0>>) EXCEPT !.cpu.intr_on = TRUE]

\* IF is set, and kernel_thread found its arguments two words up.
EnteredAt(m, n, t, s) ==
    /\ IsMachine(n)
    /\ n.cpu.page = t /\ n.cpu.sp = s - 3
    /\ n.cpu.pc = <<"body", 0>> /\ n.cpu.intr_on = TRUE
    /\ Keeps(m, n, t, s)
    /\ Peek(Enter(m), 2) = m.mem[t][s + 1]
    /\ Peek(Enter(m), 3) = m.mem[t][s + 2]

LEMMA KernelEnteredIs ==
    ASSUME NEW m, IsMachine(m), NEW t, t = m.cpu.page,
           NEW s, s = m.cpu.sp, s - 3 >= PcbWords, s + 2 < PageWords
    PROVE  EnteredAt(m, KernelEntered(m), t, s)
<1> DEFINE a == Enter(m)
           args == Peek(a, 3)
           b == Clobber(a)
           c == Push(b, args)
           label == ""
           back == "kernel_thread"
           d == Call(c, label, back)
           body == <<"body", 0>>
           on == TRUE
           e == Jump(d, body)
           n == KernelEntered(m)
<1>0. t \in Thread /\ s \in Int /\ 0 <= s /\ s <= PageWords
  BY SwitchAssumption DEF IsMachine
<1>1. /\ s - 1 \in Int /\ s - 2 \in Int /\ s - 1 <= s /\ s <= s /\ s - 2 <= s - 1
      /\ s - 1 <= s - 1 /\ s - 1 >= PcbWords
      /\ s - 1 - 1 = s - 2 /\ s - 1 - 1 >= PcbWords
      /\ s - 2 - 1 = s - 3 /\ s - 2 - 1 >= PcbWords
      /\ s - 1 + 2 = s + 1 /\ s - 1 + 3 = s + 2
      /\ s + 1 \in Rows /\ s + 2 \in Rows /\ s + 1 >= s /\ s + 2 >= s
  BY <1>0, SwitchAssumption DEF Rows
<1>2. n = SetIntr(e, on)
  BY DEF KernelEntered, SetIntr
<1>3. on = TRUE
  OBVIOUS
<1> HIDE DEF n, on, body, label, back
<1>4. /\ IsMachine(a) /\ a.cpu.page = t /\ a.cpu.sp = s - 1
      /\ Keeps(m, a, t, s)
  BY <1>1, EnterIs
<1>5. Peek(a, 2) = m.mem[t][s + 1] /\ args = m.mem[t][s + 2]
  <2>1. Peek(a, 2) = a.mem[t][s + 1] /\ args = a.mem[t][s + 2]
    BY <1>1, <1>4 DEF Peek
  <2> QED BY <1>1, <1>4, <2>1 DEF Keeps
<1> HIDE DEF a, args
<1>6. /\ IsMachine(b) /\ b.mem = a.mem /\ b.cpu.page = t /\ b.cpu.sp = s - 1
  BY <1>4, ClobberIs
<1> HIDE DEF b
<1>7. /\ IsMachine(c) /\ c.cpu.page = t /\ c.cpu.sp = s - 2
      /\ Keeps(b, c, t, s - 1)
  BY <1>1, <1>6, PushIs
<1> HIDE DEF c
<1>8. /\ IsMachine(d) /\ d.cpu.page = t /\ d.cpu.sp = s - 3
      /\ Keeps(c, d, t, s - 2)
  BY <1>1, <1>7, CallIs
<1> HIDE DEF d
<1>9. /\ IsMachine(e) /\ e.mem = d.mem /\ e.cpu.page = t
      /\ e.cpu.sp = s - 3 /\ e.cpu.pc = body
  BY <1>8, JumpIs
<1> HIDE DEF e
<1>10. /\ IsMachine(n) /\ n.mem = e.mem /\ n.cpu.page = t
       /\ n.cpu.sp = s - 3 /\ n.cpu.pc = body /\ n.cpu.intr_on = on
  BY <1>2, <1>9, SetIntrIs
<1>11. Keeps(m, b, t, s)
  BY <1>4, <1>6 DEF Keeps
<1>12. Keeps(b, d, t, s - 1)
  BY <1>0, <1>1, <1>7, <1>8, KeepsTwice
<1>13. Keeps(m, d, t, s)
  BY <1>0, <1>1, <1>11, <1>12, KeepsTwice
<1>14. Keeps(m, n, t, s)
  BY <1>9, <1>10, <1>13 DEF Keeps
<1> QED BY <1>3, <1>5, <1>10, <1>14 DEF EnteredAt, n, a, args, body

-----------------------------------------------------------------------------
(* What the invariant says of a machine holds of the next one *)

\* The own part of every stack has the room of a handler below it.
LEMMA OwnRoom ==
    ASSUME OwnInv, StartInv, NEW t \in Started
    PROVE  /\ t \in Thread /\ t \in created /\ received[t] = Arguments(t)
           /\ own[t].sp \in Int /\ own[t].sp <= PageWords
           /\ own[t].sp - 31 >= PcbWords
           /\ \A j \in 1 .. 31 : own[t].sp - j \in Rows
<1>1. t \in Thread /\ t \in created /\ received[t] = Arguments(t)
  BY DEF StartInv, Started
<1>2. /\ own[t].sp \in Int /\ floor[t] \in {PageWords, Bottom + 2}
      /\ floor[t] - MaxOwn <= own[t].sp /\ own[t].sp <= floor[t]
  BY DEF OwnInv, IsOwn
<1>3. own[t].sp <= PageWords /\ own[t].sp - 31 >= PcbWords
  BY <1>2, SwitchAssumption DEF Bottom
<1> QED BY <1>1, <1>2, <1>3, SwitchAssumption DEF Rows

\* A new thread's stack has room for kernel_thread and the words it finds.
LEMMA NewRoom ==
    /\ Bottom \in 0 .. PageWords - 5 /\ Bottom - 1 >= PcbWords
    /\ Bottom \in Rows /\ 0 \in Rows /\ Bottom > 0
    /\ \A j \in 1 .. 7 : Bottom + j \in Rows
BY SwitchAssumption DEF Bottom, Rows

\* The words above the first k below a thread's own part stay.
LEMMA BelowKept ==
    ASSUME OwnInv, StartInv, NEW t \in Started, NEW k \in 1 .. 31,
           NEW m, NEW n, Keeps(m, n, t, own[t].sp - k)
    PROVE  \A j \in 1 .. k : Below(n, t, j) = Below(m, t, j)
<1>1. TAKE j \in 1 .. k
<1>2. own[t].sp - j \in Rows /\ own[t].sp - j >= own[t].sp - k
  BY OwnRoom
<1> QED BY <1>2 DEF Keeps, Below

\* So do the frames on them.
LEMMA FramesKept ==
    ASSUME NEW t, NEW k \in Int, NEW m, NEW n,
           \A j \in 1 .. k : Below(n, t, j) = Below(m, t, j)
    PROVE  /\ k >= 16 => (GateFrame(m, t) => GateFrame(n, t))
           /\ k >= 18 => (StubReturn(m, t) => StubReturn(n, t))
           /\ k >= 20 => (HandlerReturn(m, t) => HandlerReturn(n, t))
           /\ k >= 21 => (ScheduleFrame(m, t) => ScheduleFrame(n, t))
           /\ k >= 27 => (SwitchReturn(m, t) => SwitchReturn(n, t))
<1>1. ASSUME k >= 16 PROVE GateFrame(m, t) => GateFrame(n, t)
  <2>1. /\ 1 \in 1 .. k /\ 3 \in 1 .. k /\ 5 \in 1 .. k /\ 6 \in 1 .. k
        /\ 7 \in 1 .. k /\ 8 \in 1 .. k /\ 9 \in 1 .. k /\ 10 \in 1 .. k
        /\ 11 \in 1 .. k /\ 12 \in 1 .. k /\ 14 \in 1 .. k /\ 15 \in 1 .. k
        /\ 16 \in 1 .. k
    BY <1>1
  <2> QED BY <2>1 DEF GateFrame
<1>2. k >= 18 => (StubReturn(m, t) => StubReturn(n, t))
  BY DEF StubReturn
<1>3. k >= 20 => (HandlerReturn(m, t) => HandlerReturn(n, t))
  BY DEF HandlerReturn
<1>4. k >= 21 => (ScheduleFrame(m, t) => ScheduleFrame(n, t))
  BY DEF ScheduleFrame
<1>5. k >= 27 => (SwitchReturn(m, t) => SwitchReturn(n, t))
  BY DEF SwitchReturn
<1> QED BY <1>1, <1>2, <1>3, <1>4, <1>5

\* A thread whose page does not change stays suspended.
LEMMA SuspendedKept ==
    ASSUME NEW m, NEW n, NEW t, n.mem[t] = m.mem[t], Suspended(m, t)
    PROVE  Suspended(n, t)
<1>1. \A j : Below(n, t, j) = Below(m, t, j)
  BY DEF Below
<1>2. CASE t \in Started
  BY <1>1, <1>2 DEF Suspended, GateFrame, StubReturn, HandlerReturn,
                    ScheduleFrame, SwitchReturn, SwitchFrame
<1>3. CASE t \notin Started
  BY <1>3 DEF Suspended
<1> QED BY <1>2, <1>3

\* The thread that has the processor writes below its own part only.
LEMMA OthersKept ==
    ASSUME OwnInv, StartInv, NEW m, MachineInv(m), NEW n, NEW c \in Started,
           c = m.cpu.page, n.cpu.page = c, Keeps(m, n, c, own[c].sp)
    PROVE  KeptInv(n) /\ SuspendedInv(n)
<1>1. /\ KeptInv(m) /\ SuspendedInv(m)
      /\ \A u \in Thread : u # c => n.mem[u] = m.mem[u]
      /\ \A i \in Rows : i >= own[c].sp => n.mem[c][i] = m.mem[c][i]
  BY DEF MachineInv, Keeps
<1>2. KeptInv(n)
  BY <1>1, OwnRoom DEF KeptInv
<1>3. created \subseteq Thread
  BY DEF StartInv
<1>4. SuspendedInv(n)
  BY <1>1, <1>3, SuspendedKept DEF SuspendedInv
<1> QED BY <1>2, <1>4

\* Keeping more of a page is keeping less of it.
LEMMA KeepsLess ==
    ASSUME NEW m, NEW n, NEW t, NEW s \in Int, NEW top \in Int,
           Keeps(m, n, t, s), s <= top
    PROVE  Keeps(m, n, t, top)
BY SwitchAssumption DEF Keeps, Rows

\* A step that leaves the threads' own parts alone
LEMMA HandlerStep ==
    ASSUME StartInv, OwnInv, NEW n, MachineInv(n), Becomes(n),
           UNCHANGED <<created, own, floor, received>>
    PROVE  IInv'
<1>1. /\ Machine'.cpu = n.cpu /\ Machine'.mem = n.mem
      /\ DOMAIN Machine' = {"cpu", "mem"}
  BY DEF Machine, Becomes
<1> DEFINE o == Machine'
<1>2. o.cpu = n.cpu /\ o.mem = n.mem /\ DOMAIN o = {"cpu", "mem"}
  BY <1>1
<1> HIDE DEF o
<1>3. Started' = Started
  BY DEF Started
<1>4. StartInv' /\ OwnInv'
  BY <1>3 DEF StartInv, OwnInv, IsOwn
<1>5. IsMachine(o)
  BY <1>2 DEF MachineInv, IsMachine
<1>6. KeptInv(o)
  BY <1>2 DEF MachineInv, KeptInv
<1>7. SuspendedInv(o)
  BY <1>2, SuspendedKept DEF MachineInv, SuspendedInv
<1>8. \A t, j : Below(o, t, j) = Below(n, t, j)
  BY <1>2 DEF Below
<1>9. \A t : /\ GateFrame(n, t) => GateFrame(o, t)
             /\ StubReturn(n, t) => StubReturn(o, t)
             /\ HandlerReturn(n, t) => HandlerReturn(o, t)
             /\ ScheduleFrame(n, t) => ScheduleFrame(o, t)
             /\ SwitchReturn(n, t) => SwitchReturn(o, t)
  <2>1. TAKE t
  <2> DEFINE k == 31
  <2>2. k = 31 /\ k \in Int /\ \A j \in 1 .. k : Below(o, t, j) = Below(n, t, j)
    BY <1>8
  <2> HIDE DEF k
  <2>3. /\ k >= 16 => (GateFrame(n, t) => GateFrame(o, t))
        /\ k >= 18 => (StubReturn(n, t) => StubReturn(o, t))
        /\ k >= 20 => (HandlerReturn(n, t) => HandlerReturn(o, t))
        /\ k >= 21 => (ScheduleFrame(n, t) => ScheduleFrame(o, t))
        /\ k >= 27 => (SwitchReturn(n, t) => SwitchReturn(o, t))
    BY <2>2, FramesKept
  <2> QED BY <2>2, <2>3
<1>10. \A k : /\ EspAt(n, k) => EspAt(o, k)
              /\ EbpAt(n, k) => EbpAt(o, k)
  BY <1>2 DEF EspAt, EbpAt
<1>11. /\ TempsIn(n) => TempsIn(o)
       /\ SwitchArguments(n) => SwitchArguments(o)
  BY <1>2, <1>8 DEF TempsIn, SwitchArguments
<1>12. PointInv(o)
  <2>1. BodyPoint(n) => BodyPoint(o)
    BY <1>2 DEF BodyPoint, Context, Stack
  <2>2. NewPoint(n) => NewPoint(o)
    BY <1>2 DEF NewPoint
  <2>3. HandlerPoint(n) => HandlerPoint(o)
    BY <1>2, <1>9, <1>10 DEF HandlerPoint
  <2>4. SchedulePoint(n) => SchedulePoint(o)
    BY <1>2, <1>9, <1>10 DEF SchedulePoint
  <2>5. SwitchPoint(n) => SwitchPoint(o)
    BY <1>2, <1>9, <1>10, <1>11 DEF SwitchPoint
  <2>6. ScheduleEndPoint(n) => ScheduleEndPoint(o)
    BY <1>2, <1>9, <1>10, <1>11 DEF ScheduleEndPoint
  <2>7. HandlerEndPoint(n) => HandlerEndPoint(o)
    BY <1>2, <1>9, <1>10 DEF HandlerEndPoint
  <2>8. StubPoint(n) => StubPoint(o)
    BY <1>2, <1>9, <1>10 DEF StubPoint
  <2> QED BY <2>1, <2>2, <2>3, <2>4, <2>5, <2>6, <2>7, <2>8
          DEF MachineInv, PointInv
<1>13. MachineInv(o)
  BY <1>5, <1>6, <1>7, <1>12 DEF MachineInv
<1>14. UNCHANGED <<created, own, floor, received>> /\ Started' = Started
  BY <1>3
<1>15. MachineInv(o) => MachineInv(Machine)'
  <2>1. IsMachine(o) => IsMachine(Machine)'
    BY DEF o, IsMachine
  <2>2. KeptInv(o) => KeptInv(Machine)'
    BY <1>14 DEF o, KeptInv
  <2>3. \A t : /\ GateFrame(o, t) => GateFrame(Machine, t)'
               /\ StubReturn(o, t) => StubReturn(Machine, t)'
               /\ HandlerReturn(o, t) => HandlerReturn(Machine, t)'
               /\ ScheduleFrame(o, t) => ScheduleFrame(Machine, t)'
               /\ SwitchReturn(o, t) => SwitchReturn(Machine, t)'
               /\ SwitchFrame(o, t) => SwitchFrame(Machine, t)'
    BY ZenonT(30), <1>14 DEF o, Below, GateFrame, StubReturn, HandlerReturn,
                 ScheduleFrame, SwitchReturn, SwitchFrame
  <2>4. \A t : Suspended(o, t) => Suspended(Machine, t)'
    BY <1>14, <2>3 DEF o, Suspended
  <2>5. SuspendedInv(o) => SuspendedInv(Machine)'
    BY <1>14, <2>4 DEF o, SuspendedInv
  <2>6. /\ \A k : /\ EspAt(o, k) => EspAt(Machine, k)'
                  /\ EbpAt(o, k) => EbpAt(Machine, k)'
        /\ TempsIn(o) => TempsIn(Machine)'
        /\ SwitchArguments(o) => SwitchArguments(Machine)'
    BY <1>14 DEF o, EspAt, EbpAt, TempsIn, SwitchArguments, Below
  <2>7. BodyPoint(o) => BodyPoint(Machine)'
    BY <1>14 DEF o, BodyPoint, Context, Stack
  <2>8. NewPoint(o) => NewPoint(Machine)'
    BY <1>14 DEF o, NewPoint
  <2>9. HandlerPoint(o) => HandlerPoint(Machine)'
    BY <2>3, <2>6 DEF o, HandlerPoint
  <2>10. SchedulePoint(o) => SchedulePoint(Machine)'
    BY <2>3, <2>6 DEF o, SchedulePoint
  <2>11. SwitchPoint(o) => SwitchPoint(Machine)'
    BY <2>3, <2>6 DEF o, SwitchPoint
  <2>12. ScheduleEndPoint(o) => ScheduleEndPoint(Machine)'
    BY <2>3, <2>6 DEF o, ScheduleEndPoint
  <2>13. HandlerEndPoint(o) => HandlerEndPoint(Machine)'
    BY <2>3, <2>6 DEF o, HandlerEndPoint
  <2>14. StubPoint(o) => StubPoint(Machine)'
    BY <2>3, <2>6 DEF o, StubPoint
  <2>15. PointInv(o) => PointInv(Machine)'
    BY <2>7, <2>8, <2>9, <2>10, <2>11, <2>12, <2>13, <2>14 DEF PointInv
  <2> QED BY <2>1, <2>2, <2>5, <2>15 DEF MachineInv
<1> QED BY <1>4, <1>13, <1>15 DEF IInv

-----------------------------------------------------------------------------
(* The steps of the handler *)

LEMMA MachineIs == Machine.cpu = cpu /\ Machine.mem = mem
BY DEF Machine

\* The program counter says which part of the invariant holds.
LEMMA WhereItIs ==
    ASSUME NEW m, PointInv(m)
    PROVE  /\ m.cpu.pc[1] = "body" => BodyPoint(m)
           /\ m.cpu.pc = Code("kernel_thread") => NewPoint(m)
           /\ m.cpu.pc = Code("handler") => HandlerPoint(m)
           /\ m.cpu.pc = Code("schedule") => SchedulePoint(m)
           /\ m.cpu.pc = Code("switch_to") => SwitchPoint(m)
           /\ m.cpu.pc = Code("schedule_end") => ScheduleEndPoint(m)
           /\ m.cpu.pc = Code("handler_end") => HandlerEndPoint(m)
           /\ m.cpu.pc = Code("stub") => StubPoint(m)
<1>1. /\ \A b \in Bodies : b[1] = "body"
      /\ \A l : Code(l)[1] = "code" /\ Code(l)[2] = l
  BY Kinds DEF Code
<1>2. /\ BodyPoint(m) => m.cpu.pc[1] = "body"
      /\ NewPoint(m) => m.cpu.pc[1] = "code" /\ m.cpu.pc[2] = "kernel_thread"
      /\ HandlerPoint(m) => m.cpu.pc[1] = "code" /\ m.cpu.pc[2] = "handler"
      /\ SchedulePoint(m) => m.cpu.pc[1] = "code" /\ m.cpu.pc[2] = "schedule"
      /\ SwitchPoint(m) => m.cpu.pc[1] = "code" /\ m.cpu.pc[2] = "switch_to"
      /\ ScheduleEndPoint(m) =>
            m.cpu.pc[1] = "code" /\ m.cpu.pc[2] = "schedule_end"
      /\ HandlerEndPoint(m) =>
            m.cpu.pc[1] = "code" /\ m.cpu.pc[2] = "handler_end"
      /\ StubPoint(m) => m.cpu.pc[1] = "code" /\ m.cpu.pc[2] = "stub"
  BY <1>1 DEF BodyPoint, NewPoint, HandlerPoint, SchedulePoint, SwitchPoint,
              ScheduleEndPoint, HandlerEndPoint, StubPoint
<1> DEFINE kind == m.cpu.pc[1]
           label == m.cpu.pc[2]
<1>3. \A l : m.cpu.pc = Code(l) => kind = "code" /\ label = l
  BY <1>1
<1>4. \/ BodyPoint(m) /\ kind = "body"
      \/ NewPoint(m) /\ kind = "code" /\ label = "kernel_thread"
      \/ HandlerPoint(m) /\ kind = "code" /\ label = "handler"
      \/ SchedulePoint(m) /\ kind = "code" /\ label = "schedule"
      \/ SwitchPoint(m) /\ kind = "code" /\ label = "switch_to"
      \/ ScheduleEndPoint(m) /\ kind = "code" /\ label = "schedule_end"
      \/ HandlerEndPoint(m) /\ kind = "code" /\ label = "handler_end"
      \/ StubPoint(m) /\ kind = "code" /\ label = "stub"
  BY <1>2 DEF PointInv
<1>5. /\ m.cpu.pc = Code("kernel_thread") =>
            kind = "code" /\ label = "kernel_thread"
      /\ m.cpu.pc = Code("handler") => kind = "code" /\ label = "handler"
      /\ m.cpu.pc = Code("schedule") => kind = "code" /\ label = "schedule"
      /\ m.cpu.pc = Code("switch_to") => kind = "code" /\ label = "switch_to"
      /\ m.cpu.pc = Code("schedule_end") =>
            kind = "code" /\ label = "schedule_end"
      /\ m.cpu.pc = Code("handler_end") =>
            kind = "code" /\ label = "handler_end"
      /\ m.cpu.pc = Code("stub") => kind = "code" /\ label = "stub"
  BY <1>3
<1> HIDE DEF label
<1>6. m.cpu.pc[1] = kind
  OBVIOUS
<1> HIDE DEF kind
<1> QED BY <1>4, <1>5, <1>6

\* What a thread in its own code has
LEMMA InItsBody ==
    ASSUME IInv, InBody(cpu), NEW c, c = cpu.page
    PROVE  /\ c \in Started /\ BodyPoint(Machine)
           /\ cpu.sp = own[c].sp /\ cpu.pc = own[c].pc /\ cpu.r = own[c].r
           /\ cpu.intr_on = TRUE /\ IsMachine(Machine)
<1>1. BodyPoint(Machine) /\ IsMachine(Machine)
  BY MachineIs, WhereItIs DEF IInv, MachineInv, InBody
<1>2. c \in Started /\ Context(Machine) = own[c]
  BY <1>1, MachineIs DEF BodyPoint
<1>3. own[c].intr_on = TRUE
  <2>1. own[c] = [r |-> own[c].r, pc |-> own[c].pc, intr_on |-> TRUE,
                  sp |-> own[c].sp, stack |-> own[c].stack]
    BY <1>2 DEF IInv, OwnInv, IsOwn
  <2> QED BY <2>1
<1>4. /\ cpu.sp = own[c].sp /\ cpu.pc = own[c].pc /\ cpu.r = own[c].r
      /\ cpu.intr_on = own[c].intr_on
  BY <1>2, MachineIs DEF Context
<1> QED BY <1>1, <1>2, <1>3, <1>4

LEMMA InterruptStep == IInv /\ Interrupt => IInv'
<1> SUFFICES ASSUME IInv, Interrupt
             PROVE  IInv'
  OBVIOUS
<1> DEFINE m == Machine
           n == Interrupted(m)
           c == cpu.page
           S == own[c].sp
<1>1. Becomes(n) /\ UNCHANGED <<created, own, floor, received>> /\ InBody(cpu)
  BY DEF Interrupt, Interrupted, Gated, PushedAll, Machine
<1>2. m.cpu = cpu /\ m.mem = mem
  BY MachineIs
<1>3. /\ IsMachine(m) /\ MachineInv(m) /\ StartInv /\ OwnInv /\ c = m.cpu.page
      /\ S = m.cpu.sp /\ c \in Started /\ c \in Thread
      /\ m.cpu.pc = own[c].pc /\ m.cpu.r = own[c].r /\ m.cpu.intr_on = TRUE
  BY <1>1, <1>2, InItsBody DEF IInv, StartInv, Started
<1> HIDE DEF m, n, c
<1>4. S = own[c].sp /\ S \in Int /\ S - 18 >= PcbWords
  BY <1>3, OwnRoom, SwitchAssumption
<1> HIDE DEF S
<1>5. /\ IsMachine(n)
      /\ n.cpu.page = c /\ n.cpu.sp = S - 18
      /\ n.cpu.pc = Code("handler")
      /\ Keeps(m, n, c, S)
      /\ n.mem[c][S - 1] = Flags(m.cpu.intr_on)
      /\ n.mem[c][S - 3] = m.cpu.pc
      /\ n.mem[c][S - 5] = m.cpu.r["ds"]
      /\ n.mem[c][S - 6] = m.cpu.r["es"]
      /\ n.mem[c][S - 7] = m.cpu.r["fs"]
      /\ n.mem[c][S - 8] = m.cpu.r["gs"]
      /\ n.mem[c][S - 9] = m.cpu.r["eax"]
      /\ n.mem[c][S - 10] = m.cpu.r["ecx"]
      /\ n.mem[c][S - 11] = m.cpu.r["edx"]
      /\ n.mem[c][S - 12] = m.cpu.r["ebx"]
      /\ n.mem[c][S - 14] = m.cpu.r["ebp"]
      /\ n.mem[c][S - 15] = m.cpu.r["esi"]
      /\ n.mem[c][S - 16] = m.cpu.r["edi"]
      /\ n.mem[c][S - 18] = Code("stub")
  <2>1. IsMachine(m) /\ c = m.cpu.page /\ S = m.cpu.sp /\ S - 18 >= PcbWords
    BY <1>3, <1>4
  <2> QED BY ONLY <2>1, InterruptedIs DEF n
<1>6. GateFrame(n, c) /\ StubReturn(n, c)
  BY ZenonT(30), <1>3, <1>4, <1>5 DEF GateFrame, StubReturn, Below
<1>7. HandlerPoint(n)
  BY <1>3, <1>4, <1>5, <1>6 DEF HandlerPoint, EspAt
<1>8. KeptInv(n) /\ SuspendedInv(n)
  BY <1>3, <1>4, <1>5, OthersKept
<1>9. MachineInv(n)
  BY <1>5, <1>7, <1>8 DEF MachineInv, PointInv
<1> QED BY <1>1, <1>3, <1>9, HandlerStep

LEMMA TimerHandlerStep == IInv /\ TimerHandler => IInv'
<1> SUFFICES ASSUME IInv, TimerHandler
             PROVE  IInv'
  OBVIOUS
<1> DEFINE m == Machine
           c == cpu.page
           S == own[c].sp
<1>1. /\ At("handler") /\ UNCHANGED <<created, own, floor, received>>
      /\ Becomes(HandlerReturned(m)) \/ Becomes(HandlerCalled(m))
  BY DEF TimerHandler, HandlerReturned, HandlerCalled
<1>2. /\ m.cpu = cpu /\ m.mem = mem /\ IsMachine(m) /\ MachineInv(m)
      /\ StartInv /\ OwnInv /\ c = m.cpu.page
  BY MachineIs DEF IInv, MachineInv
<1> HIDE DEF m, c
<1>3. HandlerPoint(m)
  BY <1>1, <1>2, WhereItIs DEF MachineInv, At
<1>4. /\ c \in Started /\ c \in Thread /\ m.cpu.sp = S - 18
      /\ GateFrame(m, c) /\ StubReturn(m, c)
  BY <1>2, <1>3 DEF HandlerPoint, EspAt, StartInv, Started
<1> DEFINE s == S - 18
<1>5. /\ S \in Int /\ s \in Int /\ s = m.cpu.sp /\ s - 2 >= PcbWords
      /\ s - 1 >= PcbWords /\ s + 1 <= PageWords /\ s + 1 <= S /\ s <= S
      /\ s + 1 = S - 17 /\ s - 2 = S - 20 /\ s - 1 = S - 19
      /\ s = S - 18 /\ s + 1 \in Int /\ S = own[c].sp
  BY <1>2, <1>4, OwnRoom, SwitchAssumption
<1> HIDE DEF s, S
<1>6. CASE Becomes(HandlerReturned(m))
  <2> DEFINE n == HandlerReturned(m)
  <2>0. Becomes(n)
    BY <1>6
  <2> HIDE DEF n
  <2>1. /\ IsMachine(n)
        /\ n.cpu.page = c /\ n.cpu.sp = S - 17
        /\ n.cpu.pc = m.mem[c][S - 18]
        /\ Keeps(m, n, c, S - 17) /\ Keeps(m, n, c, s + 1)
    <3>1. /\ IsMachine(m) /\ c = m.cpu.page /\ s = m.cpu.sp
          /\ s - 1 >= PcbWords /\ s + 1 <= PageWords
      BY <1>2, <1>5
    <3>2. /\ IsMachine(n) /\ n.cpu.page = c /\ n.cpu.sp = s + 1
          /\ n.cpu.pc = m.mem[c][s] /\ Keeps(m, n, c, s + 1)
      BY ONLY <3>1, HandlerReturnedIs DEF n
    <3> QED BY <1>5, <3>2
  <2>2. Keeps(m, n, c, S)
    BY <1>5, <2>1, KeepsLess
  <2>3. GateFrame(n, c)
    <3> DEFINE k == 17
    <3>1. k = 17 /\ k \in 1 .. 31 /\ k \in Int /\ k >= 16
      OBVIOUS
    <3>2. Keeps(m, n, c, own[c].sp - k)
      BY <1>5, <2>1, <3>1
    <3> HIDE DEF k
    <3>3. \A j \in 1 .. k : Below(n, c, j) = Below(m, c, j)
      BY <1>2, <1>4, <3>1, <3>2, BelowKept
    <3> QED BY <1>4, <3>1, <3>3, FramesKept
  <2>4. n.cpu.pc = Code("stub")
    BY <1>4, <1>5, <2>1 DEF StubReturn, Below
  <2>5. StubPoint(n)
    BY <1>4, <1>5, <2>1, <2>3, <2>4 DEF StubPoint, EspAt
  <2>6. KeptInv(n) /\ SuspendedInv(n)
    BY <1>2, <1>4, <1>5, <2>1, <2>2, OthersKept
  <2>7. MachineInv(n)
    BY <2>1, <2>5, <2>6 DEF MachineInv, PointInv
  <2> QED BY <1>1, <1>2, <2>0, <2>7, HandlerStep
<1>7. CASE Becomes(HandlerCalled(m))
  <2> DEFINE n == HandlerCalled(m)
  <2>0. Becomes(n)
    BY <1>7
  <2> HIDE DEF n
  <2>1. /\ IsMachine(n)
        /\ n.cpu.page = c /\ n.cpu.sp = S - 20
        /\ n.cpu.pc = Code("schedule")
        /\ n.cpu.r["ebp"] = Addr(c, S - 19)
        /\ n.mem[c][S - 20] = Code("handler_end")
        /\ Keeps(m, n, c, s) /\ Keeps(m, n, c, S - 18)
    <3>1. /\ IsMachine(m) /\ c = m.cpu.page /\ s = m.cpu.sp /\ s - 2 >= PcbWords
      BY <1>2, <1>5
    <3>2. /\ IsMachine(n) /\ n.cpu.page = c /\ n.cpu.sp = s - 2
          /\ n.cpu.pc = Code("schedule")
          /\ n.cpu.r["ebp"] = Addr(c, s - 1)
          /\ n.mem[c][s - 2] = Code("handler_end") /\ Keeps(m, n, c, s)
      BY ONLY <3>1, HandlerCalledIs DEF n
    <3> QED BY <1>5, <3>2
  <2>2. Keeps(m, n, c, S)
    BY <1>5, <2>1, KeepsLess
  <2>3. GateFrame(n, c) /\ StubReturn(n, c)
    <3> DEFINE k == 18
    <3>1. k = 18 /\ k \in 1 .. 31 /\ k \in Int /\ k >= 16 /\ k >= 18
      OBVIOUS
    <3>2. Keeps(m, n, c, own[c].sp - k)
      BY <1>5, <2>1, <3>1
    <3> HIDE DEF k
    <3>3. \A j \in 1 .. k : Below(n, c, j) = Below(m, c, j)
      BY <1>2, <1>4, <3>1, <3>2, BelowKept
    <3> QED BY <1>4, <3>1, <3>3, FramesKept
  <2>4. HandlerReturn(n, c)
    BY <1>5, <2>1 DEF HandlerReturn, Below
  <2>5. SchedulePoint(n)
    BY <1>4, <1>5, <2>1, <2>3, <2>4 DEF SchedulePoint, EspAt, EbpAt
  <2>6. KeptInv(n) /\ SuspendedInv(n)
    BY <1>2, <1>4, <1>5, <2>1, <2>2, OthersKept
  <2>7. MachineInv(n)
    BY <2>1, <2>5, <2>6 DEF MachineInv, PointInv
  <2> QED BY <1>1, <1>2, <2>0, <2>7, HandlerStep
<1> QED BY <1>1, <1>6, <1>7

LEMMA ScheduleStep == ASSUME NEW next, IInv, Schedule(next) PROVE IInv'
<1> DEFINE m == Machine
           c == cpu.page
           S == own[c].sp
           s == S - 20
           n == ScheduleCalled(m, next)
           k == 20
<1>1. /\ At("schedule") /\ UNCHANGED <<created, own, floor, received>>
      /\ next \in created /\ Becomes(n)
  BY DEF Schedule, ScheduleCalled, Machine
<1>2. /\ m.cpu = cpu /\ m.mem = mem /\ IsMachine(m) /\ MachineInv(m)
      /\ StartInv /\ OwnInv /\ c = m.cpu.page
  BY MachineIs DEF IInv, MachineInv
<1> HIDE DEF m, c, n
<1>3. SchedulePoint(m)
  BY <1>1, <1>2, WhereItIs DEF MachineInv, At
<1>4. /\ c \in Started /\ c \in Thread /\ m.cpu.sp = S - 20
      /\ m.cpu.r["ebp"] = Addr(c, S - 19)
      /\ GateFrame(m, c) /\ StubReturn(m, c) /\ HandlerReturn(m, c)
  BY <1>2, <1>3 DEF SchedulePoint, EspAt, EbpAt, StartInv, Started
<1>5. /\ S = own[c].sp /\ S \in Int /\ s \in Int /\ s = m.cpu.sp
      /\ s - 7 >= PcbWords /\ s <= S /\ s = S - k
      /\ s - 7 = S - 27 /\ s - 6 = S - 26 /\ s - 5 = S - 25 /\ s - 1 = S - 21
      /\ k \in 1 .. 31 /\ k \in Int /\ k >= 16 /\ k >= 18 /\ k >= 20
  BY <1>2, <1>4, OwnRoom, SwitchAssumption
<1> HIDE DEF S, s, k
<1>6. /\ IsMachine(n)
      /\ n.cpu.page = c /\ n.cpu.sp = s - 7
      /\ n.cpu.pc = Code("switch_to")
      /\ n.cpu.r["ebp"] = Addr(c, s - 1)
      /\ \A x \in {"ebx", "esi", "edi"} : n.cpu.r[x] = Temp(c, x)
      /\ n.mem[c][s - 1] = m.cpu.r["ebp"]
      /\ n.mem[c][s - 5] = Addr(next, 0)
      /\ n.mem[c][s - 6] = Addr(c, 0)
      /\ n.mem[c][s - 7] = Code("schedule_end")
      /\ Keeps(m, n, c, s)
  <2>1. IsMachine(m) /\ c = m.cpu.page /\ s = m.cpu.sp /\ s - 7 >= PcbWords
    BY <1>2, <1>5
  <2> QED BY ONLY <2>1, ScheduleCalledIs DEF n
<1>7. Keeps(m, n, c, S) /\ Keeps(m, n, c, own[c].sp - k)
  BY <1>5, <1>6, KeepsLess
<1>8. GateFrame(n, c) /\ StubReturn(n, c) /\ HandlerReturn(n, c)
  <2>1. \A j \in 1 .. k : Below(n, c, j) = Below(m, c, j)
    BY <1>2, <1>4, <1>5, <1>7, BelowKept
  <2> QED BY <1>4, <1>5, <2>1, FramesKept
<1>9. ScheduleFrame(n, c) /\ SwitchReturn(n, c)
  BY <1>4, <1>5, <1>6 DEF ScheduleFrame, SwitchReturn, Below
<1>10. SwitchArguments(n)
  BY <1>1, <1>5, <1>6 DEF SwitchArguments, Below
<1>11. SwitchPoint(n)
  BY <1>4, <1>5, <1>6, <1>8, <1>9, <1>10
     DEF SwitchPoint, EspAt, EbpAt, TempsIn
<1>12. KeptInv(n) /\ SuspendedInv(n)
  BY <1>2, <1>4, <1>5, <1>6, <1>7, OthersKept
<1>13. MachineInv(n)
  BY <1>6, <1>11, <1>12 DEF MachineInv, PointInv
<1> QED BY <1>1, <1>2, <1>13, HandlerStep

LEMMA ScheduleEndStep == IInv /\ ScheduleEnd => IInv'
<1> SUFFICES ASSUME IInv, ScheduleEnd
             PROVE  IInv'
  OBVIOUS
<1> DEFINE m == Machine
           c == cpu.page
           S == own[c].sp
           e == S - 21
           n == ScheduleEnded(m)
           k == 19
<1>1. /\ At("schedule_end") /\ UNCHANGED <<created, own, floor, received>>
      /\ Becomes(n)
  BY DEF ScheduleEnd, ScheduleEnded
<1>2. /\ m.cpu = cpu /\ m.mem = mem /\ IsMachine(m) /\ MachineInv(m)
      /\ StartInv /\ OwnInv /\ c = m.cpu.page
  BY MachineIs DEF IInv, MachineInv
<1> HIDE DEF m, c, n
<1>3. ScheduleEndPoint(m)
  BY <1>1, <1>2, WhereItIs DEF MachineInv, At
<1>4. /\ c \in Started /\ c \in Thread
      /\ m.cpu.r["ebp"] = Addr(c, S - 21)
      /\ GateFrame(m, c) /\ StubReturn(m, c) /\ HandlerReturn(m, c)
      /\ ScheduleFrame(m, c)
  BY <1>2, <1>3 DEF ScheduleEndPoint, EspAt, EbpAt, StartInv, Started
<1>5. /\ S = own[c].sp /\ S \in Int /\ e \in Int /\ e \in 3 .. PageWords - 2
      /\ e = S - 21 /\ e + 2 = S - 19 /\ e + 1 = S - 20 /\ e + 2 \in Int
      /\ e + 2 <= S /\ e + 2 = S - k
      /\ k \in 1 .. 31 /\ k \in Int /\ k >= 16 /\ k >= 18
  BY <1>2, <1>4, OwnRoom, SwitchAssumption
<1> HIDE DEF S, e, k
<1>6. /\ IsMachine(n)
      /\ n.cpu.page = c /\ n.cpu.sp = e + 2
      /\ n.cpu.pc = m.mem[c][e + 1]
      /\ n.cpu.r["ebp"] = m.mem[c][e]
      /\ Keeps(m, n, c, e + 2)
  <2>1. /\ IsMachine(m) /\ c = m.cpu.page /\ e \in 3 .. PageWords - 2
        /\ m.cpu.r["ebp"] = Addr(c, e)
    BY <1>2, <1>4, <1>5
  <2> QED BY ONLY <2>1, ScheduleEndedIs DEF n
<1>7. Keeps(m, n, c, S) /\ Keeps(m, n, c, own[c].sp - k)
  BY <1>5, <1>6, KeepsLess
<1>8. GateFrame(n, c) /\ StubReturn(n, c)
  <2>1. \A j \in 1 .. k : Below(n, c, j) = Below(m, c, j)
    BY <1>2, <1>4, <1>5, <1>7, BelowKept
  <2> QED BY <1>4, <1>5, <2>1, FramesKept
<1>9. n.cpu.pc = Code("handler_end") /\ n.cpu.r["ebp"] = Addr(c, S - 19)
  BY <1>4, <1>5, <1>6 DEF HandlerReturn, ScheduleFrame, Below
<1>10. HandlerEndPoint(n)
  BY <1>4, <1>5, <1>6, <1>8, <1>9 DEF HandlerEndPoint, EspAt, EbpAt
<1>11. KeptInv(n) /\ SuspendedInv(n)
  BY <1>2, <1>4, <1>5, <1>6, <1>7, OthersKept
<1>12. MachineInv(n)
  BY <1>6, <1>10, <1>11 DEF MachineInv, PointInv
<1> QED BY <1>1, <1>2, <1>12, HandlerStep

LEMMA HandlerEndStep == IInv /\ HandlerEnd => IInv'
<1> SUFFICES ASSUME IInv, HandlerEnd
             PROVE  IInv'
  OBVIOUS
<1> DEFINE m == Machine
           c == cpu.page
           S == own[c].sp
           e == S - 19
           n == HandlerEnded(m)
           k == 17
<1>1. /\ At("handler_end") /\ UNCHANGED <<created, own, floor, received>>
      /\ Becomes(n)
  BY DEF HandlerEnd, HandlerEnded
<1>2. /\ m.cpu = cpu /\ m.mem = mem /\ IsMachine(m) /\ MachineInv(m)
      /\ StartInv /\ OwnInv /\ c = m.cpu.page
  BY MachineIs DEF IInv, MachineInv
<1> HIDE DEF m, c, n
<1>3. HandlerEndPoint(m)
  BY <1>1, <1>2, WhereItIs DEF MachineInv, At
<1>4. /\ c \in Started /\ c \in Thread
      /\ m.cpu.r["ebp"] = Addr(c, S - 19)
      /\ GateFrame(m, c) /\ StubReturn(m, c)
  BY <1>2, <1>3 DEF HandlerEndPoint, EspAt, EbpAt, StartInv, Started
<1>5. /\ S = own[c].sp /\ S \in Int /\ e \in Int /\ e \in 0 .. PageWords - 2
      /\ e = S - 19 /\ e + 2 = S - 17 /\ e + 1 = S - 18 /\ e + 2 \in Int
      /\ e + 2 <= S /\ e + 2 = S - k
      /\ k \in 1 .. 31 /\ k \in Int /\ k >= 16
  BY <1>2, <1>4, OwnRoom, SwitchAssumption
<1> HIDE DEF S, e, k
<1>6. /\ IsMachine(n)
      /\ n.cpu.page = c /\ n.cpu.sp = e + 2
      /\ n.cpu.pc = m.mem[c][e + 1]
      /\ Keeps(m, n, c, e + 2)
  <2>1. /\ IsMachine(m) /\ c = m.cpu.page /\ e \in 0 .. PageWords - 2
        /\ m.cpu.r["ebp"] = Addr(c, e)
    BY <1>2, <1>4, <1>5
  <2> QED BY ONLY <2>1, HandlerEndedIs DEF n
<1>7. Keeps(m, n, c, S) /\ Keeps(m, n, c, own[c].sp - k)
  BY <1>5, <1>6, KeepsLess
<1>8. GateFrame(n, c)
  <2>1. \A j \in 1 .. k : Below(n, c, j) = Below(m, c, j)
    BY <1>2, <1>4, <1>5, <1>7, BelowKept
  <2> QED BY <1>4, <1>5, <2>1, FramesKept
<1>9. n.cpu.pc = Code("stub")
  BY <1>4, <1>5, <1>6 DEF StubReturn, Below
<1>10. StubPoint(n)
  BY <1>4, <1>5, <1>6, <1>8, <1>9 DEF StubPoint, EspAt
<1>11. KeptInv(n) /\ SuspendedInv(n)
  BY <1>2, <1>4, <1>5, <1>6, <1>7, OthersKept
<1>12. MachineInv(n)
  BY <1>6, <1>10, <1>11 DEF MachineInv, PointInv
<1> QED BY <1>1, <1>2, <1>12, HandlerStep

\* The store of ESP suspends the thread that has the processor.
LEMMA StoreSuspends ==
    ASSUME IInv, At("switch_to"), NEW c, c = cpu.page
    PROVE  LET a == Stored(Machine)
           IN  /\ IsMachine(a) /\ a.cpu.page = c /\ a.cpu.sp = own[c].sp - 31
               /\ \E next \in created : Peek(a, 6) = Addr(next, 0)
               /\ KeptInv(a)
               /\ \A t \in created : Suspended(a, t)
<1> DEFINE m == Machine
           S == own[c].sp
           s == S - 27
           a == Stored(m)
           k == 27
<1>1. /\ m.cpu = cpu /\ m.mem = mem /\ IsMachine(m) /\ MachineInv(m)
      /\ StartInv /\ OwnInv /\ c = m.cpu.page
  BY MachineIs DEF IInv, MachineInv
<1> HIDE DEF m
<1>2. SwitchPoint(m)
  BY <1>1, WhereItIs DEF MachineInv, At
<1>3. /\ c \in Started /\ c \in Thread /\ m.cpu.sp = S - 27
      /\ m.cpu.r["ebp"] = Addr(c, S - 21)
      /\ GateFrame(m, c) /\ StubReturn(m, c) /\ HandlerReturn(m, c)
      /\ ScheduleFrame(m, c) /\ SwitchReturn(m, c)
      /\ SwitchArguments(m) /\ TempsIn(m)
  BY <1>1, <1>2 DEF SwitchPoint, EspAt, EbpAt, StartInv, Started
<1>4. /\ S = own[c].sp /\ S \in Int /\ s \in Int /\ s = m.cpu.sp
      /\ s - 4 >= PcbWords /\ s + 1 < PageWords /\ s = S - k
      /\ s - 1 = S - 28 /\ s - 2 = S - 29 /\ s - 3 = S - 30 /\ s - 4 = S - 31
      /\ s + 1 = S - 26 /\ s - 4 + 6 = S - 25 /\ S - 25 \in Rows
      /\ S - 25 >= s /\ S >= s
      /\ \A j \in 1 .. 27 : S - j \in Rows /\ S - j >= s
      /\ k = 27 /\ k \in Int /\ k >= 16 /\ k >= 18 /\ k >= 20 /\ k >= 21
      /\ k >= 27
  BY <1>1, <1>3, OwnRoom, SwitchAssumption
<1> HIDE DEF S, s, k, a
<1>5. m.mem[c][s + 1] = Addr(c, 0)
  BY <1>1, <1>3, <1>4 DEF SwitchArguments, Below
<1>6. /\ IsMachine(a)
      /\ a.cpu.page = c /\ a.cpu.sp = s - 4
      /\ \A u \in Thread : u # c => a.mem[u] = m.mem[u]
      /\ \A i \in Rows : i >= s => a.mem[c][i] = m.mem[c][i]
      /\ a.mem[c][0] = Addr(c, s - 4)
      /\ a.mem[c][s - 1] = m.cpu.r["esi"]
      /\ a.mem[c][s - 2] = m.cpu.r["edi"]
      /\ a.mem[c][s - 3] = m.cpu.r["ebx"]
      /\ a.mem[c][s - 4] = m.cpu.r["ebp"]
  <2>1. /\ IsMachine(m) /\ c = m.cpu.page /\ s = m.cpu.sp
        /\ s - 4 >= PcbWords /\ s + 1 < PageWords
    BY <1>1, <1>4
  <2> QED BY ONLY <1>5, <2>1, StoredIs DEF a
<1>7. \A j \in 1 .. k : Below(a, c, j) = Below(m, c, j)
  BY <1>4, <1>6 DEF Below
<1>8. /\ GateFrame(a, c) /\ StubReturn(a, c) /\ HandlerReturn(a, c)
      /\ ScheduleFrame(a, c) /\ SwitchReturn(a, c)
  BY <1>3, <1>4, <1>7, FramesKept
<1>9. SwitchFrame(a, c)
  BY <1>1, <1>3, <1>4, <1>6 DEF SwitchFrame, Below, TempsIn
<1>10. Suspended(a, c)
  BY <1>3, <1>4, <1>6, <1>8, <1>9 DEF Suspended
<1>11. created \subseteq Thread /\ SuspendedInv(m) /\ KeptInv(m)
  BY <1>1 DEF StartInv, MachineInv
<1>12. ASSUME NEW t \in created
       PROVE  Suspended(a, t)
  <2>1. CASE t = c
    BY <1>10, <2>1
  <2>2. CASE t # c
    <3>1. a.mem[t] = m.mem[t]
      BY <1>6, <1>11, <2>2
    <3>2. Suspended(m, t)
      BY <1>1, <1>11, <2>2 DEF SuspendedInv
    <3> QED BY <3>1, <3>2, SuspendedKept
  <2> QED BY <2>1, <2>2
<1>13. KeptInv(a)
  <2>1. ASSUME NEW t \in Started, NEW i \in Rows, i >= own[t].sp
        PROVE  a.mem[t][i] = own[t].stack[i]
    <3>1. m.mem[t][i] = own[t].stack[i]
      BY <1>11, <2>1 DEF KeptInv
    <3>2. t \in Thread
      BY <1>1, OwnRoom
    <3>3. CASE t = c
      <4>1. i >= s
        BY <1>4, <2>1, <3>3 DEF Rows
      <4> QED BY <1>6, <3>1, <3>3, <4>1
    <3> QED BY <1>6, <3>1, <3>2, <3>3
  <2> QED BY <2>1 DEF KeptInv
<1>14. \E next \in created : Peek(a, 6) = Addr(next, 0)
  BY SMTT(30), <1>1, <1>3, <1>4, <1>6 DEF SwitchArguments, Below, Peek
<1> QED BY <1>4, <1>6, <1>12, <1>13, <1>14 DEF a, m, s, S

LEMMA SwitchToStep == IInv /\ SwitchTo => IInv'
<1> SUFFICES ASSUME IInv, SwitchTo
             PROVE  IInv'
  OBVIOUS
<1> DEFINE a == Stored(Machine)
           n == Resumed(a, Peek(a, 6))
<1>1. /\ At("switch_to") /\ UNCHANGED <<created, own, floor, received>>
      /\ Becomes(n)
  BY DEF SwitchTo, Resumed, Stored, SetEax
<1>2. /\ IsMachine(a) /\ KeptInv(a)
      /\ \E next \in created : Peek(a, 6) = Addr(next, 0)
      /\ \A t \in created : Suspended(a, t)
  BY <1>1, StoreSuspends
<1>3. StartInv /\ OwnInv
  BY DEF IInv
<1> HIDE DEF a
<1>4. PICK next \in created : Peek(a, 6) = Addr(next, 0)
  BY <1>2
<1>5. next \in Thread /\ created \subseteq Thread /\ Suspended(a, next)
  BY <1>2, <1>3 DEF StartInv
<1> DEFINE p == IF next \in Started THEN own[next].sp - 31 ELSE Bottom
<1>6. p \in 0 .. PageWords - 5 /\ p \in Int /\ p + 5 \in Int
  BY <1>3, OwnRoom, NewRoom, SwitchAssumption
<1>7. a.mem[next][0] = Addr(next, p)
  BY <1>5 DEF Suspended
<1>8. n = Resumed(a, Addr(next, 0))
  BY <1>4
<1> HIDE DEF p, n
<1>9. /\ IsMachine(n)
      /\ n.cpu.page = next /\ n.cpu.sp = p + 5
      /\ Keeps(a, n, next, p + 5)
      /\ n.cpu.pc = a.mem[next][p + 4]
      /\ n.cpu.r["ebp"] = a.mem[next][p]
      /\ n.cpu.r["ebx"] = a.mem[next][p + 1]
      /\ n.cpu.r["edi"] = a.mem[next][p + 2]
      /\ n.cpu.r["esi"] = a.mem[next][p + 3]
  BY ONLY <1>2, <1>5, <1>6, <1>7, <1>8, ResumedIs
<1>10. SuspendedInv(n)
  <2>1. ASSUME NEW t \in created, t # next
        PROVE  Suspended(n, t)
    <3>1. n.mem[t] = a.mem[t] /\ Suspended(a, t)
      BY <1>2, <1>5, <1>9, <2>1 DEF Keeps
    <3> QED BY <3>1, SuspendedKept
  <2> QED BY <1>9, <2>1 DEF SuspendedInv
<1>11. CASE next \in Started
  <2> DEFINE S == own[next].sp
             k == 26
  <2>1. /\ S = own[next].sp /\ S \in Int /\ p = S - 31 /\ p + 4 = S - 27
        /\ p + 5 = S - 26 /\ p + 3 = S - 28 /\ p + 2 = S - 29
        /\ p + 1 = S - 30 /\ p + 5 <= S /\ p + 5 = S - k
        /\ k \in 1 .. 31 /\ k \in Int /\ k >= 16 /\ k >= 18 /\ k >= 20
        /\ k >= 21
    BY <1>3, <1>11, OwnRoom DEF p
  <2> HIDE DEF S, k
  <2>2. /\ GateFrame(a, next) /\ StubReturn(a, next) /\ HandlerReturn(a, next)
        /\ ScheduleFrame(a, next) /\ SwitchReturn(a, next)
        /\ SwitchFrame(a, next)
    BY <1>5, <1>11 DEF Suspended
  <2>3. GateFrame(n, next) /\ StubReturn(n, next) /\ HandlerReturn(n, next)
        /\ ScheduleFrame(n, next)
    <3>1. Keeps(a, n, next, own[next].sp - k)
      BY <1>9, <2>1
    <3>2. \A j \in 1 .. k : Below(n, next, j) = Below(a, next, j)
      BY <1>3, <1>11, <2>1, <3>1, BelowKept
    <3> QED BY <2>1, <2>2, <3>2, FramesKept
  <2>4. /\ n.cpu.pc = Code("schedule_end")
        /\ n.cpu.r["ebp"] = Addr(next, S - 21)
        /\ \A x \in {"ebx", "esi", "edi"} : n.cpu.r[x] = Temp(next, x)
    BY <1>9, <2>1, <2>2 DEF SwitchReturn, SwitchFrame, Below
  <2>5. ScheduleEndPoint(n)
    BY <1>9, <1>11, <2>1, <2>3, <2>4
       DEF ScheduleEndPoint, EspAt, EbpAt, TempsIn
  <2>6. KeptInv(n)
    <3>1. ASSUME NEW t \in Started, NEW i \in Rows, i >= own[t].sp
          PROVE  n.mem[t][i] = own[t].stack[i]
      <4>1. a.mem[t][i] = own[t].stack[i] /\ t \in Thread
        BY <1>2, <1>3, <3>1, OwnRoom DEF KeptInv
      <4>2. CASE t = next
        <5>1. i >= p + 5
          BY <2>1, <3>1, <4>2 DEF Rows
        <5> QED BY <1>9, <4>1, <4>2, <5>1 DEF Keeps
      <4> QED BY <1>9, <4>1, <4>2 DEF Keeps
    <3> QED BY <3>1 DEF KeptInv
  <2>7. MachineInv(n)
    BY <1>9, <1>10, <2>5, <2>6 DEF MachineInv, PointInv
  <2> QED BY <1>1, <1>3, <2>7, HandlerStep
<1>12. CASE next \notin Started
  <2>1. p = Bottom
    BY <1>12 DEF p
  <2>2. /\ a.mem[next][Bottom + 4] = Code("kernel_thread")
        /\ a.mem[next][Bottom + 6] = Func(next)
        /\ a.mem[next][Bottom + 7] = Arg(next)
    BY <1>5, <1>12 DEF Suspended
  <2>3. /\ n.mem[next][Bottom + 6] = a.mem[next][Bottom + 6]
        /\ n.mem[next][Bottom + 7] = a.mem[next][Bottom + 7]
    <3>1. /\ Bottom + 6 \in Rows /\ Bottom + 7 \in Rows
          /\ Bottom + 6 >= Bottom + 5 /\ Bottom + 7 >= Bottom + 5
      BY NewRoom
    <3> QED BY <1>9, <2>1, <3>1 DEF Keeps
  <2>4. NewPoint(n)
    BY <1>9, <1>12, <2>1, <2>2, <2>3 DEF NewPoint
  <2>5. KeptInv(n)
    BY <1>2, <1>3, <1>9, <1>12, OwnRoom DEF KeptInv, Keeps
  <2>6. MachineInv(n)
    BY <1>9, <1>10, <2>4, <2>5 DEF MachineInv, PointInv
  <2> QED BY <1>1, <1>3, <2>6, HandlerStep
<1> QED BY <1>11, <1>12

LEMMA StubEndStep == IInv /\ StubEnd => IInv'
<1> SUFFICES ASSUME IInv, StubEnd
             PROVE  IInv'
  OBVIOUS
<1> DEFINE m == Machine
           c == cpu.page
           S == own[c].sp
           s == S - 17
           n == StubEnded(m)
<1>1. /\ At("stub") /\ UNCHANGED <<created, own, floor, received>>
      /\ Becomes(n)
  BY DEF StubEnd, StubEnded, Popad
<1>2. /\ m.cpu = cpu /\ m.mem = mem /\ IsMachine(m) /\ MachineInv(m)
      /\ StartInv /\ OwnInv /\ c = m.cpu.page
  BY MachineIs DEF IInv, MachineInv
<1> HIDE DEF m, c, n
<1>3. StubPoint(m)
  BY <1>1, <1>2, WhereItIs DEF MachineInv, At
<1>4. /\ c \in Started /\ c \in Thread /\ m.cpu.sp = S - 17 /\ GateFrame(m, c)
  BY <1>2, <1>3 DEF StubPoint, EspAt, StartInv, Started
<1>5. /\ S = own[c].sp /\ S \in Int /\ s = m.cpu.sp /\ s + 17 <= PageWords
      /\ s + 17 = S /\ s + 16 = S - 1 /\ s + 14 = S - 3 /\ s + 12 = S - 5
      /\ s + 11 = S - 6 /\ s + 10 = S - 7 /\ s + 9 = S - 8 /\ s + 8 = S - 9
      /\ s + 7 = S - 10 /\ s + 6 = S - 11 /\ s + 5 = S - 12
      /\ s + 3 = S - 14 /\ s + 2 = S - 15 /\ s + 1 = S - 16
  BY <1>2, <1>4, OwnRoom
<1> HIDE DEF S, s
<1>6. /\ IsMachine(n)
      /\ n.cpu.page = c /\ n.cpu.sp = s + 17
      /\ Keeps(m, n, c, s + 17)
      /\ n.cpu.pc = m.mem[c][s + 14]
      /\ n.cpu.intr_on = m.mem[c][s + 16][2]
      /\ n.cpu.r["edi"] = m.mem[c][s + 1]
      /\ n.cpu.r["esi"] = m.mem[c][s + 2]
      /\ n.cpu.r["ebp"] = m.mem[c][s + 3]
      /\ n.cpu.r["ebx"] = m.mem[c][s + 5]
      /\ n.cpu.r["edx"] = m.mem[c][s + 6]
      /\ n.cpu.r["ecx"] = m.mem[c][s + 7]
      /\ n.cpu.r["eax"] = m.mem[c][s + 8]
      /\ n.cpu.r["gs"] = m.mem[c][s + 9]
      /\ n.cpu.r["fs"] = m.mem[c][s + 10]
      /\ n.cpu.r["es"] = m.mem[c][s + 11]
      /\ n.cpu.r["ds"] = m.mem[c][s + 12]
  <2>1. /\ IsMachine(m) /\ c = m.cpu.page /\ s = m.cpu.sp
        /\ s + 17 <= PageWords
    BY <1>2, <1>5
  <2> QED BY ONLY <2>1, StubEndedIs DEF n
<1>7. /\ n.cpu.pc = own[c].pc /\ n.cpu.intr_on = TRUE
      /\ n.cpu.r["edi"] = own[c].r["edi"] /\ n.cpu.r["esi"] = own[c].r["esi"]
      /\ n.cpu.r["ebp"] = own[c].r["ebp"] /\ n.cpu.r["ebx"] = own[c].r["ebx"]
      /\ n.cpu.r["edx"] = own[c].r["edx"] /\ n.cpu.r["ecx"] = own[c].r["ecx"]
      /\ n.cpu.r["eax"] = own[c].r["eax"] /\ n.cpu.r["gs"] = own[c].r["gs"]
      /\ n.cpu.r["fs"] = own[c].r["fs"] /\ n.cpu.r["es"] = own[c].r["es"]
      /\ n.cpu.r["ds"] = own[c].r["ds"]
  <2> DEFINE on == TRUE
  <2>1. on = TRUE
    OBVIOUS
  <2> HIDE DEF on
  <2>2. m.mem[c][s + 16] = Flags(on)
    BY <1>4, <1>5, <2>1 DEF GateFrame, Below
  <2>3. n.cpu.intr_on = on
    BY <1>6, <2>2, FlagsParts
  <2> QED BY <1>4, <1>5, <1>6, <2>1, <2>3 DEF GateFrame, Below
<1>8. n.cpu.r = own[c].r
  <2>1. /\ n.cpu.r = [x \in Register |-> n.cpu.r[x]]
        /\ own[c].r = [x \in Register |-> own[c].r[x]]
    BY <1>2, <1>4, <1>6 DEF IsMachine, OwnInv, IsOwn
  <2>2. \A x \in Register : n.cpu.r[x] = own[c].r[x]
    BY <1>7 DEF Register, General, Segments
  <2> QED BY <2>1, <2>2
<1>9. KeptInv(n) /\ SuspendedInv(n)
  BY <1>2, <1>4, <1>5, <1>6, OthersKept
<1>10. Stack(n, c, S) = own[c].stack
  <2>1. own[c].stack = [i \in S .. PageWords - 1 |-> own[c].stack[i]]
    BY <1>2, <1>4, <1>5 DEF OwnInv, IsOwn
  <2>2. \A i \in S .. PageWords - 1 : n.mem[c][i] = own[c].stack[i]
    <3>1. \A i \in S .. PageWords - 1 : i \in Rows /\ i >= S
      BY <1>2, <1>4, <1>5, OwnRoom, SwitchAssumption DEF Rows
    <3> QED BY <1>4, <1>5, <1>9, <3>1 DEF KeptInv
  <2> QED BY <2>1, <2>2 DEF Stack
<1>11. Context(n) = own[c]
  <2>1. own[c] = [r |-> own[c].r, pc |-> own[c].pc, intr_on |-> TRUE,
                  sp |-> own[c].sp, stack |-> own[c].stack]
    BY <1>2, <1>4 DEF OwnInv, IsOwn
  <2>2. n.cpu.page = c /\ n.cpu.sp = S
    BY <1>5, <1>6
  <2> QED BY <1>5, <1>7, <1>8, <1>10, <2>1, <2>2 DEF Context
<1>12. BodyPoint(n)
  BY <1>2, <1>4, <1>6, <1>7, <1>11 DEF BodyPoint, OwnInv, IsOwn
<1>13. MachineInv(n)
  BY <1>6, <1>9, <1>12 DEF MachineInv, PointInv
<1> QED BY <1>1, <1>2, <1>13, HandlerStep

-----------------------------------------------------------------------------
(* The steps of the threads' own code *)

\* A step after which a thread is in its own code, on its own page
LEMMA OwnStep ==
    ASSUME IInv, NEW n, IsMachine(n), NEW c, c = cpu.page, n.cpu.page = c,
           c \in created, Own(n), UNCHANGED created,
           \A u \in Thread : u # c => n.mem[u] = mem[u],
           n.cpu.pc \in Bodies, n.cpu.intr_on = TRUE,
           NEW f \in {PageWords, Bottom + 2},
           f - MaxOwn <= n.cpu.sp, n.cpu.sp <= f,
           floor' = [floor EXCEPT ![c] = f],
           received' = [received EXCEPT ![c] = Arguments(c)]
    PROVE  IInv'
<1>1. StartInv /\ OwnInv /\ MachineInv(Machine) /\ c \in Thread
  BY DEF IInv, StartInv
<1>2. /\ cpu' = n.cpu /\ mem' = n.mem
      /\ own' = [own EXCEPT ![c] = Context(n)]
  BY DEF Own, Becomes
<1>3. /\ received = [t \in Thread |-> received[t]]
      /\ own = [t \in Thread |-> own[t]] /\ floor = [t \in Thread |-> floor[t]]
  BY <1>1 DEF StartInv, OwnInv, IsOwn
<1>4. /\ received' = [t \in Thread |-> received'[t]] /\ received'[c] = Arguments(c)
      /\ \A t : t # c => received'[t] = received[t]
  BY <1>1, <1>3
<1>5. /\ own' = [t \in Thread |-> own'[t]] /\ own'[c] = Context(n)
      /\ \A t : t # c => own'[t] = own[t]
  BY <1>1, <1>2, <1>3
<1>6. /\ floor' = [t \in Thread |-> floor'[t]] /\ floor'[c] = f
      /\ \A t : t # c => floor'[t] = floor[t]
  BY <1>1, <1>3
<1>7. Started' = Started \cup {c}
  BY <1>4, StartedIs DEF Started
<1>8. StartInv'
  BY <1>1, <1>4 DEF StartInv
<1>9. /\ n.cpu.r = [x \in Register |-> n.cpu.r[x]] /\ n.cpu.sp \in Int
  BY DEF IsMachine
<1> DEFINE context == Context(n)
<1>10. /\ context = [r |-> n.cpu.r, pc |-> n.cpu.pc, intr_on |-> n.cpu.intr_on,
                     sp |-> n.cpu.sp, stack |-> Stack(n, c, n.cpu.sp)]
       /\ context.r = n.cpu.r /\ context.pc = n.cpu.pc
       /\ context.sp = n.cpu.sp /\ context.stack = Stack(n, c, n.cpu.sp)
  BY DEF Context
<1>11. own'[c] = context
  BY <1>5
<1> HIDE DEF context
<1>12. /\ own'[c] = [r |-> own'[c].r, pc |-> own'[c].pc, intr_on |-> TRUE,
                     sp |-> own'[c].sp, stack |-> own'[c].stack]
       /\ own'[c].r = n.cpu.r /\ own'[c].pc = n.cpu.pc
       /\ own'[c].sp = n.cpu.sp /\ own'[c].stack = Stack(n, c, n.cpu.sp)
  BY <1>10, <1>11
<1>13. /\ own'[c].stack = [i \in own'[c].sp .. PageWords - 1 |->
                              own'[c].stack[i]]
       /\ \A i \in own'[c].sp .. PageWords - 1 :
             own'[c].stack[i] = n.mem[c][i]
  BY <1>12 DEF Stack
<1>14. OwnInv'
  <2>1. IsOwn(own'[c], floor'[c])
    BY <1>6, <1>9, <1>12, <1>13 DEF IsOwn
  <2>2. ASSUME NEW t \in Started'
        PROVE  IsOwn(own'[t], floor'[t])
    <3>1. CASE t # c
      <4>1. t \in Started /\ own'[t] = own[t] /\ floor'[t] = floor[t]
        BY <1>5, <1>6, <1>7, <2>2, <3>1
      <4> QED BY <1>1, <4>1 DEF OwnInv
    <3> QED BY <2>1, <3>1
  <2> QED BY <1>5, <1>6, <2>2 DEF OwnInv, IsOwn
<1>15. IsMachine(Machine)'
  BY <1>2 DEF IsMachine, Machine
<1>16. \A u \in Thread : u # c => mem'[u] = mem[u]
  BY <1>2
<1>17. KeptInv(Machine)'
  <2>1. ASSUME NEW t \in Started', NEW i \in Rows, i >= own'[t].sp
        PROVE  mem'[t][i] = own'[t].stack[i]
    <3>1. CASE t = c
      <4>1. i \in own'[c].sp .. PageWords - 1
        BY <1>9, <1>12, <2>1, <3>1, SwitchAssumption DEF Rows
      <4> QED BY <1>2, <1>13, <3>1, <4>1
    <3>2. CASE t # c
      <4>1. t \in Started /\ t \in Thread /\ own'[t] = own[t]
        BY <1>1, <1>5, <1>7, <2>1, <3>2 DEF Started, StartInv
      <4>2. KeptInv(Machine)
        BY <1>1 DEF MachineInv
      <4> QED BY <1>16, <2>1, <3>2, <4>1, <4>2, MachineIs DEF KeptInv
    <3> QED BY <3>1, <3>2
  <2> QED BY <2>1 DEF KeptInv, Machine
<1>18. SuspendedInv(Machine)'
  <2>1. ASSUME NEW t \in created, t # c
        PROVE  Suspended(Machine, t)'
    <3>1. Suspended(Machine, t) /\ t \in Thread
      BY <1>1, <2>1, MachineIs DEF MachineInv, SuspendedInv, StartInv
    <3>2. mem'[t] = mem[t] /\ own'[t] = own[t] /\ (t \in Started' <=> t \in Started)
      BY <1>5, <1>7, <1>16, <2>1, <3>1
    <3>3. \A j : Below(Machine, t, j)' = Below(Machine, t, j)
      BY <3>2 DEF Below, Machine
    <3>4. CASE t \in Started
      <4>1. /\ Machine.mem[t][0] = Addr(t, own[t].sp - 31)
            /\ GateFrame(Machine, t) /\ StubReturn(Machine, t)
            /\ HandlerReturn(Machine, t) /\ ScheduleFrame(Machine, t)
            /\ SwitchReturn(Machine, t) /\ SwitchFrame(Machine, t)
        BY <3>1, <3>4 DEF Suspended
      <4>2. /\ GateFrame(Machine, t)' /\ StubReturn(Machine, t)'
            /\ HandlerReturn(Machine, t)' /\ ScheduleFrame(Machine, t)'
            /\ SwitchReturn(Machine, t)' /\ SwitchFrame(Machine, t)'
        BY ZenonT(30), <3>2, <3>3, <4>1
           DEF GateFrame, StubReturn, HandlerReturn,
                                ScheduleFrame, SwitchReturn, SwitchFrame
      <4>3. Machine'.mem[t][0] = Addr(t, own'[t].sp - 31)
        BY <3>2, <4>1 DEF Machine
      <4> QED BY <3>2, <3>4, <4>2, <4>3 DEF Suspended
    <3>5. CASE t \notin Started
      BY <3>1, <3>2, <3>5 DEF Suspended, Machine
    <3> QED BY <3>4, <3>5
  <2> QED BY <1>2, <2>1 DEF SuspendedInv, Machine
<1>19. BodyPoint(Machine)'
  <2>1. Context(Machine)' = Context(n)
    BY <1>2 DEF Context, Stack, Machine
  <2>2. c \in Started' /\ cpu'.page = c /\ own'[c] = Context(n)
    BY <1>2, <1>5, <1>7
  <2> QED BY <1>2, <2>1, <2>2 DEF BodyPoint, Machine
<1> QED BY <1>8, <1>14, <1>15, <1>17, <1>18, <1>19 DEF IInv, MachineInv, PointInv

LEMMA InCodeIs ==
    ASSUME NEW m, IsMachine(m), NEW t, NEW k
    PROVE  LET n == InCode(m, t, k)
           IN  /\ IsMachine(n) /\ n.mem = m.mem
               /\ n.cpu.page = m.cpu.page /\ n.cpu.sp = m.cpu.sp
               /\ n.cpu.intr_on = m.cpu.intr_on /\ n.cpu.pc = <<"body", k>>
<1> DEFINE code == <<"body", k>>
           j == Jump(m, code)
           n == InCode(m, t, k)
           r == [x \in Register |-> IF x \in General THEN Data(t, x, k)
                                                     ELSE Selectors[x]]
<1>1. /\ n.cpu = [j.cpu EXCEPT !.r = r] /\ n.mem = j.mem
      /\ DOMAIN n = DOMAIN j
  BY DEF InCode, Jump
<1> HIDE DEF code
<1>2. /\ IsMachine(j) /\ j.mem = m.mem
      /\ j.cpu.page = m.cpu.page /\ j.cpu.sp = m.cpu.sp
      /\ j.cpu.intr_on = m.cpu.intr_on /\ j.cpu.pc = code
  BY JumpIs
<1>3. r = [x \in Register |-> r[x]]
  OBVIOUS
<1> HIDE DEF n, j, r
<1>4. /\ DOMAIN n.cpu = {"r", "page", "sp", "intr_on", "pc"}
      /\ n.cpu.r = r /\ n.cpu.page = j.cpu.page /\ n.cpu.sp = j.cpu.sp
      /\ n.cpu.intr_on = j.cpu.intr_on /\ n.cpu.pc = j.cpu.pc
  BY <1>1, <1>2 DEF IsMachine
<1>5. IsMachine(n)
  BY <1>1, <1>2, <1>3, <1>4 DEF IsMachine
<1> QED BY <1>1, <1>2, <1>4, <1>5 DEF n, code

\* What a thread in its own code has got and where its stack begins stay.
LEMMA OwnBody ==
    ASSUME IInv, NEW c \in Started, UNCHANGED <<created, floor, received>>
    PROVE  /\ c \in created /\ own[c].pc \in Bodies
           /\ own[c].sp \in Int /\ own[c].sp - 1 >= PcbWords
           /\ floor[c] \in {PageWords, Bottom + 2}
           /\ floor[c] - MaxOwn <= own[c].sp /\ own[c].sp <= floor[c]
           /\ floor' = [floor EXCEPT ![c] = floor[c]]
           /\ received' = [received EXCEPT ![c] = Arguments(c)]
<1>1. StartInv /\ OwnInv
  BY DEF IInv
<1>2. c \in created /\ received[c] = Arguments(c) /\ c \in Thread
  BY <1>1, OwnRoom
<1>3. /\ floor = [t \in Thread |-> floor[t]]
      /\ received = [t \in Thread |-> received[t]]
  BY <1>1 DEF OwnInv, StartInv
<1>4. /\ floor[c] \in {PageWords, Bottom + 2} /\ own[c].pc \in Bodies
      /\ floor[c] - MaxOwn <= own[c].sp /\ own[c].sp <= floor[c]
  BY <1>1 DEF OwnInv, IsOwn
<1>7. own[c].sp \in Int /\ own[c].sp - 1 >= PcbWords
  BY <1>1, OwnRoom, SwitchAssumption
<1>5. floor' = [floor EXCEPT ![c] = floor[c]]
  BY <1>3
<1>6. received' = [received EXCEPT ![c] = Arguments(c)]
  BY <1>2, <1>3
<1> QED BY <1>2, <1>4, <1>5, <1>6, <1>7

LEMMA ComputeStep ==
    ASSUME NEW k \in {0, 1}, IInv, Compute(k)
    PROVE  IInv'
<1> DEFINE c == cpu.page
           n == InCode(Machine, c, k)
           f == floor[c]
<1>1. InBody(cpu) /\ Own(n) /\ UNCHANGED <<created, floor, received>>
  BY DEF Compute
<1>2. c = cpu.page
  OBVIOUS
<1> HIDE DEF c
<1>3. /\ c \in Started /\ cpu.sp = own[c].sp /\ cpu.intr_on = TRUE
      /\ IsMachine(Machine)
  BY <1>1, <1>2, InItsBody
<1>4. /\ IsMachine(n) /\ n.mem = Machine.mem
      /\ n.cpu.page = Machine.cpu.page /\ n.cpu.sp = Machine.cpu.sp
      /\ n.cpu.intr_on = Machine.cpu.intr_on /\ n.cpu.pc = <<"body", k>>
  BY <1>3, InCodeIs
<1> HIDE DEF n
<1>5. /\ n.cpu.page = c /\ n.cpu.sp = own[c].sp /\ n.cpu.pc \in Bodies
      /\ n.cpu.intr_on = TRUE /\ n.mem = mem
  BY <1>2, <1>3, <1>4, MachineIs DEF Bodies
<1>6. /\ c \in created /\ f \in {PageWords, Bottom + 2}
      /\ f - MaxOwn <= n.cpu.sp /\ n.cpu.sp <= f
      /\ floor' = [floor EXCEPT ![c] = f]
      /\ received' = [received EXCEPT ![c] = Arguments(c)]
  BY <1>1, <1>3, <1>5, OwnBody
<1> HIDE DEF f
<1> QED BY ZenonT(30), <1>1, <1>2, <1>4, <1>5, <1>6, OwnStep

LEMMA UseStackStep == IInv /\ UseStack => IInv'
<1> SUFFICES ASSUME IInv, UseStack
             PROVE  IInv'
  OBVIOUS
<1> DEFINE m == Machine
           c == cpu.page
           f == floor[c]
           word == cpu.r["eax"]
           one == 1
           pushed == Push(m, word)
           dropped == Drop(m, one)
<1>1. /\ InBody(cpu) /\ UNCHANGED <<created, floor, received>>
      /\ \/ floor[c] - cpu.sp < MaxOwn /\ Own(pushed)
         \/ cpu.sp < floor[c] /\ Own(dropped)
  BY DEF UseStack
<1>2. c = cpu.page /\ m.cpu = cpu /\ m.mem = mem /\ one = 1
  BY MachineIs
<1>3. /\ c \in Started /\ cpu.sp = own[c].sp /\ cpu.pc = own[c].pc
      /\ cpu.intr_on = TRUE /\ IsMachine(m)
  BY <1>1, InItsBody
<1> HIDE DEF c, m, word, one
<1>4. /\ c \in created /\ f \in {PageWords, Bottom + 2} /\ f = floor[c]
      /\ own[c].pc \in Bodies
      /\ own[c].sp \in Int /\ own[c].sp - 1 >= PcbWords
      /\ f - MaxOwn <= own[c].sp /\ own[c].sp <= f
      /\ floor' = [floor EXCEPT ![c] = f]
      /\ received' = [received EXCEPT ![c] = Arguments(c)]
  BY <1>1, <1>3, OwnBody
<1> HIDE DEF f
<1>5. f <= PageWords
  BY <1>4, SwitchAssumption DEF Bottom
<1>6. CASE floor[c] - cpu.sp < MaxOwn /\ Own(pushed)
  <2>1. m.cpu.sp - 1 >= PcbWords
    BY <1>2, <1>3, <1>4
  <2>2. /\ IsMachine(pushed)
        /\ pushed.cpu.page = c /\ pushed.cpu.sp = own[c].sp - 1
        /\ pushed.cpu.intr_on = TRUE /\ pushed.cpu.pc = own[c].pc
        /\ Keeps(m, pushed, c, own[c].sp)
    BY <1>2, <1>3, <2>1, PushIs
  <2> HIDE DEF pushed
  <2>3. f - MaxOwn <= pushed.cpu.sp /\ pushed.cpu.sp <= f
    BY <1>3, <1>4, <1>5, <1>6, <2>2, SwitchAssumption DEF Bottom
  <2>4. \A u \in Thread : u # c => pushed.mem[u] = mem[u]
    BY <1>2, <2>2 DEF Keeps
  <2>5. /\ IInv /\ c = cpu.page /\ c \in created /\ UNCHANGED created
        /\ f \in {PageWords, Bottom + 2}
        /\ floor' = [floor EXCEPT ![c] = f]
        /\ received' = [received EXCEPT ![c] = Arguments(c)]
        /\ Own(pushed) /\ pushed.cpu.pc \in Bodies
    BY <1>1, <1>2, <1>4, <1>6, <2>2
  <2> QED BY ONLY <2>2, <2>3, <2>4, <2>5, OwnStep
<1>7. CASE cpu.sp < floor[c] /\ Own(dropped)
  <2>1. one \in Int /\ m.cpu.sp + one \in 0 .. PageWords
    BY <1>2, <1>3, <1>4, <1>5, <1>7, SwitchAssumption DEF Bottom
  <2>2. /\ IsMachine(dropped)
        /\ dropped.cpu.page = c /\ dropped.cpu.sp = own[c].sp + 1
        /\ dropped.cpu.intr_on = TRUE /\ dropped.cpu.pc = own[c].pc
        /\ Keeps(m, dropped, c, own[c].sp + 1)
    BY <1>2, <1>3, <2>1, DropIs
  <2> HIDE DEF dropped
  <2>3. f - MaxOwn <= dropped.cpu.sp /\ dropped.cpu.sp <= f
    BY <1>3, <1>4, <1>5, <1>7, <2>2, SwitchAssumption DEF Bottom
  <2>4. \A u \in Thread : u # c => dropped.mem[u] = mem[u]
    BY <1>2, <2>2 DEF Keeps
  <2>5. /\ IInv /\ c = cpu.page /\ c \in created /\ UNCHANGED created
        /\ f \in {PageWords, Bottom + 2}
        /\ floor' = [floor EXCEPT ![c] = f]
        /\ received' = [received EXCEPT ![c] = Arguments(c)]
        /\ Own(dropped) /\ dropped.cpu.pc \in Bodies
    BY <1>1, <1>2, <1>4, <1>7, <2>2
  <2> QED BY ONLY <2>2, <2>3, <2>4, <2>5, OwnStep
<1> QED BY <1>1, <1>6, <1>7

LEMMA KernelThreadStep == IInv /\ KernelThread => IInv'
<1> SUFFICES ASSUME IInv, KernelThread
             PROVE  IInv'
  OBVIOUS
<1> DEFINE m == Machine
           c == cpu.page
           n == KernelEntered(m)
           f == n.cpu.sp
           s == Bottom + 5
<1>1. /\ At("kernel_thread") /\ UNCHANGED created /\ Own(n)
      /\ floor' = [floor EXCEPT ![c] = f]
      /\ received' = [received EXCEPT
                         ![c] = <<Peek(Enter(m), 2), Peek(Enter(m), 3)>>]
  BY DEF KernelThread, KernelEntered
<1>2. /\ m.cpu = cpu /\ m.mem = mem /\ IsMachine(m) /\ MachineInv(m)
      /\ StartInv /\ c = m.cpu.page /\ c = cpu.page
  BY MachineIs DEF IInv, MachineInv
<1> HIDE DEF m, c, n
<1>3. NewPoint(m)
  BY <1>1, <1>2, WhereItIs DEF MachineInv, At
<1>4. /\ c \in created /\ m.cpu.sp = Bottom + 5
      /\ m.mem[c][Bottom + 6] = Func(c) /\ m.mem[c][Bottom + 7] = Arg(c)
  BY <1>2, <1>3 DEF NewPoint
<1>5. /\ s = m.cpu.sp /\ s - 3 >= PcbWords /\ s + 2 < PageWords
      /\ s - 3 = Bottom + 2 /\ s + 1 = Bottom + 6 /\ s + 2 = Bottom + 7
      /\ Bottom \in Int
  BY <1>4, SwitchAssumption DEF Bottom
<1> HIDE DEF s
<1>6. EnteredAt(m, n, c, s)
  <2>1. /\ IsMachine(m) /\ c = m.cpu.page /\ s = m.cpu.sp
        /\ s - 3 >= PcbWords /\ s + 2 < PageWords
    BY <1>2, <1>5
  <2> QED BY ONLY <2>1, KernelEnteredIs DEF n
<1>7. received' = [received EXCEPT ![c] = Arguments(c)]
  BY <1>1, <1>4, <1>5, <1>6 DEF Arguments, EnteredAt
<1>8. \A u \in Thread : u # c => n.mem[u] = mem[u]
  BY <1>2, <1>6 DEF Keeps, EnteredAt
<1>9. /\ f \in {PageWords, Bottom + 2} /\ f - MaxOwn <= n.cpu.sp
      /\ n.cpu.sp <= f
  BY <1>5, <1>6, SwitchAssumption DEF EnteredAt
<1> HIDE DEF f
<1>10. n.cpu.pc \in Bodies /\ n.cpu.intr_on = TRUE
  BY <1>6 DEF Bodies, EnteredAt
<1>11. /\ IInv /\ c = cpu.page /\ c \in created /\ UNCHANGED created
       /\ floor' = [floor EXCEPT ![c] = f] /\ Own(n)
       /\ IsMachine(n) /\ n.cpu.page = c
  BY <1>1, <1>2, <1>4, <1>6 DEF EnteredAt
<1> QED BY ONLY <1>7, <1>8, <1>9, <1>10, <1>11, OwnStep

\* thread_create lays out what the first switch to the thread will pop.
LEMMA ThreadCreateStep ==
    ASSUME NEW t \in Thread, IInv, ThreadCreate(t)
    PROVE  IInv'
<1> DEFINE c == cpu.page
           fields == <<Zero, Zero, Zero, Zero, Code("kernel_thread"), Junk,
                       Func(t), Arg(t)>>
           row == [i \in DOMAIN mem[t] |->
                      IF i = 0 THEN Addr(t, Bottom)
                      ELSE IF i \in Bottom .. Bottom + 7
                           THEN fields[i - Bottom + 1]
                      ELSE mem[t][i]]
<1>1. /\ InBody(cpu) /\ t \notin created /\ created' = created \cup {t}
      /\ UNCHANGED <<cpu, own, floor, received>>
      /\ mem' = [mem EXCEPT ![t] = row]
  BY DEF ThreadCreate, Bottom
<1>2. /\ StartInv /\ OwnInv /\ MachineInv(Machine) /\ IsMachine(Machine)
      /\ c = cpu.page /\ c \in Started /\ BodyPoint(Machine)
  BY <1>1, InItsBody DEF IInv
<1> HIDE DEF c
<1>3. DOMAIN mem = Thread /\ DOMAIN mem[t] = Rows
  BY <1>2, MachineIs DEF IsMachine
<1>4. /\ Bottom \in Rows /\ 0 \in Rows /\ Bottom > 0 /\ Bottom \in Int
      /\ Bottom + 4 \in Rows /\ Bottom + 6 \in Rows /\ Bottom + 7 \in Rows
      /\ Bottom + 4 - Bottom + 1 = 5 /\ Bottom + 6 - Bottom + 1 = 7
      /\ Bottom + 7 - Bottom + 1 = 8
      /\ Bottom + 4 \in Bottom .. Bottom + 7 /\ Bottom + 4 # 0
      /\ Bottom + 6 \in Bottom .. Bottom + 7 /\ Bottom + 6 # 0
      /\ Bottom + 7 \in Bottom .. Bottom + 7 /\ Bottom + 7 # 0
  BY NewRoom, SwitchAssumption DEF Bottom
<1>5. /\ fields[5] = Code("kernel_thread") /\ fields[7] = Func(t)
      /\ fields[8] = Arg(t)
  OBVIOUS
<1> HIDE DEF fields
<1>6. /\ row[0] = Addr(t, Bottom) /\ row[Bottom + 4] = Code("kernel_thread")
      /\ row[Bottom + 6] = Func(t) /\ row[Bottom + 7] = Arg(t)
      /\ DOMAIN row = Rows
  BY <1>3, <1>4, <1>5
<1> HIDE DEF row
<1>7. /\ mem'[t] = row /\ DOMAIN mem' = Thread
      /\ \A u \in Thread : u # t => mem'[u] = mem[u]
  BY <1>1, <1>3
<1>8. t \notin Started /\ Started' = Started
  <2>1. received[t] = <<Junk, Junk>>
    BY <1>1, <1>2 DEF StartInv
  <2> QED BY <1>1, <2>1 DEF Started
<1>9. \A u \in created : u \in Thread /\ u # t
  BY <1>1, <1>2 DEF StartInv
<1>10. StartInv'
  BY <1>1, <1>2 DEF StartInv
<1>11. OwnInv'
  BY <1>1, <1>2, <1>8 DEF OwnInv, IsOwn
<1>12. IsMachine(Machine)'
  BY <1>1, <1>2, <1>6, <1>7 DEF IsMachine, Machine
<1>13. \A u \in Started : u \in created
  BY DEF Started
<1>14. KeptInv(Machine)'
  <2>1. KeptInv(Machine)
    BY <1>2 DEF MachineInv
  <2> QED BY <1>1, <1>7, <1>8, <1>9, <1>13, <2>1 DEF KeptInv, Machine
<1>15. SuspendedInv(Machine)'
  <2>1. Suspended(Machine, t)'
    BY <1>6, <1>7, <1>8 DEF Suspended, Machine
  <2>2. ASSUME NEW u \in created, u # c
        PROVE  Suspended(Machine, u)'
    <3>1. Suspended(Machine, u)
      BY <1>2, <2>2, MachineIs DEF MachineInv, SuspendedInv
    <3>2. mem'[u] = mem[u] /\ own'[u] = own[u]
      BY <1>1, <1>7, <1>9
    <3>3. \A j : Below(Machine, u, j)' = Below(Machine, u, j)
      BY <3>2 DEF Below, Machine
    <3>4. CASE u \in Started
      <4>1. /\ Machine.mem[u][0] = Addr(u, own[u].sp - 31)
            /\ GateFrame(Machine, u) /\ StubReturn(Machine, u)
            /\ HandlerReturn(Machine, u) /\ ScheduleFrame(Machine, u)
            /\ SwitchReturn(Machine, u) /\ SwitchFrame(Machine, u)
        BY <3>1, <3>4 DEF Suspended
      <4>2. /\ GateFrame(Machine, u)' /\ StubReturn(Machine, u)'
            /\ HandlerReturn(Machine, u)' /\ ScheduleFrame(Machine, u)'
            /\ SwitchReturn(Machine, u)' /\ SwitchFrame(Machine, u)'
        BY <3>2, <3>3, <4>1 DEF GateFrame, StubReturn, HandlerReturn,
                                ScheduleFrame, SwitchReturn, SwitchFrame
      <4>3. Machine'.mem[u][0] = Addr(u, own'[u].sp - 31)
        BY <3>2, <4>1 DEF Machine
      <4> QED BY <1>8, <3>4, <4>2, <4>3 DEF Suspended
    <3>5. CASE u \notin Started
      BY <1>8, <3>1, <3>2, <3>5 DEF Suspended, Machine
    <3> QED BY <3>4, <3>5
  <2>3. \A u \in created' : u # cpu'.page => Suspended(Machine, u)'
    BY <1>1, <1>2, <2>1, <2>2
  <2> QED BY <2>3 DEF SuspendedInv, Machine
<1>16. BodyPoint(Machine)'
  <2>1. mem'[c] = mem[c]
    BY <1>7, <1>9, <1>2, <1>13
  <2>2. Context(Machine)' = Context(Machine)
    <3>1. mem'[cpu.page] = mem[cpu.page] /\ cpu' = cpu
      BY <1>1, <1>2, <2>1
    <3>2. Stack(Machine, cpu.page, cpu.sp)' = Stack(Machine, cpu.page, cpu.sp)
      BY ONLY <3>1 DEF Stack, Machine
    <3> QED BY ONLY <3>1, <3>2 DEF Context, Machine
  <2> QED BY <1>1, <1>2, <1>8, <2>2, MachineIs DEF BodyPoint, Machine
<1> QED BY <1>10, <1>11, <1>12, <1>14, <1>15, <1>16
        DEF IInv, MachineInv, PointInv

-----------------------------------------------------------------------------
(* The invariant and what follows from it *)

LEMMA InitInv == Init => IInv
<1> SUFFICES ASSUME Init
             PROVE  IInv
  OBVIOUS
<1> DEFINE r0 == Selectors
           before == [cpu |-> [r |-> r0, page |-> MainThread,
                               sp |-> PageWords, intr_on |-> TRUE,
                               pc |-> Junk],
                      mem |-> [t \in Thread |-> Page0]]
           r1 == [x \in Register |-> IF x \in General
                                     THEN Data(MainThread, x, 0)
                                     ELSE Selectors[x]]
           body == <<"body", 0>>
           start == InCode(before, MainThread, 0)
<1>1. /\ cpu = start.cpu /\ mem = start.mem /\ created = {MainThread}
      /\ own = [t \in Thread |-> Context(start)]
      /\ floor = [t \in Thread |-> PageWords]
      /\ received = [t \in Thread |-> IF t = MainThread THEN Arguments(t)
                                      ELSE <<Junk, Junk>>]
  BY DEF Init
<1>2. /\ start.cpu = [before.cpu EXCEPT !.pc = body, !.r = r1]
      /\ start.mem = [t \in Thread |-> Page0]
  BY DEF InCode, Jump
<1>3. r1 = [x \in Register |-> r1[x]] /\ body \in Bodies
  BY DEF Bodies
<1> HIDE DEF start, r0, r1, body
<1>4. /\ DOMAIN start.cpu = {"r", "page", "sp", "intr_on", "pc"}
      /\ start.cpu.r = r1 /\ start.cpu.page = MainThread
      /\ start.cpu.sp = PageWords /\ start.cpu.intr_on = TRUE
      /\ start.cpu.pc = body
  BY <1>2
<1> HIDE DEF before
<1>5. MainThread \in Thread /\ PageWords \in Nat
  BY SwitchAssumption
<1>6. Started = {MainThread}
  BY <1>1, <1>5, StartedIs DEF Started
<1>7. StartInv
  BY <1>1, <1>5 DEF StartInv
<1> DEFINE o == Context(start)
<1>8. /\ o = [r |-> r1, pc |-> body, intr_on |-> TRUE, sp |-> PageWords,
              stack |-> Stack(start, MainThread, PageWords)]
  BY <1>4 DEF Context
<1>9. own[MainThread] = o /\ own = [t \in Thread |-> own[t]]
  BY <1>1, <1>5
<1>10. /\ o.r = r1 /\ o.pc = body /\ o.sp = PageWords
       /\ o.stack = [i \in PageWords .. PageWords - 1 |-> o.stack[i]]
       /\ o = [r |-> o.r, pc |-> o.pc, intr_on |-> TRUE, sp |-> o.sp,
               stack |-> o.stack]
  BY <1>8 DEF Stack
<1> HIDE DEF o
<1>11. OwnInv
  <2>1. IsOwn(o, PageWords)
    BY <1>3, <1>5, <1>10, SwitchAssumption DEF IsOwn
  <2> QED BY <1>1, <1>5, <1>6, <1>9, <2>1 DEF OwnInv, IsOwn
<1>12. IsMachine(Machine)
  <2>1. \A t \in Thread : DOMAIN mem[t] = Rows
    BY <1>1, <1>2 DEF Page0, Rows
  <2>2. DOMAIN mem = Thread /\ PageWords \in 0 .. PageWords
    BY <1>1, <1>2, <1>5
  <2> QED BY <1>1, <1>3, <1>4, <1>5, <2>1, <2>2 DEF IsMachine, Machine
<1>13. KeptInv(Machine)
  <2>1. \A i \in Rows : ~(i >= own[MainThread].sp)
    BY <1>5, <1>9, <1>10 DEF Rows
  <2> QED BY <1>6, <2>1 DEF KeptInv
<1>14. SuspendedInv(Machine)
  BY <1>1, <1>4, MachineIs DEF SuspendedInv
<1>15. BodyPoint(Machine)
  <2>1. Context(Machine) = o
    BY <1>1 DEF Context, Stack, Machine, o
  <2> QED BY <1>1, <1>3, <1>4, <1>6, <1>9, <2>1, MachineIs DEF BodyPoint
<1> QED BY <1>7, <1>11, <1>12, <1>13, <1>14, <1>15
        DEF IInv, MachineInv, PointInv

LEMMA StepInv == IInv /\ [Next]_vars => IInv'
<1> SUFFICES ASSUME IInv, [Next]_vars
             PROVE  IInv'
  OBVIOUS
<1>1. ASSUME NEW k \in {0, 1}, Compute(k) PROVE IInv'
  BY <1>1, ComputeStep
<1>2. CASE UseStack
  BY <1>2, UseStackStep
<1>3. ASSUME NEW t \in Thread, ThreadCreate(t) PROVE IInv'
  BY <1>3, ThreadCreateStep
<1>4. CASE KernelThread
  BY <1>4, KernelThreadStep
<1>5. CASE Interrupt
  BY <1>5, InterruptStep
<1>6. CASE TimerHandler
  BY <1>6, TimerHandlerStep
<1>7. ASSUME NEW next \in Thread, Schedule(next) PROVE IInv'
  BY <1>7, ScheduleStep
<1>8. CASE SwitchTo
  BY <1>8, SwitchToStep
<1>9. CASE ScheduleEnd
  BY <1>9, ScheduleEndStep
<1>10. CASE HandlerEnd
  BY <1>10, HandlerEndStep
<1>11. CASE StubEnd
  BY <1>11, StubEndStep
<1>12. CASE UNCHANGED vars
  <2>1. Becomes(Machine) /\ UNCHANGED <<created, own, floor, received>>
    BY <1>12 DEF vars, Becomes, Machine
  <2>2. StartInv /\ OwnInv /\ MachineInv(Machine)
    BY DEF IInv
  <2> QED BY <2>1, <2>2, HandlerStep
<1> QED BY <1>1, <1>2, <1>3, <1>4, <1>5, <1>6, <1>7, <1>8, <1>9, <1>10,
           <1>11, <1>12 DEF Next

(* Between any two steps of the timer handler every kernel stack holds the  *)
(* words that the code below it in the call chain will pop                  *)
(* (kernel_interrupt.S:29-63; switch.S:13-38; thread.c:115-132).            *)
THEOREM StacksAsExpected == Spec => []IInv
<1> QED BY InitInv, StepInv, PTL DEF Spec

(* A thread that goes on in its own code after any number of interrupts and *)
(* switches has its registers, IF, ESP, EIP and stack as it left them       *)
(* (kernel_interrupt.S:29-63; switch.S:13-38).                              *)
THEOREM ContextComesBack == Spec => []ContextKept
<1>1. IInv => ContextKept
  <2> SUFFICES ASSUME IInv, InBody(cpu)
               PROVE  Context(Machine) = own[cpu.page]
    BY DEF ContextKept
  <2>1. BodyPoint(Machine)
    BY InItsBody
  <2> QED BY <2>1, MachineIs DEF BodyPoint
<1> QED BY <1>1, StacksAsExpected, PTL

(* ESP never gets down to a PCB, and what a thread's own code has on its    *)
(* stack is not written to while another thread or the handler runs         *)
(* (thread.h:105-117; timer.c:202).                                         *)
THEOREM StacksStayApart == Spec => []StacksApart
<1>1. IInv => StacksApart
  <2> SUFFICES ASSUME IInv
               PROVE  StacksApart
    OBVIOUS
  <2> DEFINE m == Machine
  <2>1. /\ StartInv /\ OwnInv /\ KeptInv(m) /\ PointInv(m) /\ IsMachine(m)
        /\ m.cpu = cpu /\ m.mem = mem
    BY MachineIs DEF IInv, MachineInv
  <2> HIDE DEF m
  <2>2. cpu.sp >= PcbWords
    <3>1. \A t \in Started : /\ own[t].sp \in Int
                             /\ own[t].sp - 31 >= PcbWords
      BY <2>1, OwnRoom
    <3>2. BodyPoint(m) => cpu.sp = own[cpu.page].sp /\ cpu.page \in Started
      BY <2>1 DEF BodyPoint, Context
    <3>3. NewPoint(m) => cpu.sp = Bottom + 5
      BY <2>1 DEF NewPoint
    <3>4. \A k : EspAt(m, k) =>
                    cpu.sp = own[cpu.page].sp - k /\ cpu.page \in Started
      BY <2>1 DEF EspAt
    <3>5. \/ BodyPoint(m) \/ NewPoint(m)
          \/ EspAt(m, 18) \/ EspAt(m, 20) \/ EspAt(m, 27) \/ EspAt(m, 26)
          \/ EspAt(m, 19) \/ EspAt(m, 17)
      BY <2>1 DEF PointInv, HandlerPoint, SchedulePoint, SwitchPoint,
                  ScheduleEndPoint, HandlerEndPoint, StubPoint
    <3>6. CASE BodyPoint(m)
      BY <3>1, <3>2, <3>6, SwitchAssumption
    <3>7. CASE NewPoint(m)
      BY <3>3, <3>7, NewRoom, SwitchAssumption
    <3>8. ASSUME NEW k \in 17 .. 27, EspAt(m, k)
          PROVE  cpu.sp >= PcbWords
      BY <3>1, <3>4, <3>8, SwitchAssumption
    <3> QED BY <3>5, <3>6, <3>7, <3>8
  <2>3. ASSUME NEW t \in created, received[t] # <<Junk, Junk>>
        PROVE  Stack(m, t, own[t].sp) = own[t].stack
    <3>1. t \in Started
      BY <2>3 DEF Started
    <3>2. own[t].stack = [i \in own[t].sp .. PageWords - 1 |->
                             own[t].stack[i]]
      BY <2>1, <3>1 DEF OwnInv, IsOwn
    <3>3. \A i \in own[t].sp .. PageWords - 1 : i \in Rows /\ i >= own[t].sp
      BY <2>1, <3>1, OwnRoom, SwitchAssumption DEF Rows
    <3>4. \A i \in own[t].sp .. PageWords - 1 : m.mem[t][i] = own[t].stack[i]
      BY <2>1, <3>1, <3>3 DEF KeptInv
    <3> QED BY <3>2, <3>4 DEF Stack
  <2> QED BY <2>2, <2>3 DEF StacksApart, m
<1> QED BY <1>1, StacksAsExpected, PTL

(* When switch_to returns to a schedule that called it, EBX, ESI and EDI    *)
(* hold what that schedule had in them (switch.S:14-37; thread.h:66-77).    *)
THEOREM CalleeSavedComesBack == Spec => []CalleeSaved
<1>1. IInv => CalleeSaved
  <2> SUFFICES ASSUME IInv, At("schedule_end")
               PROVE  \A r \in {"ebx", "esi", "edi"} :
                         cpu.r[r] = Temp(cpu.page, r)
    BY DEF CalleeSaved
  <2>1. ScheduleEndPoint(Machine)
    BY MachineIs, WhereItIs DEF IInv, MachineInv, At
  <2> QED BY <2>1, MachineIs DEF ScheduleEndPoint, TempsIn
<1> QED BY <1>1, StacksAsExpected, PTL

(* kernel_thread gets the function and the argument thread_create was given,*)
(* although it is entered by the ret of switch_to (thread.c:108-132).       *)
THEOREM NewThreadsGetArguments == Spec => []FirstRunArguments
<1>1. IInv => FirstRunArguments
  BY DEF IInv, StartInv, FirstRunArguments
<1> QED BY <1>1, StacksAsExpected, PTL
=============================================================================
