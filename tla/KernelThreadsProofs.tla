------------------------ MODULE KernelThreadsProofs -------------------------
(***************************************************************************)
(* Proofs of the safety properties of KernelThreads, for any set of        *)
(* threads, any priorities and any number of threads that create threads.  *)
(***************************************************************************)
EXTENDS KernelThreadsInv, SequenceTheorems, TLAPS

-----------------------------------------------------------------------------
(* Facts about the data *)

LEMMA FreshType ==
    ASSUME NEW p \in ThreadPoints \cup HandlerPoints
    PROVE  Fresh(p) \in Activation /\ Fresh(p).pc = p /\ Fresh(p).cs = "out"
BY DEF Fresh, Activation

LEMMA TopType == TypeOK => Top \in Activation /\ depth[cur] \in 0..MaxDepth
BY DEF TypeOK, Top

LEMMA StoredPriorityType ==
    /\ StoredPriority \in [Thread -> 0..255]
    /\ \A t \in Thread : StoredPriority[t] \in 0..255
<1>1. ASSUME NEW t \in Thread PROVE Priority[t] % 256 \in 0..255
  <2>1. Priority[t] \in Int
    BY ThreadAssumption
  <2> QED BY <2>1
<1> QED BY <1>1 DEF StoredPriority

LEMMA MembersAppend ==
    ASSUME NEW S, NEW q \in Seq(S), NEW e \in S
    PROVE  /\ Append(q, e) \in Seq(S)
           /\ Members(Append(q, e)) = Members(q) \cup {e}
           /\ NoDuplicates(q) /\ e \notin Members(q)
                 => NoDuplicates(Append(q, e))
<1> DEFINE r == Append(q, e)
<1>1. /\ r \in Seq(S)
      /\ DOMAIN q = 1..Len(q) /\ Len(q) \in Nat
      /\ DOMAIN r = 1..(Len(q) + 1)
      /\ \A i \in 1..Len(q) : r[i] = q[i]
      /\ r[Len(q) + 1] = e
  BY AppendProperties, LenProperties
<1> HIDE DEF r
<1>2. 1..(Len(q) + 1) = (1..Len(q)) \cup {Len(q) + 1}
  BY <1>1, SMT
<1>3. Members(r) = Members(q) \cup {e}
  <2>1. Members(r) \subseteq Members(q) \cup {e}
    BY <1>1, <1>2 DEF Members
  <2>2. Members(q) \subseteq Members(r)
    <3> SUFFICES ASSUME NEW i \in 1..Len(q) PROVE q[i] \in Members(r)
      BY <1>1 DEF Members
    <3>1. i \in DOMAIN r /\ r[i] = q[i]
      BY <1>1, <1>2
    <3> QED BY <3>1 DEF Members
  <2>3. e \in Members(r)
    <3>1. Len(q) + 1 \in DOMAIN r
      BY <1>1, <1>2
    <3> QED BY <3>1, <1>1 DEF Members
  <2> QED BY <2>1, <2>2, <2>3
<1>4. ASSUME NoDuplicates(q), e \notin Members(q) PROVE NoDuplicates(r)
  <2> SUFFICES ASSUME NEW i \in DOMAIN r, NEW j \in DOMAIN r, r[i] = r[j]
               PROVE  i = j
    BY DEF NoDuplicates
  <2>1. \A k \in 1..Len(q) : r[k] # e
    BY <1>1, <1>4 DEF Members
  <2> QED BY <1>1, <1>2, <1>4, <2>1 DEF NoDuplicates
<1> QED BY <1>1, <1>3, <1>4 DEF r

LEMMA MembersTail ==
    ASSUME NEW S, NEW q \in Seq(S), q # <<>>
    PROVE  /\ Head(q) \in S /\ Tail(q) \in Seq(S)
           /\ Members(q) = Members(Tail(q)) \cup {Head(q)}
           /\ NoDuplicates(q) => /\ Head(q) \notin Members(Tail(q))
                                 /\ NoDuplicates(Tail(q))
<1> DEFINE r == Tail(q)
<1>1. /\ r \in Seq(S) /\ Head(q) \in S
      /\ Len(q) \in Nat \ {0}
      /\ DOMAIN q = 1..Len(q)
      /\ DOMAIN r = 1..(Len(q) - 1)
      /\ \A i \in 1..(Len(q) - 1) : r[i] = q[i + 1]
      /\ Head(q) = q[1]
  <2>1. r \in Seq(S) /\ Head(q) \in S /\ Len(r) = Len(q) - 1
        /\ \A i \in 1..Len(r) : r[i] = q[i + 1]
    BY HeadTailProperties
  <2>2. DOMAIN r = 1..Len(r) /\ DOMAIN q = 1..Len(q) /\ Len(q) \in Nat \ {0}
    BY <2>1, LenProperties, EmptySeq
  <2>3. Head(q) = q[1]
    OBVIOUS
  <2> QED BY <2>1, <2>2, <2>3
<1> HIDE DEF r
<1>2. Members(q) = Members(r) \cup {Head(q)}
  <2>1. ASSUME NEW i \in DOMAIN q PROVE q[i] \in Members(r) \cup {Head(q)}
    <3>1. CASE i = 1
      BY <3>1, <1>1
    <3>2. CASE i # 1
      <4>1. i - 1 \in DOMAIN r /\ r[i - 1] = q[i]
        BY <3>2, <1>1, <2>1
      <4> QED BY <4>1 DEF Members
    <3> QED BY <3>1, <3>2
  <2>2. ASSUME NEW i \in DOMAIN r PROVE r[i] \in Members(q)
    <3>1. i + 1 \in DOMAIN q /\ r[i] = q[i + 1]
      BY <1>1, <2>2
    <3> QED BY <3>1 DEF Members
  <2>3. Head(q) \in Members(q)
    <3>1. 1 \in DOMAIN q
      BY <1>1
    <3> QED BY <3>1, <1>1 DEF Members
  <2> QED BY <2>1, <2>2, <2>3 DEF Members
<1>3. ASSUME NoDuplicates(q)
      PROVE  Head(q) \notin Members(r) /\ NoDuplicates(r)
  <2>1. \A i \in DOMAIN r : i + 1 \in DOMAIN q /\ i + 1 # 1
                             /\ r[i] = q[i + 1]
    BY <1>1
  <2>2. Head(q) \notin Members(r)
    <3>1. \A i \in DOMAIN r : r[i] # q[1]
      BY <1>1, <1>3, <2>1 DEF NoDuplicates
    <3> QED BY <3>1, <1>1 DEF Members
  <2>3. NoDuplicates(r)
    BY <1>1, <1>3, <2>1 DEF NoDuplicates
  <2> QED BY <2>2, <2>3
<1> QED BY <1>1, <1>2, <1>3 DEF r

\* A step that changes only the activation on top of the running stack.
LEMMA TopUpdate ==
    ASSUME TypeOK, NEW f \in Activation, cur' = cur, depth' = depth,
           frame' = [frame EXCEPT ![cur][depth[cur]] = f]
    PROVE  /\ frame' \in [Thread -> [0..MaxDepth -> Activation]]
           /\ Top' = f
           /\ frame'[cur][depth[cur]] = f
           /\ \A t \in Thread \ {cur} : frame'[t] = frame[t]
           /\ \A d \in 0..MaxDepth \ {depth[cur]} :
                 frame'[cur][d] = frame[cur][d]
BY DEF TypeOK, Top

\* A step that changes only the handler activation of the running stack.
LEMMA HandlerUpdate ==
    ASSUME frame \in [Thread -> [0..MaxDepth -> Activation]], cur \in Thread,
           NEW f \in Activation, frame' = [frame EXCEPT ![cur][1] = f]
    PROVE  /\ frame' \in [Thread -> [0..MaxDepth -> Activation]]
           /\ frame'[cur][1] = f
           /\ \A t \in Thread : frame'[t][0] = frame[t][0]
           /\ \A t \in Thread \ {cur} : frame'[t] = frame[t]
<1>1. 0 \in 0..MaxDepth /\ 1 \in 0..MaxDepth
  BY ThreadAssumption
<1>2. frame[cur] \in [0..MaxDepth -> Activation]
  OBVIOUS
<1>3. /\ frame' \in [Thread -> [0..MaxDepth -> Activation]]
      /\ frame'[cur] = [frame[cur] EXCEPT ![1] = f]
      /\ \A t \in Thread \ {cur} : frame'[t] = frame[t]
  BY <1>1, <1>2
<1>4. frame'[cur][1] = f /\ frame'[cur][0] = frame[cur][0]
  BY <1>1, <1>2, <1>3
<1> QED BY <1>3, <1>4

-----------------------------------------------------------------------------
(* The control invariant *)

\* A step of the running thread within its top activation keeps every stack
\* well formed if the new activation fits the level it is on.
LEMMA StackStep ==
    ASSUME ControlInv, NEW f \in Activation, cur' = cur, depth' = depth,
           frame' = [frame EXCEPT ![cur][depth[cur]] = f],
           Created \subseteq Created',
           depth[cur] = 0 =>
             /\ f.pc \in ThreadPoints
             /\ f.cs # "out" => f.pc \in {"create_ready", "create_all"},
           depth[cur] = 1 =>
             /\ f.pc \in HandlerPoints
             /\ f.cs # "out" =>
                  f.pc \in {"sched_append", "sched_pop"} /\ ~f.old
    PROVE  /\ frame' \in [Thread -> [0..MaxDepth -> Activation]]
           /\ Top' = f
           /\ \A t \in Thread : Shape(t)'
           /\ \A t \in Thread \ {cur} : Suspended(t)'
           /\ cur' \in Created'
           /\ frame'[cur][depth[cur]] = f
           /\ \A t \in Thread \ {cur} : frame'[t] = frame[t]
           /\ depth[cur] = 1 => frame'[cur][0] = frame[cur][0]
<1>1. /\ frame' \in [Thread -> [0..MaxDepth -> Activation]]
      /\ Top' = f
      /\ frame'[cur][depth[cur]] = f
      /\ \A t \in Thread \ {cur} : frame'[t] = frame[t]
      /\ \A d \in 0..MaxDepth \ {depth[cur]} : frame'[cur][d] = frame[cur][d]
  BY TopUpdate DEF ControlInv
<1>2. 0 \in 0..MaxDepth /\ cur \in Thread /\ depth[cur] \in {0, 1}
  BY ThreadAssumption DEF ControlInv, TypeOK, Shape
<1>3. ASSUME NEW t \in Thread PROVE Shape(t)'
  <2>1. CASE t # cur
    BY <1>1, <2>1 DEF ControlInv, Shape
  <2>2. CASE t = cur /\ depth[cur] = 0
    BY <1>1, <1>2, <2>2 DEF Shape
  <2>3. CASE t = cur /\ depth[cur] = 1
    <3>1. frame'[cur][0] = frame[cur][0]
      BY <1>1, <1>2, <2>3
    <3>2. /\ frame[cur][0].pc \in ThreadPoints
          /\ frame[cur][0].pc # "start"
          /\ frame[cur][0].cs = "out"
      BY <1>2, <2>3 DEF ControlInv, Shape
    <3>3. depth'[cur] = 1 /\ frame'[cur][1] = f
      BY <1>1, <2>3
    <3> QED BY <2>3, <3>1, <3>2, <3>3 DEF Shape
  <2> QED BY <1>2, <2>1, <2>2, <2>3
<1>4. ASSUME NEW t \in Thread \ {cur} PROVE Suspended(t)'
  BY <1>1, <1>4 DEF ControlInv, Suspended
<1>5. cur' \in Created'
  BY DEF ControlInv
<1> QED BY <1>1, <1>2, <1>3, <1>4, <1>5

\* TypeOK without the variables StackStep takes care of
DataTypeOK ==
    /\ intr_on \in BOOLEAN
    /\ request \in BOOLEAN
    /\ in_service \in BOOLEAN
    /\ status \in [Thread -> {"NONE", "READY", "RUNNING"}]
    /\ slice \in [Thread -> 0..255]
    /\ elapsed \in [Thread -> 0..TickModulus - 1]
    /\ ticks \in 0..TickModulus - 1
    /\ ready \in Seq(Thread)
    /\ all \in Seq(Thread)
    /\ thread_tag \in Thread
    /\ newborn \in [Thread -> Thread]
    /\ panic \in BOOLEAN

\* What is left to show of a step within the top activation, whose new value
\* is f, to conclude that it keeps ControlInv.
LEMMA ControlStep ==
    ASSUME ControlInv, NEW f \in Activation, cur' = cur, depth' = depth,
           frame' = [frame EXCEPT ![cur][depth[cur]] = f],
           DataTypeOK',
           Created \subseteq Created',
           depth[cur] = 0 =>
             /\ f.pc \in ThreadPoints
             /\ f.cs # "out" => f.pc \in {"create_ready", "create_all"},
           depth[cur] = 1 =>
             /\ f.pc \in HandlerPoints
             /\ f.cs # "out" =>
                  f.pc \in {"sched_append", "sched_pop"} /\ ~f.old,
           depth[cur] = 1 \/ f.pc = "start" \/ f.cs # "out" => ~intr_on',
           in_service' => depth[cur] = 1 /\ f.pc = "eoi",
           Members(ready') \subseteq Created',
           \A t \in Thread : newborn'[t] = newborn[t] \/ t = cur,
           newborn'[cur] = newborn[cur] \/ depth[cur] = 0,
           depth[cur] = 0 /\ BeforeReady(f) => newborn'[cur] \in Created',
           f.pc = "sched_head" /\ ~panic' => ready' # <<>>,
           f.pc = "sched_pop" /\ f.cs # "done" /\ ~panic' =>
             ready' # <<>> /\ thread_tag' = Head(ready'),
           f.pc = "sched_switch" \/ f.pc = "sched_pop" =>
             thread_tag' \in Created'
    PROVE  ControlInv'
<1>1. /\ frame' \in [Thread -> [0..MaxDepth -> Activation]]
      /\ Top' = f
      /\ \A t \in Thread : Shape(t)'
      /\ \A t \in Thread \ {cur} : Suspended(t)'
      /\ cur' \in Created'
      /\ frame'[cur][depth[cur]] = f
      /\ \A t \in Thread \ {cur} : frame'[t] = frame[t]
      /\ depth[cur] = 1 => frame'[cur][0] = frame[cur][0]
  BY StackStep
<1>2. cur \in Thread /\ depth[cur] \in {0, 1}
  BY DEF ControlInv, TypeOK, Shape
<1>3. TypeOK'
  BY <1>1 DEF ControlInv, TypeOK, DataTypeOK
<1>4. Masked'
  BY <1>1 DEF Masked
<1>5. ASSUME NEW c \in Thread, BeforeReady(frame'[c][0])
      PROVE  newborn'[c] \in Created'
  <2>1. CASE c # cur
    BY <1>1, <1>5, <2>1 DEF ControlInv, NextExists
  <2>2. CASE c = cur /\ depth[cur] = 0
    BY <1>1, <1>5, <2>2
  <2>3. CASE c = cur /\ depth[cur] = 1
    BY <1>1, <1>5, <2>3 DEF ControlInv, NextExists
  <2> QED BY <1>2, <2>1, <2>2, <2>3
<1>6. NextExists'
  <2>1. \A c \in Thread : BeforeReady(frame[c][0])' => newborn'[c] \in Created'
    BY <1>5 DEF BeforeReady
  <2>2. Members(ready)' \subseteq Created'
    BY DEF Members
  <2> QED BY <1>1, <2>1, <2>2 DEF NextExists
<1> QED BY <1>1, <1>3, <1>4, <1>6 DEF ControlInv

LEMMA InitControl == Init => ControlInv
<1> SUFFICES ASSUME Init PROVE ControlInv
  OBVIOUS
<1>1. TypeOK
  <2>0. "start" \in ThreadPoints /\ "body" \in ThreadPoints
    BY DEF ThreadPoints
  <2>1. frame \in [Thread -> [0..MaxDepth -> Activation]]
    BY <2>0, FreshType DEF Init
  <2>2. slice \in [Thread -> 0..255]
    BY StoredPriorityType DEF Init
  <2>3. ready \in Seq(Thread) /\ all \in Seq(Thread)
    BY ThreadAssumption DEF Init
  <2>4. /\ cur \in Thread /\ thread_tag \in Thread
        /\ newborn \in [Thread -> Thread]
        /\ depth \in [Thread -> 0..MaxDepth]
        /\ status \in [Thread -> {"NONE", "READY", "RUNNING"}]
    BY ThreadAssumption DEF Init
  <2>5. /\ elapsed \in [Thread -> 0..TickModulus - 1]
        /\ ticks \in 0..TickModulus - 1
    BY ThreadAssumption DEF Init
  <2> QED BY <2>1, <2>2, <2>3, <2>4, <2>5 DEF Init, TypeOK
<1>2. 0 \in 0..MaxDepth
  BY ThreadAssumption
<1>3. \A t \in Thread :
         /\ depth[t] = 0
         /\ t = MainThread => frame[t][0] = Fresh("body")
         /\ t # MainThread => frame[t][0] = Fresh("start")
  BY <1>2 DEF Init
<1>10. \A t \in Thread : /\ frame[t][0].pc \in {"body", "start"}
                         /\ frame[t][0].cs = "out"
  <2>1. /\ Fresh("body").pc = "body" /\ Fresh("body").cs = "out"
        /\ Fresh("start").pc = "start" /\ Fresh("start").cs = "out"
    BY DEF Fresh
  <2> QED BY <1>3, <2>1
<1>4. cur = MainThread /\ cur \in Created
  BY ThreadAssumption DEF Init, Created
<1>5. \A t \in Thread : Shape(t)
  <2> SUFFICES ASSUME NEW t \in Thread PROVE Shape(t)
    OBVIOUS
  <2>1. depth[t] = 0 /\ frame[t][0].cs = "out"
        /\ frame[t][0].pc \in ThreadPoints
    BY <1>3, <1>10 DEF ThreadPoints
  <2> QED BY <2>1 DEF Shape
<1>6. \A t \in Thread \ {cur} : Suspended(t)
  BY <1>3, <1>4 DEF Suspended
<1>7. Top = Fresh("body")
  BY <1>3, <1>4, ThreadAssumption DEF Top
<1>8. Masked
  BY <1>3, <1>4, <1>7 DEF Masked, Fresh, Init
<1>9. NextExists
  <2>1. Members(ready) = {}
    BY DEF Init, Members
  <2>2. \A c \in Thread : ~BeforeReady(frame[c][0])
    BY <1>10 DEF BeforeReady
  <2> QED BY <1>7, <2>1, <2>2 DEF NextExists, Fresh
<1> QED BY <1>1, <1>4, <1>5, <1>6, <1>8, <1>9 DEF ControlInv

\* The point the running thread is at tells which level it is on.
LEMMA Level ==
    ASSUME ControlInv
    PROVE  /\ cur \in Thread /\ Top \in Activation
           /\ Top.pc \in ThreadPoints <=> depth[cur] = 0
           /\ Top.pc \in HandlerPoints <=> depth[cur] = 1
           /\ depth[cur] \in {0, 1}
           /\ depth[cur] = 1 => ~intr_on
           /\ depth[cur] = 1 /\ Top.cs # "out" => ~Top.old
<1>1. cur \in Thread /\ depth[cur] \in {0, 1}
  BY DEF ControlInv, TypeOK, Shape
<1>2. Top \in Activation
  BY TopType DEF ControlInv
<1>3. depth[cur] = 0 => Top.pc \in ThreadPoints
  BY <1>1 DEF ControlInv, Shape, Top
<1>4. depth[cur] = 1 => /\ Top.pc \in HandlerPoints
                        /\ Top.cs # "out" => ~Top.old
  BY <1>1 DEF ControlInv, Shape, Top
<1>5. ThreadPoints \cap HandlerPoints = {}
  BY DEF ThreadPoints, HandlerPoints
<1>6. depth[cur] = 1 => ~intr_on
  BY DEF ControlInv, Masked
<1> QED BY <1>1, <1>2, <1>3, <1>4, <1>5, <1>6

LEMMA FreshFields ==
    ASSUME NEW p
    PROVE  Fresh(p).pc = p /\ Fresh(p).cs = "out"
BY DEF Fresh

\* The critical sections, for each of the four list operations.
LEMMA DisableControl ==
    ASSUME ControlInv, NEW op \in ListOps, Disable(op)
    PROVE  ControlInv'
<1> DEFINE f == [pc |-> op, cs |-> "in", old |-> intr_on]
<1>1. /\ f \in Activation /\ f.pc = op /\ f.cs = "in" /\ f.old = intr_on
  BY DEF ControlInv, TypeOK, Activation, ListOps, ThreadPoints, HandlerPoints
<1>2. /\ cur' = cur /\ depth' = depth /\ ~intr_on' /\ intr_on' \in BOOLEAN
      /\ frame' = [frame EXCEPT ![cur][depth[cur]] = f]
      /\ Top.pc = op /\ Top.cs = "out" /\ ~panic
  BY DEF Disable, At
<1>3. DataTypeOK' /\ Created' = Created
  BY <1>2 DEF ControlInv, TypeOK, DataTypeOK, Disable, pic, pcb, Created
<1>4. /\ depth[cur] = 0 => f.pc \in {"create_ready", "create_all"}
      /\ depth[cur] = 1 => f.pc \in {"sched_append", "sched_pop"}
  BY <1>1, <1>2, Level DEF ListOps, ThreadPoints, HandlerPoints
<1>5. in_service' = FALSE
  BY <1>2 DEF Disable, pic, ControlInv, Masked, ListOps
<1>6. BeforeReady(f) => BeforeReady(Top)
  BY <1>1, <1>2 DEF BeforeReady
<1>7. depth[cur] = 0 /\ BeforeReady(f) => newborn'[cur] \in Created'
  BY <1>3, <1>6, Level DEF Disable, ControlInv, NextExists, Top
<1>8. f.pc = "sched_pop" =>
        /\ ready' # <<>> /\ thread_tag' = Head(ready')
        /\ thread_tag' \in Created'
  BY <1>1, <1>2, <1>3 DEF Disable, ControlInv, NextExists
<1>9. Members(ready') \subseteq Created'
  BY <1>3 DEF Disable, ControlInv, NextExists
<1>10. depth[cur] = 1 => f.pc \in HandlerPoints /\ ~f.old
  BY <1>1, <1>4, Level DEF HandlerPoints
<1>11. depth[cur] = 0 => f.pc \in ThreadPoints
  BY <1>4 DEF ThreadPoints
<1>12. newborn' = newborn
  BY DEF Disable
<1>13. f.pc # "sched_head" /\ f.pc # "sched_switch"
  BY <1>1 DEF ListOps
<1> HIDE DEF f
<1> QED BY <1>1, <1>2, <1>3, <1>4, <1>5, <1>7, <1>8, <1>9, <1>10, <1>11,
           <1>12, <1>13, ControlStep

\* The same for a step that goes on to point p with intr_on', ready' and so on.
LEMMA GotoControl ==
    ASSUME ControlInv, NEW p \in ThreadPoints \cup HandlerPoints, Goto(p),
           cur' = cur, depth' = depth, DataTypeOK', Created \subseteq Created',
           p \in ThreadPoints <=> depth[cur] = 0,
           p \in HandlerPoints <=> depth[cur] = 1,
           depth[cur] = 1 \/ p = "start" => ~intr_on',
           in_service' => depth[cur] = 1 /\ p = "eoi",
           Members(ready') \subseteq Created',
           \A t \in Thread : newborn'[t] = newborn[t] \/ t = cur,
           newborn'[cur] = newborn[cur] \/ depth[cur] = 0,
           p \in {"create_check_ready", "create_ready"} =>
             newborn'[cur] \in Created',
           p = "sched_head" /\ ~panic' => ready' # <<>>,
           p = "sched_pop" /\ ~panic' =>
             ready' # <<>> /\ thread_tag' = Head(ready'),
           p \in {"sched_pop", "sched_switch"} => thread_tag' \in Created'
    PROVE  ControlInv'
<1> DEFINE f == Fresh(p)
<1>1. f \in Activation /\ f.pc = p /\ f.cs = "out"
  BY FreshType
<1>2. frame' = [frame EXCEPT ![cur][depth[cur]] = f]
  BY DEF Goto
<1>3. BeforeReady(f) => p \in {"create_check_ready", "create_ready"}
  BY <1>1 DEF BeforeReady
<1> HIDE DEF f
<1> QED BY <1>1, <1>2, <1>3, ControlStep

\* The change inside a critical section.
LEMMA LeaveSectionControl ==
    ASSUME ControlInv, NEW op \in ListOps, InSection(op), LeaveSection,
           cur' = cur, depth' = depth, intr_on' = intr_on, pic' = pic,
           status' = status, newborn' = newborn, DataTypeOK',
           Members(ready') \subseteq Created,
           op = "sched_pop" => thread_tag' = thread_tag
    PROVE  ControlInv'
<1> DEFINE f == [frame[cur][depth[cur]] EXCEPT !.cs = "done"]
<1>1. Top.pc = op /\ Top.cs = "in" /\ ~panic /\ Top \in Activation
  BY Level DEF InSection
<1>2. /\ f \in Activation /\ f.pc = op /\ f.cs = "done" /\ f.old = Top.old
      /\ frame' = [frame EXCEPT ![cur][depth[cur]] = f]
  BY <1>1 DEF Activation, Top, LeaveSection
<1> HIDE DEF f
<1>3. Created' = Created
  BY DEF Created
<1>4. /\ depth[cur] = 0 => f.pc \in {"create_ready", "create_all"}
      /\ depth[cur] = 1 => f.pc \in {"sched_append", "sched_pop"} /\ ~f.old
      /\ depth[cur] \in {0, 1}
  BY <1>1, <1>2, Level DEF ListOps, ThreadPoints, HandlerPoints
<1>5. ~intr_on' /\ ~in_service'
  BY <1>1 DEF ControlInv, Masked, pic, ListOps
<1>6. ~BeforeReady(f)
  BY <1>2 DEF BeforeReady, ListOps
<1>7. f.pc = "sched_pop" => thread_tag' \in Created'
  BY <1>1, <1>2, <1>3 DEF ControlInv, NextExists
<1>8. /\ depth[cur] = 1 => f.pc \in HandlerPoints
      /\ depth[cur] = 0 => f.pc \in ThreadPoints
      /\ f.pc # "sched_head" /\ f.pc # "sched_switch"
  BY <1>2, <1>4 DEF HandlerPoints, ThreadPoints, ListOps
<1> QED BY <1>2, <1>3, <1>4, <1>5, <1>6, <1>7, <1>8, ControlStep

\* Back to the caller of a list operation.
LEMMA RestoreControl ==
    ASSUME ControlInv, NEW op \in ListOps, NEW next, Restore(op, next),
           \/ op = "create_ready" /\ next = "create_check_all"
           \/ op = "create_all" /\ next = "body"
           \/ op = "sched_append" /\ next = "sched_reset"
           \/ op = "sched_pop" /\ next = "sched_switch"
    PROVE  ControlInv'
<1>1. /\ Top.pc = op /\ Top.cs = "done" /\ intr_on' = Top.old /\ Goto(next)
      /\ cur' = cur /\ depth' = depth /\ newborn' = newborn
      /\ ready' = ready /\ thread_tag' = thread_tag
  BY DEF Restore
<1>2. DataTypeOK' /\ Created' = Created
  BY <1>1, Level
     DEF ControlInv, TypeOK, DataTypeOK, Restore, pic, pcb, Created, Activation
<1>3. /\ next \in ThreadPoints <=> depth[cur] = 0
      /\ next \in HandlerPoints <=> depth[cur] = 1
      /\ next \in ThreadPoints \cup HandlerPoints
  BY <1>1, Level DEF ThreadPoints, HandlerPoints
<1>4. depth[cur] = 1 => ~intr_on'
  BY <1>1, Level
<1>5. ~in_service'
  BY <1>1 DEF ControlInv, Masked, Restore, pic, ListOps
<1>6. next = "sched_switch" => thread_tag' \in Created'
  BY <1>1, <1>2 DEF ControlInv, NextExists
<1>7. Members(ready') \subseteq Created'
  BY <1>1, <1>2 DEF ControlInv, NextExists
<1> QED BY <1>1, <1>2, <1>3, <1>4, <1>5, <1>6, <1>7, GotoControl

LEMMA NextControl == ControlInv /\ [Next]_vars => ControlInv'
<1> SUFFICES ASSUME ControlInv, [Next]_vars PROVE ControlInv'
  OBVIOUS
<1> USE DEF ControlInv
<1>1. CASE UNCHANGED vars
  BY SMTT(30), <1>1
     DEF vars, pic, pcb, TypeOK, Shape, Suspended, Masked, NextExists,
              Created, Members, Top, BeforeReady
<1>2. CASE TimerTick
  BY SMTT(30), <1>2 DEF TimerTick, pic, pcb, TypeOK, Shape, Suspended, Masked,
              NextExists, Created, Members, Top, BeforeReady
<1>3. CASE Interrupt
  <2> DEFINE f == Fresh("eoi")
  <2>1. depth[cur] = 0 /\ Top.pc # "start" /\ Top.cs = "out" /\ cur \in Thread
    BY <1>3, Level DEF Interrupt, Masked
  <2>2. f \in Activation /\ f.pc = "eoi" /\ f.cs = "out"
    BY FreshType DEF HandlerPoints
  <2> HIDE DEF f
  <2>3. /\ frame' = [frame EXCEPT ![cur][1] = f]
        /\ depth' = [depth EXCEPT ![cur] = 1]
        /\ cur' = cur /\ ~intr_on' /\ 1 \in 0..MaxDepth
        /\ UNCHANGED <<pcb, ready, all, thread_tag, newborn, panic>>
    BY <1>3, <2>1, ThreadAssumption DEF Interrupt, f, TypeOK
  <2>4. /\ frame' \in [Thread -> [0..MaxDepth -> Activation]]
        /\ depth' \in [Thread -> 0..MaxDepth]
        /\ Top' = f /\ depth'[cur] = 1 /\ frame'[cur][1] = f
        /\ \A t \in Thread : frame'[t][0] = frame[t][0]
        /\ \A t \in Thread \ {cur} : frame'[t] = frame[t]
                                      /\ depth'[t] = depth[t]
    <3>1. frame \in [Thread -> [0..MaxDepth -> Activation]]
          /\ depth \in [Thread -> 0..MaxDepth]
      BY DEF TypeOK
    <3>2. depth' \in [Thread -> 0..MaxDepth] /\ depth'[cur] = 1
          /\ \A t \in Thread \ {cur} : depth'[t] = depth[t]
      BY <2>1, <2>3, <3>1
    <3>3. /\ frame' \in [Thread -> [0..MaxDepth -> Activation]]
          /\ frame'[cur][1] = f
          /\ \A t \in Thread : frame'[t][0] = frame[t][0]
          /\ \A t \in Thread \ {cur} : frame'[t] = frame[t]
      BY <2>1, <2>2, <2>3, <3>1, HandlerUpdate
    <3> QED BY <2>3, <3>2, <3>3 DEF Top
  <2>5. TypeOK'
    <3>1. request' \in BOOLEAN /\ in_service' \in BOOLEAN
          /\ intr_on' \in BOOLEAN
      BY <1>3 DEF Interrupt
    <3> QED BY <2>3, <2>4, <3>1 DEF TypeOK, pcb
  <2>6. ASSUME NEW t \in Thread PROVE Shape(t)'
    <3>1. CASE t # cur
      BY <2>4, <3>1 DEF Shape
    <3>2. CASE t = cur
      <4>1. frame[cur][0].pc \in ThreadPoints /\ frame[cur][0].pc # "start"
            /\ frame[cur][0].cs = "out"
        BY <2>1 DEF Shape, Top
      <4> QED BY <2>2, <2>4, <3>2, <4>1 DEF Shape, HandlerPoints
    <3> QED BY <3>1, <3>2
  <2>7. Created' = Created
    BY <2>3 DEF Created, pcb
  <2>8. \A t \in Thread \ {cur} : Suspended(t)'
    BY <2>4, <2>7 DEF Suspended
  <2>9. Masked'
    BY <2>2, <2>3, <2>4 DEF Masked
  <2>10. NextExists'
    <3>1. \A c \in Thread : BeforeReady(frame[c][0])' => newborn'[c] \in Created'
      BY <2>3, <2>4, <2>7 DEF NextExists, BeforeReady
    <3>2. Members(ready)' \subseteq Created'
      BY <2>3, <2>7 DEF NextExists, Members
    <3> QED BY <2>2, <2>4, <3>1, <3>2 DEF NextExists
  <2> QED BY <2>3, <2>5, <2>6, <2>7, <2>8, <2>9, <2>10
<1>4. ASSUME NEW op \in ListOps, Disable(op) PROVE ControlInv'
  BY <1>4, DisableControl
<1>5. ASSUME NEW op \in ListOps, NEW next, Restore(op, next),
             \/ op = "create_ready" /\ next = "create_check_all"
             \/ op = "create_all" /\ next = "body"
             \/ op = "sched_append" /\ next = "sched_reset"
             \/ op = "sched_pop" /\ next = "sched_switch"
      PROVE  ControlInv'
  BY <1>5, RestoreControl
<1>6. CASE KernelThread
  <2>1. /\ depth[cur] = 0 /\ ~in_service
        /\ "body" \in ThreadPoints /\ "body" \notin HandlerPoints
    BY <1>6, Level
       DEF KernelThread, At, ThreadPoints, HandlerPoints, Masked
  <2>2. DataTypeOK' /\ Created' = Created
    BY <1>6 DEF KernelThread, DataTypeOK, TypeOK, pic, pcb, Created
  <2> QED BY <1>6, <2>1, <2>2, GotoControl
          DEF KernelThread, NextExists, pic
<1>7. CASE EnableInterrupts
  <2>1. depth[cur] = 0 /\ Top.pc = "body" /\ Top.cs = "out"
    BY <1>7, Level DEF EnableInterrupts, At, ThreadPoints
  <2>2. TypeOK'
    BY <1>7 DEF EnableInterrupts, TypeOK, pic, pcb
  <2>3. Created' = Created /\ Top' = Top /\ Members(ready)' = Members(ready)
    BY <1>7 DEF EnableInterrupts, Created, Top, pcb, Members
  <2>4. \A t \in Thread : Shape(t)' /\ (t # cur => Suspended(t)')
    BY <1>7, <2>3 DEF EnableInterrupts, Shape, Suspended
  <2>5. Masked' /\ NextExists'
    BY <1>7, <2>1, <2>3
       DEF EnableInterrupts, Masked, NextExists, pic, BeforeReady
  <2> QED BY <1>7, <2>2, <2>3, <2>4, <2>5 DEF EnableInterrupts
<1>8. ASSUME NEW t \in Thread, ThreadCreate(t) PROVE ControlInv'
  <2>1. /\ depth[cur] = 0 /\ ~in_service /\ cur \in Thread
        /\ "create_page" \in ThreadPoints
        /\ "create_page" \notin HandlerPoints
    BY <1>8, Level
       DEF ThreadCreate, At, ThreadPoints, HandlerPoints, Masked
  <2>2. DataTypeOK' /\ Created' = Created
    BY <1>8 DEF ThreadCreate, DataTypeOK, TypeOK, pic, pcb, Created
  <2>3. \A c \in Thread \ {cur} : newborn'[c] = newborn[c]
    BY <1>8 DEF ThreadCreate, TypeOK
  <2> QED BY <1>8, <2>1, <2>2, <2>3, GotoControl
          DEF ThreadCreate, NextExists, pic
<1>28. CASE CreatePage
  <2>1. /\ depth[cur] = 0 /\ ~in_service /\ cur \in Thread
        /\ "create_check_ready" \in ThreadPoints
        /\ "create_check_ready" \notin HandlerPoints
    BY <1>28, Level
       DEF CreatePage, At, ThreadPoints, HandlerPoints, Masked
  <2>2. PICK t \in Thread : t = newborn[cur]
    BY <2>1 DEF TypeOK
  <2>5. \/ /\ status[t] = "NONE"
           /\ status' = [status EXCEPT ![t] = "READY"]
           /\ slice' = [slice EXCEPT ![t] = StoredPriority[t]]
           /\ elapsed' = [elapsed EXCEPT ![t] = 0]
        \/ /\ status[t] # "NONE"
           /\ UNCHANGED <<status, slice, elapsed>>
    BY <1>28, <2>2 DEF CreatePage
  <2>3. DataTypeOK'
    <3>0. /\ slice \in [Thread -> 0..255]
          /\ elapsed \in [Thread -> 0..TickModulus - 1]
          /\ status \in [Thread -> {"NONE", "READY", "RUNNING"}]
      BY DEF TypeOK
    <3>4. StoredPriority[t] \in 0..255
      BY StoredPriorityType
    <3>5. 0 \in 0..TickModulus - 1
      BY ThreadAssumption
    <3>1. slice' \in [Thread -> 0..255]
      BY <2>5, <3>0, <3>4
    <3>2. elapsed' \in [Thread -> 0..TickModulus - 1]
      BY <2>5, <3>0, <3>5
    <3>3. status' \in [Thread -> {"NONE", "READY", "RUNNING"}]
      BY <2>5, <3>0
    <3> QED BY <1>28, <3>1, <3>2, <3>3
            DEF CreatePage, KernelAssert, DataTypeOK, TypeOK, pic
  <2>4. Created' = Created \cup {t}
    BY <2>5 DEF TypeOK, Created
  <2> QED BY <1>28, <2>1, <2>2, <2>3, <2>4, GotoControl
          DEF CreatePage, NextExists, pic
<1>9. CASE CreateCheckReady
  <2>1. /\ depth[cur] = 0 /\ ~in_service /\ newborn[cur] \in Created
        /\ "create_ready" \in ThreadPoints
        /\ "create_ready" \notin HandlerPoints
    BY <1>9, Level
       DEF CreateCheckReady, At, ThreadPoints, HandlerPoints, Masked,
           NextExists, BeforeReady, Top
  <2>2. DataTypeOK' /\ Created' = Created
    BY <1>9 DEF CreateCheckReady, KernelAssert, DataTypeOK, TypeOK, pic, pcb,
                Created
  <2> QED BY <1>9, <2>1, <2>2, GotoControl
          DEF CreateCheckReady, NextExists, pic
<1>10. CASE CreateAppendReady
  <2>1. newborn[cur] \in Created /\ "create_ready" \in ListOps
    BY <1>10, Level
       DEF CreateAppendReady, InSection, NextExists, BeforeReady, Top,
           ThreadPoints, ListOps
  <2>2. /\ ready' \in Seq(Thread)
        /\ Members(ready') = Members(ready) \cup {newborn[cur]}
    BY <1>10, <2>1, MembersAppend DEF CreateAppendReady, TypeOK, Created
  <2>3. DataTypeOK'
    BY <1>10, <2>2 DEF CreateAppendReady, DataTypeOK, TypeOK, pic, pcb
  <2> QED BY <1>10, <2>1, <2>2, <2>3, LeaveSectionControl
          DEF CreateAppendReady, NextExists, pcb
<1>11. CASE CreateCheckAll
  <2>1. /\ depth[cur] = 0 /\ ~in_service
        /\ "create_all" \in ThreadPoints
        /\ "create_all" \notin HandlerPoints
    BY <1>11, Level
       DEF CreateCheckAll, At, ThreadPoints, HandlerPoints, Masked
  <2>2. DataTypeOK' /\ Created' = Created
    BY <1>11 DEF CreateCheckAll, KernelAssert, DataTypeOK, TypeOK, pic, pcb,
                 Created
  <2> QED BY <1>11, <2>1, <2>2, GotoControl
          DEF CreateCheckAll, NextExists, pic
<1>12. CASE CreateAppendAll
  <2>1. all' \in Seq(Thread) /\ "create_all" \in ListOps
    BY <1>12, Level, MembersAppend DEF CreateAppendAll, TypeOK, ListOps
  <2>2. DataTypeOK'
    BY <1>12, <2>1 DEF CreateAppendAll, DataTypeOK, TypeOK, pic, pcb
  <2> QED BY <1>12, <2>1, <2>2, LeaveSectionControl
          DEF CreateAppendAll, NextExists, pcb
<1>13. CASE SendEoi
  <2>1. /\ depth[cur] = 1
        /\ "handler" \in HandlerPoints /\ "handler" \notin ThreadPoints
    BY <1>13, Level DEF SendEoi, At, HandlerPoints, ThreadPoints
  <2>2. DataTypeOK' /\ Created' = Created
    BY <1>13 DEF SendEoi, DataTypeOK, TypeOK, pcb, Created
  <2> QED BY <1>13, <2>1, <2>2, Level, GotoControl DEF SendEoi, NextExists
<1>14. CASE TimerHandler
  <2>1. /\ depth[cur] = 1 /\ ~in_service /\ ~intr_on /\ cur \in Thread
        /\ {"sched", "iret"} \subseteq HandlerPoints
        /\ "sched" \notin ThreadPoints /\ "iret" \notin ThreadPoints
    BY <1>14, Level
       DEF TimerHandler, At, HandlerPoints, ThreadPoints, Masked
  <2>2. /\ slice' \in [Thread -> 0..255]
        /\ elapsed' \in [Thread -> 0..TickModulus - 1]
        /\ ticks' \in 0..TickModulus - 1
    <3>1. \A n \in Nat : (n + 1) % TickModulus \in 0..TickModulus - 1
      BY ThreadAssumption
    <3>2. elapsed[cur] \in Nat /\ ticks \in Nat
      BY <2>1, ThreadAssumption DEF TypeOK
    <3>3. slice[cur] # 0 => slice[cur] - 1 \in 0..255
      BY <2>1 DEF TypeOK
    <3>4. elapsed' \in [Thread -> 0..TickModulus - 1]
      BY <1>14, <3>1, <3>2 DEF TimerHandler, TypeOK
    <3>5. slice' \in [Thread -> 0..255]
      <4>1. slice \in [Thread -> 0..255]
        BY DEF TypeOK
      <4>2. CASE slice[cur] = 0
        BY <1>14, <4>1, <4>2 DEF TimerHandler
      <4>3. CASE slice[cur] # 0
        BY <1>14, <3>3, <4>1, <4>3 DEF TimerHandler
      <4> QED BY <4>2, <4>3
    <3> QED BY <1>14, <3>1, <3>2, <3>4, <3>5 DEF TimerHandler
  <2>3. DataTypeOK' /\ Created' = Created
    BY <1>14, <2>2 DEF TimerHandler, DataTypeOK, TypeOK, pic, Created
  <2>4. Goto("sched") \/ Goto("iret")
    BY <1>14 DEF TimerHandler
  <2> QED BY <1>14, <2>1, <2>3, <2>4, GotoControl
          DEF TimerHandler, NextExists, pic
<1>15. CASE InterruptReturn
  <2>1. /\ depth[cur] = 1 /\ ~in_service /\ cur \in Thread
    BY <1>15, Level
       DEF InterruptReturn, At, HandlerPoints, ThreadPoints, Masked
  <2>2. /\ depth' = [depth EXCEPT ![cur] = 0]
        /\ cur' = cur /\ frame' = frame /\ intr_on' = TRUE
        /\ UNCHANGED <<pic, pcb, ready, all, thread_tag, newborn, panic>>
    BY <1>15, <2>1 DEF InterruptReturn, TypeOK
  <2>3. TypeOK' /\ Created' = Created
    <3>1. depth' \in [Thread -> 0..MaxDepth]
      BY <2>2, ThreadAssumption DEF TypeOK
    <3> QED BY <2>2, <3>1 DEF TypeOK, pic, pcb, Created
  <2>4. depth'[cur] = 0 /\ \A t \in Thread \ {cur} : depth'[t] = depth[t]
    BY <2>1, <2>2 DEF TypeOK
  <2>5. \A t \in Thread : Shape(t)' /\ (t # cur => Suspended(t)')
    BY <2>1, <2>2, <2>3, <2>4 DEF Shape, Suspended
  <2>6. /\ Top' = frame[cur][0] /\ Top'.pc \in ThreadPoints
        /\ Top'.cs = "out" /\ Top'.pc # "start"
    BY <2>1, <2>2, <2>4 DEF Top, Shape
  <2>7. Masked'
    BY <2>1, <2>2, <2>4, <2>6 DEF Masked, pic
  <2>8. Members(ready)' = Members(ready)
    BY <2>2
  <2>9. NextExists'
    BY <2>2, <2>3, <2>6, <2>8 DEF NextExists, BeforeReady, ThreadPoints
  <2> QED BY <2>2, <2>3, <2>5, <2>7, <2>9
<1>16. CASE ScheduleEntry
  <2>1. /\ depth[cur] = 1 /\ ~in_service /\ ~intr_on
        /\ {"sched_check", "sched_nonempty"} \subseteq HandlerPoints
        /\ "sched_check" \notin ThreadPoints
        /\ "sched_nonempty" \notin ThreadPoints
    BY <1>16, Level
       DEF ScheduleEntry, At, HandlerPoints, ThreadPoints, Masked
  <2>2. DataTypeOK' /\ Created' = Created /\ ~intr_on'
    BY <1>16, <2>1 DEF ScheduleEntry, KernelAssert, DataTypeOK, TypeOK, pic,
                       pcb, Created
  <2>3. Goto("sched_check") \/ Goto("sched_nonempty")
    BY <1>16 DEF ScheduleEntry
  <2> QED BY <1>16, <2>1, <2>2, <2>3, GotoControl
          DEF ScheduleEntry, NextExists, pic
<1>17. CASE ScheduleCheck
  <2>1. /\ depth[cur] = 1 /\ ~in_service /\ ~intr_on
        /\ "sched_append" \in HandlerPoints
        /\ "sched_append" \notin ThreadPoints
    BY <1>17, Level
       DEF ScheduleCheck, At, HandlerPoints, ThreadPoints, Masked
  <2>2. DataTypeOK' /\ Created' = Created /\ ~intr_on'
    BY <1>17, <2>1 DEF ScheduleCheck, KernelAssert, DataTypeOK, TypeOK, pic,
                       pcb, Created
  <2> QED BY <1>17, <2>1, <2>2, GotoControl
          DEF ScheduleCheck, NextExists, pic
<1>18. CASE ScheduleAppend
  <2>1. "sched_append" \in ListOps /\ cur \in Thread
    BY Level DEF ListOps
  <2>2. ready' \in Seq(Thread) /\ Members(ready') = Members(ready) \cup {cur}
    BY <1>18, <2>1, MembersAppend DEF ScheduleAppend, TypeOK
  <2>3. DataTypeOK'
    BY <1>18, <2>2 DEF ScheduleAppend, DataTypeOK, TypeOK, pic, pcb
  <2> QED BY <1>18, <2>1, <2>2, <2>3, LeaveSectionControl
          DEF ScheduleAppend, NextExists, pcb
<1>19. CASE ScheduleReset
  <2>1. /\ depth[cur] = 1 /\ ~in_service /\ ~intr_on /\ cur \in Thread
        /\ "sched_nonempty" \in HandlerPoints
        /\ "sched_nonempty" \notin ThreadPoints
    BY <1>19, Level
       DEF ScheduleReset, At, HandlerPoints, ThreadPoints, Masked
  <2>2. DataTypeOK' /\ Created' = Created
    BY <1>19, <2>1, StoredPriorityType
       DEF ScheduleReset, DataTypeOK, TypeOK, pic, Created
  <2> QED BY <1>19, <2>1, <2>2, GotoControl DEF ScheduleReset, NextExists, pic
<1>20. CASE ScheduleNonEmpty
  <2>1. /\ depth[cur] = 1 /\ ~in_service /\ ~intr_on
        /\ "sched_head" \in HandlerPoints
        /\ "sched_head" \notin ThreadPoints
    BY <1>20, Level
       DEF ScheduleNonEmpty, At, HandlerPoints, ThreadPoints, Masked
  <2>2. DataTypeOK' /\ Created' = Created /\ ~intr_on'
    BY <1>20, <2>1 DEF ScheduleNonEmpty, KernelAssert, DataTypeOK, TypeOK,
                       pic, pcb, Created
  <2>3. ~panic' => ready' # <<>>
    BY <1>20 DEF ScheduleNonEmpty, KernelAssert
  <2> QED BY <1>20, <2>1, <2>2, <2>3, GotoControl
          DEF ScheduleNonEmpty, NextExists, pic
<1>21. CASE ScheduleHead
  <2>1. /\ depth[cur] = 1 /\ ~in_service /\ ~intr_on /\ ready # <<>>
        /\ "sched_pop" \in HandlerPoints
        /\ "sched_pop" \notin ThreadPoints
    BY <1>21, Level
       DEF ScheduleHead, At, HandlerPoints, ThreadPoints, Masked, NextExists
  <2>2. Head(ready) \in Thread /\ Head(ready) \in Created
    BY <2>1, MembersTail DEF TypeOK, NextExists
  <2>3. DataTypeOK' /\ Created' = Created
    BY <1>21, <2>2 DEF ScheduleHead, DataTypeOK, TypeOK, pic, pcb, Created
  <2> QED BY <1>21, <2>1, <2>2, <2>3, GotoControl
          DEF ScheduleHead, NextExists, pic
<1>22. CASE ScheduleRemove
  <2>1. "sched_pop" \in ListOps /\ ready # <<>>
    BY <1>22 DEF ScheduleRemove, InSection, ListOps, NextExists
  <2>2. ready' \in Seq(Thread) /\ Members(ready') \subseteq Members(ready)
    BY <1>22, <2>1, MembersTail DEF ScheduleRemove, TypeOK
  <2>3. DataTypeOK'
    BY <1>22, <2>2 DEF ScheduleRemove, DataTypeOK, TypeOK, pic, pcb
  <2> QED BY <1>22, <2>1, <2>2, <2>3, LeaveSectionControl
          DEF ScheduleRemove, NextExists, pcb
<1>23. CASE ScheduleSwitch
  <2> DEFINE f == Fresh("iret")
  <2>1. /\ depth[cur] = 1 /\ ~in_service /\ ~intr_on /\ cur \in Thread
        /\ thread_tag \in Created /\ thread_tag \in Thread
    BY <1>23, Level
       DEF ScheduleSwitch, At, HandlerPoints, ThreadPoints, Masked,
           NextExists, TypeOK
  <2>2. f \in Activation /\ f.pc = "iret" /\ f.cs = "out"
    BY FreshType DEF HandlerPoints
  <2>3. /\ cur' = thread_tag
        /\ status' = [status EXCEPT ![thread_tag] = "RUNNING"]
        /\ frame' = [frame EXCEPT ![cur][1] = f]
        /\ UNCHANGED <<intr_on, pic, slice, elapsed, ticks, ready, all,
                       thread_tag, newborn, depth, panic>>
    BY <1>23, <2>1 DEF ScheduleSwitch, Goto
  <2> HIDE DEF f
  <2>4. Created' = Created
    BY <2>1, <2>3 DEF Created, TypeOK
  <2>6. /\ frame' \in [Thread -> [0..MaxDepth -> Activation]]
        /\ frame'[cur][1] = f
        /\ \A t \in Thread : frame'[t][0] = frame[t][0]
        /\ \A t \in Thread \ {cur} : frame'[t] = frame[t]
    BY <2>1, <2>2, <2>3, HandlerUpdate DEF TypeOK
  <2>7. TypeOK'
    BY <2>1, <2>3, <2>6 DEF TypeOK, pic
  <2>8. ASSUME NEW t \in Thread PROVE Shape(t)'
    <3>1. CASE t # cur
      BY <2>3, <2>6, <3>1 DEF Shape
    <3>2. CASE t = cur
      <4>1. frame[cur][0].pc \in ThreadPoints /\ frame[cur][0].pc # "start"
            /\ frame[cur][0].cs = "out"
        BY <2>1 DEF Shape
      <4> QED BY <2>1, <2>2, <2>3, <2>6, <3>2, <4>1 DEF Shape, HandlerPoints
    <3> QED BY <3>1, <3>2
  <2>9. ASSUME NEW t \in Thread, t # cur' PROVE Suspended(t)'
    <3>1. CASE t # cur
      BY <2>3, <2>4, <2>6, <3>1 DEF Suspended
    <3>2. CASE t = cur
      BY <2>1, <2>3, <2>4, <2>6, <3>2 DEF Suspended, f
    <3> QED BY <3>1, <3>2
  <2>10. Top'.cs = "out" /\ Top'.pc \in {"iret", "start"}
    <3>1. CASE thread_tag = cur
      BY <2>1, <2>2, <2>3, <2>6, <3>1 DEF Top
    <3>2. CASE thread_tag # cur
      <4>1. Suspended(thread_tag) /\ frame'[thread_tag] = frame[thread_tag]
        BY <2>1, <2>6, <3>2
      <4>2. Top' = frame[thread_tag][depth[thread_tag]]
        BY <2>3, <4>1 DEF Top
      <4> QED BY <4>1, <4>2, FreshFields DEF Suspended
    <3> QED BY <3>1, <3>2
  <2>11. Masked'
    BY <2>1, <2>3, <2>10 DEF Masked, pic
  <2>12. NextExists'
    <3>1. \A c \in Thread : BeforeReady(frame[c][0])' => newborn'[c] \in Created'
      BY <2>3, <2>4, <2>6 DEF NextExists, BeforeReady
    <3>2. Members(ready)' \subseteq Created'
      BY <2>3, <2>4 DEF NextExists, Members
    <3> QED BY <2>10, <3>1, <3>2 DEF NextExists
  <2> QED BY <2>1, <2>3, <2>4, <2>7, <2>8, <2>9, <2>11, <2>12
<1>24. CASE CreateRest
  BY <1>4, <1>5, <1>9, <1>10, <1>11, <1>12, <1>24, <1>28
     DEF CreateRest, ListOps
<1>25. CASE Handler
  BY <1>4, <1>5, <1>13, <1>14, <1>15, <1>16, <1>17, <1>18, <1>19, <1>20,
     <1>21, <1>22, <1>23, <1>25 DEF Handler, Schedule, ListOps
<1>26. CASE Boot
  BY <1>7, <1>8, <1>26, ThreadAssumption DEF Boot
<1>27. CASE Spawn
  BY <1>8, <1>27 DEF Spawn
<1> QED BY <1>1, <1>2, <1>3, <1>6, <1>24, <1>25, <1>26, <1>27
        DEF Next, CpuStep

LEMMA Control == Spec => []ControlInv
<1>1. Init => ControlInv
  BY InitControl
<1>2. ControlInv /\ [Next]_vars => ControlInv'
  BY NextControl
<1> QED BY <1>1, <1>2, PTL DEF Spec

(* Type correctness of the kernel, whatever the threads and priorities.     *)
THEOREM TypeCorrect == Spec => []TypeOK
<1>1. ControlInv => TypeOK
  BY DEF ControlInv
<1> QED BY <1>1, Control, PTL

(* The kernel can be interrupted only in a thread's own code: never in a    *)
(* handler, in the scheduler, in a critical section or before kernel_thread *)
(* has enabled interrupts (list.c:42-53, thread.c:52-60).                   *)
THEOREM InterruptDiscipline == Spec => []InterruptsOnlyInThreadCode
<1>1. ControlInv => InterruptsOnlyInThreadCode
  BY Level DEF ControlInv, Masked, InterruptsOnlyInThreadCode
<1> QED BY <1>1, Control, PTL

(* No kernel stack ever holds two handlers, and whatever thread switch_to   *)
(* is given can be resumed where it was left (switch.S:13-38).              *)
THEOREM Resumable == Spec => []SuspendedResumable
<1>1. ControlInv => SuspendedResumable
  <2> SUFFICES ASSUME ControlInv PROVE SuspendedResumable
    OBVIOUS
  <2>1. \A t \in Thread : depth[t] <= 1
    <3> SUFFICES ASSUME NEW t \in Thread PROVE depth[t] <= 1
      OBVIOUS
    <3>1. depth[t] = 0 \/ depth[t] = 1
      BY DEF ControlInv, Shape
    <3>2. 0 <= 1 /\ 1 <= 1
      BY SMT
    <3> QED BY <3>1, <3>2
  <2>2. ASSUME NEW t \in Created \ {cur}
        PROVE  frame[t][depth[t]] = Fresh(IF depth[t] = 0 THEN "start"
                                                         ELSE "iret")
    <3>1. t \in Thread /\ Suspended(t)
      BY <2>2 DEF ControlInv, Created
    <3>2. CASE depth[t] = 0
      BY <3>1, <3>2 DEF Suspended
    <3>3. CASE depth[t] = 1
      BY <3>1, <3>3 DEF Suspended
    <3> QED BY <3>1, <3>2, <3>3 DEF Suspended
  <2> QED BY <2>1, <2>2 DEF SuspendedResumable
<1> QED BY <1>1, Control, PTL

(* Every hand-over of the processor happens with the timer interrupt        *)
(* acknowledged and interrupts masked (kernel_interrupt.S:46-52).           *)
THEOREM Handover == Spec => HandoverAcknowledged
<1>1. ControlInv /\ [Next]_vars => [cur' # cur => ~in_service /\ ~intr_on]_vars
  <2> SUFFICES ASSUME ControlInv, Next, cur' # cur
               PROVE  ~in_service /\ ~intr_on
    BY DEF vars, pic, pcb
  <2>1. ScheduleSwitch
    BY DEF Next, TimerTick, Interrupt, CpuStep, Boot, Spawn, KernelThread,
           CreateRest, Handler, EnableInterrupts, ThreadCreate, CreatePage,
           CreateCheckReady, Disable, CreateAppendReady, Restore,
           CreateCheckAll, CreateAppendAll, SendEoi, TimerHandler,
           InterruptReturn, Schedule, ScheduleEntry, ScheduleCheck,
           ScheduleAppend, ScheduleReset, ScheduleNonEmpty, ScheduleHead,
           ScheduleRemove
  <2>2. Top.pc = "sched_switch"
    BY <2>1 DEF ScheduleSwitch, At
  <2>3. depth[cur] = 1
    BY <2>2, Level DEF HandlerPoints
  <2> QED BY <2>2, <2>3 DEF ControlInv, Masked
<1> QED BY <1>1, Control, PTL DEF Spec, HandoverAcknowledged

-----------------------------------------------------------------------------
(* Who is getting a page *)

LEMMA PageSame ==
    ASSUME PageInv, newborn' = newborn, Created' = Created,
           \A c \in Thread : GettingPage(c)' => GettingPage(c)
    PROVE  PageInv'
BY DEF PageInv

\* A step that changes one activation, whose new value is f
LEMMA PageStep ==
    ASSUME ControlInv, PageInv, NEW d \in 0..MaxDepth, NEW f,
           f.pc # "create_page", frame' = [frame EXCEPT ![cur][d] = f],
           newborn' = newborn, Created' = Created
    PROVE  PageInv'
<1>1. frame \in [Thread -> [0..MaxDepth -> Activation]] /\ 0 \in 0..MaxDepth
  BY ThreadAssumption DEF ControlInv, TypeOK
<1>2. ASSUME NEW c \in Thread, GettingPage(c)' PROVE GettingPage(c)
  <2>1. frame'[c][0] = f \/ frame'[c][0] = frame[c][0]
    BY <1>1
  <2> QED BY <1>2, <2>1 DEF GettingPage
<1> QED BY <1>2, PageSame

LEMMA PageGoto ==
    ASSUME ControlInv, PageInv, NEW p, p # "create_page", Goto(p),
           newborn' = newborn, Created' = Created
    PROVE  PageInv'
<1>1. depth[cur] \in 0..MaxDepth
  BY TopType DEF ControlInv
<1> QED BY <1>1, FreshFields, PageStep DEF Goto

LEMMA PageLeave ==
    ASSUME ControlInv, PageInv, NEW op \in ListOps, InSection(op),
           LeaveSection, newborn' = newborn, Created' = Created
    PROVE  PageInv'
<1> DEFINE f == [frame[cur][depth[cur]] EXCEPT !.cs = "done"]
<1>1. depth[cur] \in 0..MaxDepth /\ Top \in Activation /\ Top.pc = op
  BY TopType DEF ControlInv, InSection
<1>2. f.pc # "create_page" /\ frame' = [frame EXCEPT ![cur][depth[cur]] = f]
  BY <1>1 DEF Top, LeaveSection, ListOps, Activation
<1> HIDE DEF f
<1> QED BY <1>1, <1>2, PageStep

LEMMA InitPage == Init => PageInv
<1> SUFFICES ASSUME Init PROVE \A c \in Thread : ~GettingPage(c)
  BY DEF PageInv
<1>1. 0 \in 0..MaxDepth
  BY ThreadAssumption
<1>2. \A c \in Thread : frame[c][0] = Fresh("body")
                        \/ frame[c][0] = Fresh("start")
  BY <1>1 DEF Init
<1> QED BY <1>2, FreshFields DEF GettingPage

LEMMA ThreadCreatePage ==
    ASSUME OneAtATime, ControlInv, PageInv, NEW t \in Thread, ThreadCreate(t)
    PROVE  PageInv'
<1> DEFINE f == Fresh("create_page")
<1>1. /\ frame \in [Thread -> [0..MaxDepth -> Activation]]
      /\ newborn \in [Thread -> Thread] /\ 0 \in 0..MaxDepth
      /\ depth[cur] \in 0..MaxDepth /\ cur \in Thread
  BY SMTT(30), ThreadAssumption, TopType, Level DEF ControlInv, TypeOK
<1>2. /\ \A c \in Thread : ~GettingPage(c)
      /\ frame' = [frame EXCEPT ![cur][depth[cur]] = f]
      /\ newborn' = [newborn EXCEPT ![cur] = t]
      /\ t \notin Created /\ Created' = Created
  BY DEF ThreadCreate, Goto, Created, pcb
<1> HIDE DEF f
<1>3. ASSUME NEW c \in Thread, GettingPage(c)' PROVE c = cur
  <2>1. c # cur => frame'[c][0] = frame[c][0]
    BY <1>1, <1>2
  <2> QED BY <1>2, <1>3, <2>1 DEF GettingPage
<1>4. newborn'[cur] = t
  BY <1>1, <1>2
<1> QED BY <1>2, <1>3, <1>4 DEF PageInv

LEMMA CreatePagePage ==
    ASSUME ControlInv, PageInv, CreatePage
    PROVE  PageInv'
<1> DEFINE f == Fresh("create_check_ready")
<1>0. Top.pc = "create_page" /\ "create_page" \in ThreadPoints
  BY DEF CreatePage, At, ThreadPoints
<1>a. depth[cur] = 0 /\ cur \in Thread
  BY <1>0, Level
<1>b. frame \in [Thread -> [0..MaxDepth -> Activation]]
  BY DEF ControlInv, TypeOK
<1>c. 0 \in 0..MaxDepth
  BY ThreadAssumption
<1>1. /\ frame \in [Thread -> [0..MaxDepth -> Activation]]
      /\ 0 \in 0..MaxDepth /\ depth[cur] = 0 /\ cur \in Thread
      /\ Top.pc = "create_page"
  BY <1>0, <1>a, <1>b, <1>c
<1>2. GettingPage(cur) /\ \A c \in Thread : GettingPage(c) => c = cur
  BY <1>1 DEF PageInv, GettingPage, Top
<1>3. frame' = [frame EXCEPT ![cur][0] = f] /\ f.pc # "create_page"
  BY <1>1, FreshFields DEF CreatePage, Goto
<1> HIDE DEF f
<1>4. ASSUME NEW c \in Thread PROVE ~GettingPage(c)'
  <2>1. frame'[c][0] = IF c = cur THEN f ELSE frame[c][0]
    BY <1>1, <1>3
  <2> QED BY <1>2, <1>3, <2>1 DEF GettingPage
<1> QED BY <1>4 DEF PageInv

LEMMA NextPage ==
    ASSUME OneAtATime, ControlInv, PageInv, [Next]_vars
    PROVE  PageInv'
<1>0. cur \in Created /\ cur \in Thread /\ depth[cur] \in {0, 1}
  BY Level DEF ControlInv
<1>1. CASE UNCHANGED vars \/ TimerTick \/ EnableInterrupts \/ InterruptReturn
  BY <1>1, PageSame
     DEF vars, pcb, TimerTick, EnableInterrupts, InterruptReturn,
         GettingPage, Created
<1>2. CASE Interrupt
  <2>1. depth[cur] = 0 /\ depth[cur] + 1 = 1 /\ 1 \in 0..MaxDepth
    BY <1>0, <1>2, Level, ThreadAssumption DEF Interrupt
  <2>2. frame' = [frame EXCEPT ![cur][1] = Fresh("eoi")]
    BY <1>2, <2>1 DEF Interrupt
  <2>3. newborn' = newborn /\ Created' = Created
    BY <1>2 DEF Interrupt, Created, pcb
  <2> QED BY <2>1, <2>2, <2>3, FreshFields, PageStep
<1>3. ASSUME NEW op \in ListOps, Disable(op) PROVE PageInv'
  <2> DEFINE f == [pc |-> op, cs |-> "in", old |-> intr_on]
  <2>1. depth[cur] \in 0..MaxDepth /\ f.pc # "create_page"
    BY <1>0, ThreadAssumption DEF ListOps
  <2>2. /\ frame' = [frame EXCEPT ![cur][depth[cur]] = f]
        /\ newborn' = newborn /\ Created' = Created
    BY <1>3 DEF Disable, Created, pcb
  <2> HIDE DEF f
  <2> QED BY <2>1, <2>2, PageStep
<1>4. ASSUME NEW op \in ListOps, NEW next, next # "create_page",
             Restore(op, next)
      PROVE  PageInv'
  BY <1>4, PageGoto DEF Restore, Created, pcb
<1>5. CASE \/ KernelThread \/ SendEoi \/ TimerHandler \/ ScheduleEntry
           \/ ScheduleCheck \/ ScheduleNonEmpty \/ ScheduleHead
           \/ CreateCheckReady \/ CreateCheckAll
  <2>1. /\ newborn' = newborn /\ Created' = Created
        /\ \E p \in HandlerPoints \cup {"body", "create_ready", "create_all"} :
              Goto(p)
    BY <1>5 DEF KernelThread, SendEoi, TimerHandler, ScheduleEntry,
                ScheduleCheck, ScheduleNonEmpty, ScheduleHead,
                CreateCheckReady, CreateCheckAll, Created, pcb, HandlerPoints
  <2> QED BY <2>1, PageGoto DEF HandlerPoints
<1>6. CASE ScheduleReset \/ ScheduleSwitch
  <2>1. Created' = Created
    <3>1. CASE ScheduleReset
      BY <1>0, <3>1 DEF ScheduleReset, Created, ControlInv, TypeOK
    <3>2. CASE ScheduleSwitch
      BY <1>0, <3>2
         DEF ScheduleSwitch, Created, ControlInv, TypeOK, NextExists, At
    <3> QED BY <1>6, <3>1, <3>2
  <2> QED BY <1>6, <2>1, PageGoto DEF ScheduleReset, ScheduleSwitch
<1>7. CASE \/ CreateAppendReady \/ CreateAppendAll \/ ScheduleAppend
           \/ ScheduleRemove
  <2>1. /\ newborn' = newborn /\ Created' = Created /\ LeaveSection
        /\ \E op \in ListOps : InSection(op)
    BY <1>7 DEF CreateAppendReady, CreateAppendAll, ScheduleAppend,
                ScheduleRemove, Created, pcb, ListOps
  <2> QED BY <2>1, PageLeave
<1>8. CASE CreateRest
  BY <1>3, <1>4, <1>5, <1>7, <1>8, CreatePagePage DEF CreateRest, ListOps
<1>9. CASE Handler
  BY <1>1, <1>3, <1>4, <1>5, <1>6, <1>7, <1>9
     DEF Handler, Schedule, ListOps
<1>10. CASE Boot \/ Spawn
  BY <1>1, <1>10, ThreadCreatePage, ThreadAssumption DEF Boot, Spawn
<1> QED BY <1>1, <1>2, <1>5, <1>8, <1>9, <1>10 DEF Next, CpuStep

-----------------------------------------------------------------------------
(* Where the threads are *)

\* A step that leaves the queues, the threads and their places alone.
LEMMA QueueSame ==
    ASSUME QueueInv, cur' = cur, newborn' = newborn, ready' = ready,
           all' = all, Created' = Created, ~panic',
           Popped => thread_tag' = thread_tag,
           Appended' <=> Appended,
           Popped' <=> Popped,
           \A c \in Thread :
              /\ BeforeReady(frame'[c][0]) <=> BeforeReady(frame[c][0])
              /\ BeforeAll(frame'[c][0]) <=> BeforeAll(frame[c][0]),
           StatusInv'
    PROVE  QueueInv'
<1>1. Linking' = Linking
  BY DEF Linking, BeforeReady
<1>2. Unlisted' = Unlisted
  BY DEF Unlisted, BeforeAll
<1>3. Queued' = Queued
  BY <1>1 DEF Queued
<1>4. NoThreadLost'
  BY <1>3 DEF QueueInv, NoThreadLost, NoDuplicates, Members
<1>5. AllThreadsListed'
  BY <1>2 DEF QueueInv, AllThreadsListed, NoDuplicates, Members
<1>6. CreateInv'
  <2>1. \A c \in Thread :
           /\ BeforeReady(frame[c][0])' <=> BeforeReady(frame[c][0])
           /\ BeforeAll(frame[c][0])' <=> BeforeAll(frame[c][0])
    BY DEF BeforeReady, BeforeAll
  <2> QED BY <2>1 DEF QueueInv, CreateInv
<1>7. (Popped => thread_tag \notin Linking)'
  BY <1>1 DEF QueueInv
<1> QED BY <1>4, <1>5, <1>6, <1>7 DEF QueueInv, NoPanic

\* A step within the top activation, whose new value is f, that stays in the
\* same phase of thread_create or schedule.
LEMMA QueueStep ==
    ASSUME ControlInv, QueueInv, NEW f \in Activation,
           frame' = [frame EXCEPT ![cur][depth[cur]] = f],
           cur' = cur, depth' = depth, newborn' = newborn, ready' = ready,
           all' = all, Created' = Created, ~panic',
           Popped => thread_tag' = thread_tag,
           AfterAppend(f) <=> AfterAppend(Top),
           AfterPop(f) <=> AfterPop(Top),
           depth[cur] = 0 =>
             /\ BeforeReady(f) <=> BeforeReady(Top)
             /\ BeforeAll(f) <=> BeforeAll(Top),
           \/ f.pc \in {"sched_nonempty", "sched_head", "sched_pop",
                        "sched_switch"}
           \/ status'[cur] = "RUNNING"
    PROVE  QueueInv'
<1>1. /\ Top' = f /\ frame'[cur][depth[cur]] = f
      /\ \A t \in Thread \ {cur} : frame'[t] = frame[t]
      /\ \A d \in 0..MaxDepth \ {depth[cur]} : frame'[cur][d] = frame[cur][d]
  BY TopUpdate DEF ControlInv
<1>2. 0 \in 0..MaxDepth /\ cur \in Thread /\ depth[cur] \in {0, 1}
  BY Level, ThreadAssumption
<1>3. ASSUME NEW c \in Thread
      PROVE  /\ BeforeReady(frame'[c][0]) <=> BeforeReady(frame[c][0])
             /\ BeforeAll(frame'[c][0]) <=> BeforeAll(frame[c][0])
  <2>1. CASE c # cur \/ depth[cur] = 1
    <3>1. frame'[c][0] = frame[c][0]
      BY <1>1, <1>2, <2>1
    <3> QED BY <3>1
  <2>2. CASE c = cur /\ depth[cur] = 0
    <3>1. frame'[c][0] = f /\ frame[c][0] = Top
      BY <1>1, <2>2 DEF Top
    <3> QED BY <2>2, <3>1
  <2> QED BY <1>2, <2>1, <2>2
<1>4. (Appended' <=> Appended) /\ (Popped' <=> Popped)
  BY <1>1 DEF Appended, Popped, AfterAppend, AfterPop
<1>5. StatusInv'
  BY <1>1 DEF StatusInv
<1> QED BY <1>3, <1>4, <1>5, QueueSame

\* The same for a step that goes on to point p.
LEMMA QueueGoto ==
    ASSUME ControlInv, QueueInv, NEW p \in ThreadPoints \cup HandlerPoints,
           Goto(p), cur' = cur, depth' = depth, newborn' = newborn,
           ready' = ready, all' = all, Created' = Created, ~panic',
           Popped => thread_tag' = thread_tag,
           AfterAppend(Fresh(p)) <=> AfterAppend(Top),
           AfterPop(Fresh(p)) <=> AfterPop(Top),
           depth[cur] = 0 =>
             /\ BeforeReady(Fresh(p)) <=> BeforeReady(Top)
             /\ BeforeAll(Fresh(p)) <=> BeforeAll(Top),
           \/ p \in {"sched_nonempty", "sched_head", "sched_pop",
                     "sched_switch"}
           \/ status'[cur] = "RUNNING"
    PROVE  QueueInv'
<1> DEFINE f == Fresh(p)
<1>1. f \in Activation /\ f.pc = p
  BY FreshType
<1>2. frame' = [frame EXCEPT ![cur][depth[cur]] = f]
  BY DEF Goto
<1> HIDE DEF f
<1>3. /\ AfterAppend(f) <=> AfterAppend(Top)
      /\ AfterPop(f) <=> AfterPop(Top)
      /\ depth[cur] = 0 =>
           /\ BeforeReady(f) <=> BeforeReady(Top)
           /\ BeforeAll(f) <=> BeforeAll(Top)
  BY DEF f
<1> QED BY <1>1, <1>2, <1>3, QueueStep

\* The phase a freshly reached point belongs to.
LEMMA FreshPhase ==
    ASSUME NEW p
    PROVE  /\ AfterAppend(Fresh(p)) <=>
                p \in {"sched_reset", "sched_nonempty", "sched_head",
                      "sched_pop", "sched_switch"}
           /\ AfterPop(Fresh(p)) <=> p = "sched_switch"
           /\ BeforeReady(Fresh(p)) <=>
                p \in {"create_check_ready", "create_ready"}
           /\ BeforeAll(Fresh(p)) <=>
                p \in {"create_check_ready", "create_ready",
                      "create_check_all", "create_all"}
BY FreshFields DEF AfterAppend, AfterPop, BeforeReady, BeforeAll

\* The same for the running thread outside the critical sections.
LEMMA AtPhase ==
    ASSUME NEW p, At(p)
    PROVE  /\ Appended <=>
                p \in {"sched_reset", "sched_nonempty", "sched_head",
                      "sched_pop", "sched_switch"}
           /\ Popped <=> p = "sched_switch"
           /\ BeforeReady(Top) <=>
                p \in {"create_check_ready", "create_ready"}
           /\ BeforeAll(Top) <=>
                p \in {"create_check_ready", "create_ready",
                      "create_check_all", "create_all"}
BY DEF At, Appended, Popped, AfterAppend, AfterPop, BeforeReady, BeforeAll

LEMMA InitQueue == Init => QueueInv
<1> SUFFICES ASSUME Init PROVE QueueInv
  OBVIOUS
<1>1. \A t \in Thread : /\ frame[t][0] = Fresh("body")
                           \/ frame[t][0] = Fresh("start")
                        /\ depth[t] = 0
  <2>1. 0 \in 0..MaxDepth
    BY ThreadAssumption
  <2> QED BY <2>1 DEF Init
<1>2. cur = MainThread /\ cur \in Thread /\ Created = {cur}
      /\ status[cur] = "RUNNING"
  BY ThreadAssumption DEF Init, Created
<1>3. \A t \in Thread : ~BeforeReady(frame[t][0]) /\ ~BeforeAll(frame[t][0])
  BY <1>1, FreshPhase
<1>4. ~Appended /\ ~Popped
  BY <1>1, <1>2, FreshPhase DEF Appended, Popped, Top
<1>5. Linking = {} /\ Unlisted = {}
  BY <1>3 DEF Linking, Unlisted
<1>6. Queued = {}
  BY <1>2, <1>4, <1>5 DEF Queued
<1>7. Members(ready) = {} /\ NoDuplicates(ready)
  BY DEF Init, Members, NoDuplicates
<1>8. Members(all) = {cur} /\ NoDuplicates(all)
  BY <1>2 DEF Init, Members, NoDuplicates
<1>9. StatusInv
  BY <1>2 DEF StatusInv
<1>10. CreateInv
  BY <1>3 DEF CreateInv
<1> QED BY <1>2, <1>4, <1>5, <1>6, <1>7, <1>8, <1>9, <1>10
        DEF QueueInv, NoThreadLost, AllThreadsListed, NoPanic, Init

\* The level-0 activations after a step of thread_create.
LEMMA CreateUpdate ==
    ASSUME ControlInv, depth[cur] = 0, NEW f \in Activation, cur' = cur,
           depth' = depth, frame' = [frame EXCEPT ![cur][depth[cur]] = f]
    PROVE  /\ cur \in Thread /\ Top' = f
           /\ frame[cur][0] = Top /\ frame'[cur][0] = f
           /\ \A c \in Thread \ {cur} : frame'[c][0] = frame[c][0]
BY TopUpdate, Level DEF ControlInv, Top

LEMMA ThreadCreateQueue ==
    ASSUME ControlInv, QueueInv, NEW t \in Thread, ThreadCreate(t)
    PROVE  QueueInv'
<1> DEFINE f == Fresh("create_page")
<1>1. Top.pc = "body" /\ Top.cs = "out" /\ depth[cur] = 0
  BY Level DEF ThreadCreate, At, ThreadPoints
<1>2. /\ f \in Activation /\ ~BeforeReady(f) /\ ~BeforeAll(f)
      /\ ~AfterAppend(f) /\ ~AfterPop(f) /\ f.pc = "create_page"
  BY FreshType, FreshPhase DEF ThreadPoints
<1> HIDE DEF f
<1>3. /\ cur \in Thread /\ Top' = f
      /\ frame[cur][0] = Top /\ frame'[cur][0] = f
      /\ \A c \in Thread \ {cur} : frame'[c][0] = frame[c][0]
  BY <1>1, <1>2, CreateUpdate DEF ThreadCreate, Goto, f
<1>4. /\ \A c \in Thread \ {cur} : newborn'[c] = newborn[c]
      /\ Created' = Created /\ cur' = cur /\ ready' = ready /\ all' = all
      /\ panic' = panic /\ status' = status /\ thread_tag' = thread_tag
  BY <1>3 DEF ThreadCreate, ControlInv, TypeOK, Created, pcb
<1>5. ~BeforeReady(frame[cur][0]) /\ ~BeforeAll(frame[cur][0])
  BY <1>1, <1>3 DEF BeforeReady, BeforeAll
<1>6. ~Appended /\ ~Popped /\ ~Appended' /\ ~Popped'
  BY <1>1, <1>2, <1>3 DEF Appended, Popped, AfterAppend, AfterPop
<1>7. Linking' = Linking /\ Unlisted' = Unlisted
  BY <1>2, <1>3, <1>4, <1>5 DEF Linking, Unlisted, BeforeReady, BeforeAll
<1>8. Queued' = Queued
  BY <1>4, <1>6, <1>7 DEF Queued
<1>9. NoThreadLost' /\ AllThreadsListed'
  BY <1>4, <1>7, <1>8
     DEF QueueInv, NoThreadLost, AllThreadsListed, NoDuplicates, Members
<1>10. CreateInv'
  <2>2. ~BeforeReady(frame'[cur][0]) /\ ~BeforeAll(frame'[cur][0])
    BY <1>2, <1>3
  <2>3. \A c \in Thread : BeforeReady(frame'[c][0]) =>
           newborn'[c] # cur /\ newborn'[c] = newborn[c]
    BY <1>3, <1>4, <2>2 DEF QueueInv, CreateInv
  <2>4. \A c \in Thread : BeforeAll(frame'[c][0]) =>
           /\ newborn'[c] \in Created /\ newborn'[c] = newborn[c]
           /\ BeforeAll(frame[c][0])
    BY <1>3, <1>4, <2>2 DEF QueueInv, CreateInv
  <2>5. \A c, d \in Thread :
           /\ BeforeAll(frame'[c][0])
           /\ BeforeAll(frame'[d][0])
           /\ newborn'[c] = newborn'[d]
           => c = d
    BY <2>4 DEF QueueInv, CreateInv
  <2>6. \A c \in Thread :
           /\ BeforeReady(frame[c][0])' <=> BeforeReady(frame'[c][0])
           /\ BeforeAll(frame[c][0])' <=> BeforeAll(frame'[c][0])
    BY DEF BeforeReady, BeforeAll
  <2> QED BY <1>4, <2>3, <2>4, <2>5, <2>6 DEF CreateInv
<1>11. StatusInv'
  BY <1>1, <1>4 DEF QueueInv, StatusInv
<1> QED BY <1>4, <1>6, <1>9, <1>10, <1>11 DEF QueueInv, NoPanic

\* The page of the new PCB is free until this step.
LEMMA PageIsFree ==
    ASSUME ControlInv, PageInv, CreatePage
    PROVE  /\ Top.pc = "create_page" /\ Top.cs = "out" /\ depth[cur] = 0
           /\ newborn[cur] \in Thread /\ newborn[cur] \notin Created
           /\ newborn[cur] # cur /\ status[newborn[cur]] = "NONE"
<1>1. /\ Top.pc = "create_page" /\ Top.cs = "out" /\ depth[cur] = 0
      /\ cur \in Thread /\ newborn[cur] \in Thread /\ cur \in Created
  BY Level DEF CreatePage, At, ThreadPoints, ControlInv, TypeOK
<1>2. GettingPage(cur)
  BY <1>1 DEF GettingPage, Top
<1>3. newborn[cur] \notin Created
  BY <1>1, <1>2 DEF PageInv
<1> QED BY <1>1, <1>3 DEF Created

LEMMA CreatePageQueue ==
    ASSUME ControlInv, PageInv, QueueInv, CreatePage
    PROVE  QueueInv'
<1> DEFINE f == Fresh("create_check_ready")
<1>0. PICK t \in Thread : t = newborn[cur]
  BY PageIsFree
<1>1. /\ Top.pc = "create_page" /\ Top.cs = "out" /\ depth[cur] = 0
      /\ t \in Thread /\ t \notin Created /\ t # cur /\ status[t] = "NONE"
  BY <1>0, PageIsFree
<1>2. /\ f \in Activation /\ BeforeReady(f) /\ BeforeAll(f)
      /\ ~AfterAppend(f) /\ ~AfterPop(f) /\ f.pc = "create_check_ready"
  BY FreshType, FreshPhase DEF ThreadPoints
<1> HIDE DEF f
<1>3. /\ cur \in Thread /\ Top' = f
      /\ frame[cur][0] = Top /\ frame'[cur][0] = f
      /\ \A c \in Thread \ {cur} : frame'[c][0] = frame[c][0]
  BY <1>1, <1>2, CreateUpdate DEF CreatePage, Goto, f
<1>4. /\ newborn'[cur] = t
      /\ \A c \in Thread \ {cur} : newborn'[c] = newborn[c]
      /\ Created' = Created \cup {t}
      /\ cur' = cur /\ ready' = ready /\ all' = all /\ panic' = panic
      /\ status'[cur] = status[cur]
  BY <1>0, <1>1, <1>3
     DEF CreatePage, KernelAssert, QueueInv, NoPanic, ControlInv, TypeOK,
         Created
<1>5. ~BeforeReady(frame[cur][0]) /\ ~BeforeAll(frame[cur][0])
  BY <1>1, <1>3 DEF BeforeReady, BeforeAll
<1>6. ~Appended /\ ~Popped /\ ~Appended' /\ ~Popped'
  BY <1>1, <1>2, <1>3 DEF Appended, Popped, AfterAppend, AfterPop
<1>7. Linking' = Linking \cup {t}
  BY <1>2, <1>3, <1>4, <1>5 DEF Linking, BeforeReady
<1>8. Unlisted' = Unlisted \cup {t}
  BY <1>2, <1>3, <1>4, <1>5 DEF Unlisted, BeforeAll
<1>9. NoThreadLost'
  <2>1. Queued' = Queued
    BY <1>1, <1>4, <1>6, <1>7 DEF Queued
  <2> QED BY <1>4, <2>1 DEF QueueInv, NoThreadLost, NoDuplicates, Members
<1>10. AllThreadsListed'
  <2>1. Created' \ Unlisted' = Created \ Unlisted
    BY <1>1, <1>4, <1>8
  <2> QED BY <1>4, <2>1 DEF QueueInv, AllThreadsListed, NoDuplicates, Members
<1>11. CreateInv'
  <2>1. \A c \in Thread \ {cur} :
           /\ BeforeReady(frame[c][0])' <=> BeforeReady(frame[c][0])
           /\ BeforeAll(frame[c][0])' <=> BeforeAll(frame[c][0])
    BY <1>3 DEF BeforeReady, BeforeAll
  <2>2. \A c \in Thread \ {cur} : BeforeAll(frame[c][0]) =>
           newborn'[c] \in Created /\ newborn'[c] # t
    BY <1>1, <1>4 DEF QueueInv, CreateInv
  <2> QED BY <1>1, <1>3, <1>4, <2>1, <2>2 DEF QueueInv, CreateInv
<1>12. StatusInv'
  BY <1>1, <1>4 DEF QueueInv, StatusInv
<1> QED BY <1>4, <1>6, <1>9, <1>10, <1>11, <1>12 DEF QueueInv, NoPanic

LEMMA CreateAppendReadyQueue ==
    ASSUME ControlInv, QueueInv, CreateAppendReady
    PROVE  QueueInv'
<1> DEFINE f == [frame[cur][depth[cur]] EXCEPT !.cs = "done"]
           n == newborn[cur]
<1>1. /\ Top.pc = "create_ready" /\ Top.cs = "in" /\ depth[cur] = 0
      /\ Top \in Activation
  BY Level DEF CreateAppendReady, InSection, ThreadPoints
<1>2. /\ f \in Activation /\ f.pc = "create_ready" /\ f.cs = "done"
      /\ frame' = [frame EXCEPT ![cur][depth[cur]] = f]
  BY <1>1 DEF Activation, Top, CreateAppendReady, LeaveSection
<1> HIDE DEF f
<1>3. /\ cur \in Thread /\ Top' = f
      /\ frame[cur][0] = Top /\ frame'[cur][0] = f
      /\ \A c \in Thread \ {cur} : frame'[c][0] = frame[c][0]
  BY <1>1, <1>2, CreateUpdate DEF CreateAppendReady
<1>4. /\ cur' = cur /\ newborn' = newborn /\ all' = all /\ panic' = panic
      /\ status' = status /\ Created' = Created
      /\ ready' = Append(ready, n)
  BY DEF CreateAppendReady, pcb, Created
<1>5. /\ BeforeReady(frame[cur][0]) /\ BeforeAll(frame[cur][0])
      /\ ~BeforeReady(f) /\ BeforeAll(f)
  BY <1>1, <1>2, <1>3 DEF BeforeReady, BeforeAll
<1>6. ~Appended /\ ~Popped /\ ~Appended' /\ ~Popped'
  BY <1>1, <1>2, <1>3 DEF Appended, Popped, AfterAppend, AfterPop
<1>7. n \in Created /\ n # cur /\ n \in Linking /\ n \in Thread
  BY <1>3, <1>5 DEF QueueInv, CreateInv, Linking, ControlInv, TypeOK, Created
<1>8. \A c \in Thread \ {cur} : BeforeReady(frame[c][0]) => newborn[c] # n
  <2>1. \A c \in Thread : BeforeReady(frame[c][0]) => BeforeAll(frame[c][0])
    BY DEF BeforeReady, BeforeAll
  <2> QED BY <1>3, <1>5, <2>1 DEF QueueInv, CreateInv
<1>9. \A c \in Thread :
         /\ BeforeReady(frame[c][0])' <=> c # cur /\ BeforeReady(frame[c][0])
         /\ BeforeAll(frame[c][0])' <=> BeforeAll(frame[c][0])
  BY <1>3, <1>5 DEF BeforeReady, BeforeAll
<1>10. Linking' = Linking \ {n}
  <2>1. Linking' = {t \in Thread : \E c \in Thread :
                      newborn[c] = t /\ BeforeReady(frame[c][0])'}
    BY <1>4 DEF Linking
  <2> QED BY <1>3, <1>8, <1>9, <2>1 DEF Linking
<1>11. Unlisted' = Unlisted
  <2>1. Unlisted' = {t \in Thread : \E c \in Thread :
                       newborn[c] = t /\ BeforeAll(frame[c][0])'}
    BY <1>4 DEF Unlisted
  <2> QED BY <1>9, <2>1 DEF Unlisted
<1>12. NoThreadLost'
  <2>1. Queued' = Queued \cup {n}
    BY <1>4, <1>6, <1>7, <1>10 DEF Queued
  <2>2. n \notin Members(ready)
    BY <1>6, <1>7 DEF QueueInv, NoThreadLost, Queued
  <2>3. /\ Members(ready') = Members(ready) \cup {n}
        /\ NoDuplicates(ready')
    BY <1>4, <1>7, <2>2, MembersAppend
       DEF ControlInv, TypeOK, QueueInv, NoThreadLost
  <2>4. Members(ready)' = Members(ready') /\ NoDuplicates(ready)' = NoDuplicates(ready')
    BY DEF Members, NoDuplicates
  <2> QED BY <2>1, <2>3, <2>4 DEF QueueInv, NoThreadLost
<1>13. AllThreadsListed'
  BY <1>4, <1>11 DEF QueueInv, AllThreadsListed, NoDuplicates, Members
<1>14. CreateInv'
  BY <1>4, <1>9 DEF QueueInv, CreateInv
<1>15. StatusInv'
  BY <1>1, <1>4 DEF QueueInv, StatusInv
<1> QED BY <1>4, <1>6, <1>12, <1>13, <1>14, <1>15 DEF QueueInv, NoPanic

LEMMA CreateAppendAllQueue ==
    ASSUME ControlInv, QueueInv, CreateAppendAll
    PROVE  QueueInv'
<1> DEFINE f == [frame[cur][depth[cur]] EXCEPT !.cs = "done"]
           n == newborn[cur]
<1>1. /\ Top.pc = "create_all" /\ Top.cs = "in" /\ depth[cur] = 0
      /\ Top \in Activation
  BY Level DEF CreateAppendAll, InSection, ThreadPoints
<1>2. /\ f \in Activation /\ f.pc = "create_all" /\ f.cs = "done"
      /\ frame' = [frame EXCEPT ![cur][depth[cur]] = f]
  BY <1>1 DEF Activation, Top, CreateAppendAll, LeaveSection
<1> HIDE DEF f
<1>3. /\ cur \in Thread /\ Top' = f
      /\ frame[cur][0] = Top /\ frame'[cur][0] = f
      /\ \A c \in Thread \ {cur} : frame'[c][0] = frame[c][0]
  BY <1>1, <1>2, CreateUpdate DEF CreateAppendAll
<1>4. /\ cur' = cur /\ newborn' = newborn /\ ready' = ready
      /\ panic' = panic /\ status' = status /\ Created' = Created
      /\ all' = Append(all, n)
  BY DEF CreateAppendAll, pcb, Created
<1>5. /\ ~BeforeReady(frame[cur][0]) /\ BeforeAll(frame[cur][0])
      /\ ~BeforeReady(f) /\ ~BeforeAll(f)
  BY <1>1, <1>2, <1>3 DEF BeforeReady, BeforeAll
<1>6. ~Appended /\ ~Popped /\ ~Appended' /\ ~Popped'
  BY <1>1, <1>2, <1>3 DEF Appended, Popped, AfterAppend, AfterPop
<1>7. n \in Created /\ n \in Unlisted /\ n \in Thread
  BY <1>3, <1>5 DEF QueueInv, CreateInv, Unlisted, ControlInv, TypeOK, Created
<1>8. \A c \in Thread \ {cur} : BeforeAll(frame[c][0]) => newborn[c] # n
  BY <1>3, <1>5 DEF QueueInv, CreateInv
<1>9. \A c \in Thread :
         /\ BeforeReady(frame[c][0])' <=> BeforeReady(frame[c][0])
         /\ BeforeAll(frame[c][0])' <=> c # cur /\ BeforeAll(frame[c][0])
  BY <1>3, <1>5 DEF BeforeReady, BeforeAll
<1>10. Linking' = Linking
  <2>1. Linking' = {t \in Thread : \E c \in Thread :
                      newborn[c] = t /\ BeforeReady(frame[c][0])'}
    BY <1>4 DEF Linking
  <2> QED BY <1>9, <2>1 DEF Linking
<1>11. Unlisted' = Unlisted \ {n}
  <2>1. Unlisted' = {t \in Thread : \E c \in Thread :
                       newborn[c] = t /\ BeforeAll(frame[c][0])'}
    BY <1>4 DEF Unlisted
  <2> QED BY <1>3, <1>8, <1>9, <2>1 DEF Unlisted
<1>12. NoThreadLost'
  <2>1. Queued' = Queued
    BY <1>4, <1>6, <1>10 DEF Queued
  <2> QED BY <1>4, <2>1 DEF QueueInv, NoThreadLost, NoDuplicates, Members
<1>13. AllThreadsListed'
  <2>1. n \notin Members(all)
    BY <1>7 DEF QueueInv, AllThreadsListed
  <2>2. /\ Members(all') = Members(all) \cup {n}
        /\ NoDuplicates(all')
    BY <1>4, <1>7, <2>1, MembersAppend
       DEF ControlInv, TypeOK, QueueInv, AllThreadsListed
  <2>3. Members(all)' = Members(all') /\ NoDuplicates(all)' = NoDuplicates(all')
    BY DEF Members, NoDuplicates
  <2> QED BY <1>4, <1>7, <1>11, <2>2, <2>3 DEF QueueInv, AllThreadsListed
<1>14. CreateInv'
  BY <1>4, <1>9 DEF QueueInv, CreateInv
<1>15. StatusInv'
  BY <1>1, <1>4 DEF QueueInv, StatusInv
<1> QED BY <1>4, <1>6, <1>12, <1>13, <1>14, <1>15 DEF QueueInv, NoPanic

\* A step of the scheduler within its critical section or at the switch
\* leaves every thread_create where it is.
LEMMA CreationsUntouched ==
    ASSUME newborn' = newborn, Created' = Created, all' = all,
           \A t \in Thread : frame'[t][0] = frame[t][0], QueueInv
    PROVE  /\ Linking' = Linking
           /\ AllThreadsListed'
           /\ (\A c \in Thread : BeforeReady(frame[c][0]) => newborn[c] # cur')
                 => CreateInv'
<1>1. \A c \in Thread :
         /\ BeforeReady(frame[c][0])' <=> BeforeReady(frame[c][0])
         /\ BeforeAll(frame[c][0])' <=> BeforeAll(frame[c][0])
  BY DEF BeforeReady, BeforeAll
<1>2. Linking' = Linking
  <2>1. Linking' = {t \in Thread : \E c \in Thread :
                      newborn[c] = t /\ BeforeReady(frame[c][0])'}
    BY DEF Linking
  <2> QED BY <1>1, <2>1 DEF Linking
<1>3. Unlisted' = Unlisted
  <2>1. Unlisted' = {t \in Thread : \E c \in Thread :
                       newborn[c] = t /\ BeforeAll(frame[c][0])'}
    BY DEF Unlisted
  <2> QED BY <1>1, <2>1 DEF Unlisted
<1>4. AllThreadsListed'
  BY <1>3 DEF QueueInv, AllThreadsListed, NoDuplicates, Members
<1> QED BY <1>1, <1>2, <1>4 DEF QueueInv, CreateInv

\* The handler's frame is the one that changes in a step of the scheduler.
LEMMA ScheduleUpdate ==
    ASSUME ControlInv, depth[cur] = 1, NEW f \in Activation,
           frame' = [frame EXCEPT ![cur][depth[cur]] = f]
    PROVE  /\ cur \in Thread /\ frame'[cur][1] = f
           /\ \A t \in Thread : frame'[t][0] = frame[t][0]
           /\ \A t \in Thread \ {cur} : frame'[t] = frame[t]
BY HandlerUpdate, Level DEF ControlInv, TypeOK

LEMMA ScheduleAppendQueue ==
    ASSUME ControlInv, QueueInv, ScheduleAppend
    PROVE  QueueInv'
<1> DEFINE f == [frame[cur][depth[cur]] EXCEPT !.cs = "done"]
<1>1. /\ Top.pc = "sched_append" /\ Top.cs = "in" /\ depth[cur] = 1
      /\ Top \in Activation
  BY Level DEF ScheduleAppend, InSection, HandlerPoints
<1>2. /\ f \in Activation /\ f.pc = "sched_append" /\ f.cs = "done"
      /\ frame' = [frame EXCEPT ![cur][depth[cur]] = f]
  BY <1>1 DEF Activation, Top, ScheduleAppend, LeaveSection
<1> HIDE DEF f
<1>3. /\ cur \in Thread /\ frame'[cur][1] = f
      /\ \A t \in Thread : frame'[t][0] = frame[t][0]
  BY <1>1, <1>2, ScheduleUpdate
<1>4. /\ cur' = cur /\ newborn' = newborn /\ all' = all /\ depth' = depth
      /\ panic' = panic /\ status' = status /\ Created' = Created
      /\ ready' = Append(ready, cur)
  BY DEF ScheduleAppend, pcb, Created
<1>5. Top' = f
  BY <1>1, <1>3, <1>4 DEF Top
<1>6. ~Appended /\ ~Popped /\ Appended' /\ ~Popped'
  BY <1>1, <1>2, <1>5 DEF Appended, Popped, AfterAppend, AfterPop
<1>7. Linking' = Linking /\ AllThreadsListed' /\ CreateInv'
  BY <1>3, <1>4, CreationsUntouched DEF QueueInv, CreateInv
<1>8. NoThreadLost'
  <2>1. Queued' = Queued \cup {cur} /\ cur \notin Queued
    BY <1>4, <1>6, <1>7 DEF Queued
  <2>2. cur \notin Members(ready)
    BY <2>1 DEF QueueInv, NoThreadLost
  <2>3. /\ Members(ready') = Members(ready) \cup {cur}
        /\ NoDuplicates(ready')
    BY <1>3, <1>4, <2>2, MembersAppend
       DEF ControlInv, TypeOK, QueueInv, NoThreadLost
  <2>4. Members(ready)' = Members(ready') /\ NoDuplicates(ready)' = NoDuplicates(ready')
    BY DEF Members, NoDuplicates
  <2> QED BY <2>1, <2>3, <2>4 DEF QueueInv, NoThreadLost
<1>9. StatusInv'
  BY <1>1, <1>4 DEF QueueInv, StatusInv
<1> QED BY <1>4, <1>6, <1>7, <1>8, <1>9 DEF QueueInv, NoPanic

LEMMA ScheduleRemoveQueue ==
    ASSUME ControlInv, QueueInv, ScheduleRemove
    PROVE  QueueInv'
<1> DEFINE f == [frame[cur][depth[cur]] EXCEPT !.cs = "done"]
<1>1. /\ Top.pc = "sched_pop" /\ Top.cs = "in" /\ depth[cur] = 1
      /\ Top \in Activation /\ ~panic
  BY Level DEF ScheduleRemove, InSection, HandlerPoints
<1>2. /\ f \in Activation /\ f.pc = "sched_pop" /\ f.cs = "done"
      /\ frame' = [frame EXCEPT ![cur][depth[cur]] = f]
  BY <1>1 DEF Activation, Top, ScheduleRemove, LeaveSection
<1> HIDE DEF f
<1>3. /\ cur \in Thread /\ frame'[cur][1] = f
      /\ \A t \in Thread : frame'[t][0] = frame[t][0]
  BY <1>1, <1>2, ScheduleUpdate
<1>4. /\ cur' = cur /\ newborn' = newborn /\ all' = all /\ depth' = depth
      /\ panic' = panic /\ status' = status /\ Created' = Created
      /\ thread_tag' = thread_tag /\ ready' = Tail(ready)
  BY DEF ScheduleRemove, pcb, Created
<1>5. Top' = f
  BY <1>1, <1>3, <1>4 DEF Top
<1>6. Appended /\ ~Popped /\ Appended' /\ Popped'
  BY <1>1, <1>2, <1>5 DEF Appended, Popped, AfterAppend, AfterPop
<1>7. Linking' = Linking /\ AllThreadsListed' /\ CreateInv'
  BY <1>3, <1>4, CreationsUntouched DEF QueueInv, CreateInv
<1>8. ready # <<>> /\ thread_tag = Head(ready)
  BY <1>1 DEF ControlInv, NextExists
<1>9. /\ Members(ready) = Members(ready') \cup {thread_tag}
      /\ thread_tag \notin Members(ready')
      /\ NoDuplicates(ready')
  BY <1>4, <1>8, MembersTail DEF ControlInv, TypeOK, QueueInv, NoThreadLost
<1>10. thread_tag \notin Linking
  <2>1. thread_tag \in Queued
    BY <1>9 DEF QueueInv, NoThreadLost
  <2>2. cur \notin Linking
    BY DEF QueueInv, CreateInv, Linking
  <2> QED BY <1>6, <2>1, <2>2 DEF Queued
<1>11. NoThreadLost'
  <2>1. Queued' = Queued \ {thread_tag}
    BY <1>4, <1>6, <1>7 DEF Queued
  <2>2. Members(ready)' = Members(ready') /\ NoDuplicates(ready)' = NoDuplicates(ready')
    BY DEF Members, NoDuplicates
  <2> QED BY <1>9, <2>1, <2>2 DEF QueueInv, NoThreadLost
<1>12. StatusInv'
  BY <1>2, <1>5 DEF StatusInv
<1> QED BY <1>4, <1>7, <1>10, <1>11, <1>12 DEF QueueInv, NoPanic

LEMMA ScheduleSwitchQueue ==
    ASSUME ControlInv, QueueInv, ScheduleSwitch
    PROVE  QueueInv'
<1> DEFINE f == Fresh("iret")
<1>1. /\ Top.pc = "sched_switch" /\ Top.cs = "out" /\ depth[cur] = 1
      /\ thread_tag \in Created /\ thread_tag \in Thread
  BY Level DEF ScheduleSwitch, At, HandlerPoints, ControlInv, NextExists, TypeOK
<1>2. f \in Activation /\ frame' = [frame EXCEPT ![cur][depth[cur]] = f]
  BY FreshType DEF ScheduleSwitch, Goto, HandlerPoints
<1> HIDE DEF f
<1>3. /\ cur \in Thread /\ frame'[cur][1] = f
      /\ \A t \in Thread : frame'[t][0] = frame[t][0]
      /\ \A t \in Thread \ {cur} : frame'[t] = frame[t]
  BY <1>1, <1>2, ScheduleUpdate
<1>4. /\ cur' = thread_tag /\ newborn' = newborn /\ all' = all
      /\ depth' = depth /\ panic' = panic /\ ready' = ready
      /\ status' = [status EXCEPT ![thread_tag] = "RUNNING"]
  BY DEF ScheduleSwitch
<1>5. Created' = Created /\ status'[cur'] = "RUNNING"
  BY <1>1, <1>4 DEF Created, ControlInv, TypeOK
<1>6. Top' = Fresh("iret") \/ Top' = Fresh("start")
  <2>1. CASE thread_tag = cur
    BY <1>1, <1>3, <1>4, <2>1 DEF Top, f
  <2>2. CASE thread_tag # cur
    <3>1. Suspended(thread_tag) /\ frame'[thread_tag] = frame[thread_tag]
      BY <1>1, <1>3, <2>2 DEF ControlInv
    <3>2. Top' = frame[thread_tag][depth[thread_tag]]
      BY <1>4, <3>1 DEF Top
    <3> QED BY <3>1, <3>2 DEF Suspended
  <2> QED BY <2>1, <2>2
<1>7. Appended /\ Popped /\ ~Appended' /\ ~Popped'
  <2>1. ~AfterAppend(Fresh("iret")) /\ ~AfterPop(Fresh("iret"))
        /\ ~AfterAppend(Fresh("start")) /\ ~AfterPop(Fresh("start"))
    BY FreshPhase
  <2>2. ~AfterAppend(Top') /\ ~AfterPop(Top')
    BY <1>6, <2>1
  <2>3. ~Appended' /\ ~Popped'
    BY <2>2 DEF Appended, Popped, AfterAppend, AfterPop
  <2> QED BY <1>1, <2>3 DEF Appended, Popped, AfterAppend, AfterPop
<1>8. thread_tag \notin Linking /\ cur \notin Linking
  BY <1>7 DEF QueueInv, CreateInv, Linking
<1>9. \A c \in Thread : BeforeReady(frame[c][0]) => newborn[c] # cur'
  BY <1>1, <1>4, <1>8 DEF Linking
<1>10. Linking' = Linking /\ AllThreadsListed' /\ CreateInv'
  BY <1>3, <1>4, <1>5, <1>9, CreationsUntouched
<1>11. NoThreadLost'
  <2>1. Queued = (((Created \ Linking) \ {cur}) \cup {cur})
                    \ {thread_tag}
    BY <1>7 DEF Queued
  <2>2. Queued' = (Created \ Linking) \ {thread_tag}
    BY <1>4, <1>5, <1>7, <1>10 DEF Queued
  <2>3. Queued' = Queued
    BY <1>8, <2>1, <2>2 DEF ControlInv
  <2> QED BY <1>4, <2>3 DEF QueueInv, NoThreadLost, NoDuplicates, Members
<1>12. StatusInv'
  BY <1>5 DEF StatusInv
<1> QED BY <1>4, <1>7, <1>10, <1>11, <1>12 DEF QueueInv, NoPanic

LEMMA NextQueue == ControlInv /\ PageInv /\ QueueInv /\ [Next]_vars => QueueInv'
<1> SUFFICES ASSUME ControlInv, PageInv, QueueInv, [Next]_vars
             PROVE  QueueInv'
  OBVIOUS
<1>0. /\ ~panic /\ cur \in Thread /\ depth[cur] \in {0, 1}
      /\ StatusInv
  BY Level DEF QueueInv, NoPanic
<1>1. CASE UNCHANGED vars
  BY <1>0, <1>1, QueueSame
     DEF vars, pcb, Created, Appended, Popped, StatusInv, Top
<1>2. CASE TimerTick
  BY <1>0, <1>2, QueueSame
     DEF TimerTick, pcb, Created, Appended, Popped, StatusInv, Top
<1>3. CASE Interrupt
  <2> DEFINE f == Fresh("eoi")
  <2>1. depth[cur] = 0 /\ Top.pc \in ThreadPoints
    BY <1>3, Level DEF Interrupt, ControlInv, Masked
  <2>2. f \in Activation /\ ~AfterAppend(f) /\ ~AfterPop(f) /\ f.pc = "eoi"
    BY FreshType, FreshPhase DEF HandlerPoints
  <2> HIDE DEF f
  <2>3. /\ frame' = [frame EXCEPT ![cur][1] = f] /\ depth'[cur] = 1
        /\ cur' = cur /\ newborn' = newborn /\ ready' = ready /\ all' = all
        /\ status' = status /\ panic' = panic /\ thread_tag' = thread_tag
    BY <1>0, <1>3, <2>1 DEF Interrupt, ControlInv, TypeOK, pcb, f
  <2>4. frame'[cur][1] = f /\ \A t \in Thread : frame'[t][0] = frame[t][0]
    BY <1>0, <2>2, <2>3, HandlerUpdate DEF ControlInv, TypeOK
  <2>5. Top' = f
    BY <2>3, <2>4 DEF Top
  <2>6. ~Appended /\ ~Popped /\ ~Appended' /\ ~Popped'
    BY <2>1, <2>2, <2>5
       DEF Appended, Popped, AfterAppend, AfterPop, ThreadPoints
  <2>7. StatusInv' /\ Created' = Created
    BY <1>0, <2>1, <2>3 DEF StatusInv, ThreadPoints, Created
  <2> QED BY <1>0, <2>3, <2>4, <2>6, <2>7, QueueSame
<1>4. ASSUME NEW op \in ListOps, Disable(op) PROVE QueueInv'
  <2> DEFINE f == [pc |-> op, cs |-> "in", old |-> intr_on]
  <2>1. /\ f \in Activation /\ f.pc = op /\ f.cs = "in"
    BY DEF ControlInv, TypeOK, Activation, ListOps, ThreadPoints,
           HandlerPoints
  <2>2. /\ frame' = [frame EXCEPT ![cur][depth[cur]] = f]
        /\ Top.pc = op /\ Top.cs = "out"
    BY <1>4 DEF Disable, At
  <2> HIDE DEF f
  <2>3. /\ AfterAppend(f) <=> AfterAppend(Top)
        /\ AfterPop(f) <=> AfterPop(Top)
        /\ BeforeReady(f) <=> BeforeReady(Top)
        /\ BeforeAll(f) <=> BeforeAll(Top)
    BY <2>1, <2>2, <1>4
       DEF AfterAppend, AfterPop, BeforeReady, BeforeAll, ListOps
  <2>4. f.pc = "sched_pop" \/ status'[cur] = "RUNNING"
    BY <1>0, <1>4, <2>1, <2>2 DEF StatusInv, Disable, pcb, ListOps
  <2>5. /\ cur' = cur /\ depth' = depth /\ newborn' = newborn /\ all' = all
        /\ ready' = ready /\ Created' = Created /\ ~panic'
        /\ thread_tag' = thread_tag
    BY <1>0, <1>4 DEF Disable, pcb, Created
  <2> QED BY <2>1, <2>2, <2>3, <2>4, <2>5, QueueStep
<1>5. ASSUME NEW op \in ListOps, NEW next, Restore(op, next),
             \/ op = "create_ready" /\ next = "create_check_all"
             \/ op = "create_all" /\ next = "body"
             \/ op = "sched_append" /\ next = "sched_reset"
             \/ op = "sched_pop" /\ next = "sched_switch"
      PROVE  QueueInv'
  <2>1. Top.pc = op /\ Top.cs = "done" /\ Goto(next)
        /\ next \in ThreadPoints \cup HandlerPoints
    BY <1>5 DEF Restore, ThreadPoints, HandlerPoints
  <2>2. /\ AfterAppend(Fresh(next)) <=> AfterAppend(Top)
        /\ AfterPop(Fresh(next)) <=> AfterPop(Top)
        /\ BeforeReady(Fresh(next)) <=> BeforeReady(Top)
        /\ BeforeAll(Fresh(next)) <=> BeforeAll(Top)
    BY <1>5, <2>1, FreshPhase
       DEF AfterAppend, AfterPop, BeforeReady, BeforeAll
  <2>3. next = "sched_switch" \/ status'[cur] = "RUNNING"
    BY <1>0, <1>5, <2>1 DEF StatusInv, Restore, pcb
  <2>4. /\ cur' = cur /\ depth' = depth /\ newborn' = newborn /\ all' = all
        /\ ready' = ready /\ Created' = Created /\ ~panic'
        /\ thread_tag' = thread_tag
    BY <1>0, <1>5 DEF Restore, pcb, Created
  <2> QED BY <2>1, <2>2, <2>3, <2>4, QueueGoto
<1>6. CASE KernelThread
  <2>1. At("start") /\ Goto("body") /\ "body" \in ThreadPoints
    BY <1>6 DEF KernelThread, ThreadPoints
  <2>2. /\ cur' = cur /\ depth' = depth /\ newborn' = newborn /\ all' = all
        /\ ready' = ready /\ Created' = Created /\ ~panic'
        /\ thread_tag' = thread_tag /\ status'[cur] = "RUNNING"
    BY <1>0, <1>6 DEF KernelThread, pcb, Created, StatusInv, At
  <2> QED BY <2>1, <2>2, FreshPhase, AtPhase, QueueGoto DEF Appended, Popped
<1>7. CASE EnableInterrupts
  <2>1. Top' = Top /\ frame' = frame /\ Created' = Created
    BY <1>7 DEF EnableInterrupts, Top, pcb, Created
  <2>2. StatusInv' /\ (Appended' <=> Appended) /\ (Popped' <=> Popped)
    BY <1>0, <1>7, <2>1
       DEF EnableInterrupts, StatusInv, Appended, Popped, AfterAppend,
           AfterPop, pcb
  <2> QED BY <1>0, <1>7, <2>1, <2>2, QueueSame DEF EnableInterrupts
<1>8. ASSUME NEW t \in Thread, ThreadCreate(t) PROVE QueueInv'
  BY <1>8, ThreadCreateQueue
<1>9. CASE CreateCheckReady
  <2>1. At("create_check_ready") /\ Goto("create_ready")
        /\ "create_ready" \in ThreadPoints
    BY <1>9 DEF CreateCheckReady, ThreadPoints
  <2>2. frame[cur][0] = Top
    BY <2>1, Level DEF At, ThreadPoints, Top
  <2>3. newborn[cur] \in Linking /\ newborn[cur] # cur
    BY <1>0, <2>1, <2>2, AtPhase
       DEF Linking, QueueInv, CreateInv, ControlInv, TypeOK
  <2>4. newborn[cur] \notin Members(ready)
    BY <2>1, <2>3, AtPhase DEF QueueInv, NoThreadLost, Queued
  <2>5. /\ cur' = cur /\ depth' = depth /\ newborn' = newborn /\ all' = all
        /\ ready' = ready /\ Created' = Created /\ ~panic'
        /\ thread_tag' = thread_tag /\ status'[cur] = "RUNNING"
    BY <1>0, <1>9, <2>4
       DEF CreateCheckReady, KernelAssert, pcb, Created, StatusInv, At
  <2> QED BY <2>1, <2>5, FreshPhase, AtPhase, QueueGoto DEF Appended, Popped
<1>10. CASE CreateCheckAll
  <2>1. At("create_check_all") /\ Goto("create_all")
        /\ "create_all" \in ThreadPoints
    BY <1>10 DEF CreateCheckAll, ThreadPoints
  <2>2. frame[cur][0] = Top
    BY <2>1, Level DEF At, ThreadPoints, Top
  <2>3. newborn[cur] \in Unlisted
    BY <1>0, <2>1, <2>2, AtPhase DEF Unlisted, ControlInv, TypeOK
  <2>4. newborn[cur] \notin Members(all)
    BY <2>3 DEF QueueInv, AllThreadsListed
  <2>5. /\ cur' = cur /\ depth' = depth /\ newborn' = newborn /\ all' = all
        /\ ready' = ready /\ Created' = Created /\ ~panic'
        /\ thread_tag' = thread_tag /\ status'[cur] = "RUNNING"
    BY <1>0, <1>10, <2>4
       DEF CreateCheckAll, KernelAssert, pcb, Created, StatusInv, At
  <2> QED BY <2>1, <2>5, FreshPhase, AtPhase, QueueGoto DEF Appended, Popped
<1>11. CASE SendEoi
  <2>1. At("eoi") /\ Goto("handler") /\ "handler" \in HandlerPoints
    BY <1>11 DEF SendEoi, HandlerPoints
  <2>2. /\ cur' = cur /\ depth' = depth /\ newborn' = newborn /\ all' = all
        /\ ready' = ready /\ Created' = Created /\ ~panic'
        /\ thread_tag' = thread_tag /\ status'[cur] = "RUNNING"
    BY <1>0, <1>11 DEF SendEoi, pcb, Created, StatusInv, At
  <2> QED BY <2>1, <2>2, FreshPhase, AtPhase, QueueGoto DEF Appended, Popped
<1>12. CASE TimerHandler
  <2>1. At("handler") /\ {"sched", "iret"} \subseteq HandlerPoints
        /\ (Goto("sched") \/ Goto("iret"))
    BY <1>12 DEF TimerHandler, HandlerPoints
  <2>2. /\ cur' = cur /\ depth' = depth /\ newborn' = newborn /\ all' = all
        /\ ready' = ready /\ Created' = Created /\ ~panic'
        /\ thread_tag' = thread_tag /\ status'[cur] = "RUNNING"
    BY <1>0, <1>12 DEF TimerHandler, Created, StatusInv, At
  <2> QED BY <2>1, <2>2, FreshPhase, AtPhase, QueueGoto DEF Appended, Popped
<1>13. CASE InterruptReturn
  <2>1. depth[cur] = 1 /\ At("iret")
    BY <1>13, Level DEF InterruptReturn, At, HandlerPoints
  <2>2. /\ depth'[cur] = 0 /\ cur' = cur /\ frame' = frame
        /\ newborn' = newborn /\ ready' = ready /\ all' = all
        /\ status' = status /\ ~panic' /\ thread_tag' = thread_tag
    BY <1>0, <1>13, <2>1 DEF InterruptReturn, ControlInv, TypeOK, pcb
  <2>3. Top' = frame[cur][0] /\ Top'.pc \in ThreadPoints
    BY <1>0, <2>2 DEF Top, ControlInv, Shape
  <2>4. ~Appended /\ ~Popped /\ ~Appended' /\ ~Popped'
    BY <2>1, <2>3, AtPhase
       DEF Appended, Popped, AfterAppend, AfterPop, ThreadPoints
  <2>5. StatusInv' /\ Created' = Created
    BY <1>0, <2>1, <2>2 DEF StatusInv, At, Created
  <2> QED BY <2>2, <2>4, <2>5, QueueSame
<1>14. CASE ScheduleEntry
  <2>1. At("sched") /\ status[cur] = "RUNNING" /\ Goto("sched_check")
        /\ "sched_check" \in HandlerPoints
    BY <1>0, <1>14 DEF ScheduleEntry, At, StatusInv, HandlerPoints
  <2>2. ~intr_on
    BY <2>1, Level DEF At, HandlerPoints
  <2>3. /\ cur' = cur /\ depth' = depth /\ newborn' = newborn /\ all' = all
        /\ ready' = ready /\ Created' = Created /\ ~panic'
        /\ thread_tag' = thread_tag /\ status'[cur] = "RUNNING"
    BY <1>14, <2>1, <2>2 DEF ScheduleEntry, KernelAssert, pcb, Created
  <2> QED BY <2>1, <2>3, FreshPhase, AtPhase, QueueGoto DEF Appended, Popped
<1>15. CASE ScheduleCheck
  <2>1. At("sched_check") /\ Goto("sched_append")
        /\ "sched_append" \in HandlerPoints
    BY <1>15 DEF ScheduleCheck, HandlerPoints
  <2>2. cur \notin Members(ready)
    BY <2>1, AtPhase DEF QueueInv, NoThreadLost, Queued
  <2>3. /\ cur' = cur /\ depth' = depth /\ newborn' = newborn /\ all' = all
        /\ ready' = ready /\ Created' = Created /\ ~panic'
        /\ thread_tag' = thread_tag /\ status'[cur] = "RUNNING"
    BY <1>0, <1>15, <2>1, <2>2
       DEF ScheduleCheck, KernelAssert, pcb, Created, StatusInv, At
  <2> QED BY <2>1, <2>3, FreshPhase, AtPhase, QueueGoto DEF Appended, Popped
<1>16. CASE ScheduleReset
  <2>1. At("sched_reset") /\ Goto("sched_nonempty")
        /\ "sched_nonempty" \in HandlerPoints
    BY <1>16 DEF ScheduleReset, HandlerPoints
  <2>2. Created' = Created
    BY <1>0, <1>16 DEF ScheduleReset, Created, ControlInv, TypeOK
  <2>3. /\ cur' = cur /\ depth' = depth /\ newborn' = newborn /\ all' = all
        /\ ready' = ready /\ ~panic' /\ thread_tag' = thread_tag
    BY <1>0, <1>16 DEF ScheduleReset
  <2> QED BY <2>1, <2>2, <2>3, FreshPhase, AtPhase, QueueGoto
          DEF Appended, Popped
<1>17. CASE ScheduleNonEmpty
  <2>1. At("sched_nonempty") /\ Goto("sched_head")
        /\ "sched_head" \in HandlerPoints
    BY <1>17 DEF ScheduleNonEmpty, HandlerPoints
  <2>2. ready # <<>>
    <3>1. cur \in Members(ready)
      BY <1>0, <2>1, AtPhase DEF QueueInv, NoThreadLost, Queued
    <3> QED BY <3>1 DEF Members
  <2>3. /\ cur' = cur /\ depth' = depth /\ newborn' = newborn /\ all' = all
        /\ ready' = ready /\ Created' = Created /\ ~panic'
        /\ thread_tag' = thread_tag
    BY <1>17, <2>2 DEF ScheduleNonEmpty, KernelAssert, pcb, Created
  <2> QED BY <2>1, <2>3, FreshPhase, AtPhase, QueueGoto DEF Appended, Popped
<1>18. CASE ScheduleHead
  <2>1. At("sched_head") /\ Goto("sched_pop") /\ "sched_pop" \in HandlerPoints
    BY <1>18 DEF ScheduleHead, HandlerPoints
  <2>2. /\ cur' = cur /\ depth' = depth /\ newborn' = newborn /\ all' = all
        /\ ready' = ready /\ Created' = Created /\ ~panic'
    BY <1>0, <1>18 DEF ScheduleHead, pcb, Created
  <2> QED BY <2>1, <2>2, FreshPhase, AtPhase, QueueGoto DEF Appended, Popped
<1>19. CASE CreateRest
  BY <1>4, <1>5, <1>9, <1>10, <1>19, CreatePageQueue, CreateAppendReadyQueue,
     CreateAppendAllQueue DEF CreateRest, ListOps
<1>20. CASE Handler
  BY <1>4, <1>5, <1>11, <1>12, <1>13, <1>14, <1>15, <1>16, <1>17, <1>18,
     <1>20, ScheduleAppendQueue, ScheduleRemoveQueue, ScheduleSwitchQueue
     DEF Handler, Schedule, ListOps
<1>21. CASE Boot
  BY <1>7, <1>8, <1>21, ThreadAssumption DEF Boot
<1>22. CASE Spawn
  BY <1>8, <1>22 DEF Spawn
<1> QED BY <1>1, <1>2, <1>3, <1>6, <1>19, <1>20, <1>21, <1>22
        DEF Next, CpuStep

LEMMA Queues ==
    ASSUME OneAtATime
    PROVE  Spec => [](ControlInv /\ PageInv /\ QueueInv)
<1>1. Init => ControlInv /\ PageInv /\ QueueInv
  BY InitControl, InitPage, InitQueue
<1>2. /\ ControlInv /\ PageInv /\ QueueInv /\ [Next]_vars
      => (ControlInv /\ PageInv /\ QueueInv)'
  BY NextControl, NextPage, NextQueue
<1> QED BY <1>1, <1>2, PTL DEF Spec

(* No ASSERT of thread_create or schedule ever fires, and none on the page  *)
(* of a new PCB (thread.c:153,157,182,188,198; memory.c:399), for any number*)
(* of threads created at any time, as long as calls of get_kernel_pages do  *)
(* not overlap.                                                             *)
THEOREM AssertionsHold ==
    ASSUME OneAtATime
    PROVE  Spec => []NoPanic
<1>1. QueueInv => NoPanic
  BY DEF QueueInv
<1> QED BY <1>1, Queues, PTL

(* The ready queue never loses a thread and never holds one twice           *)
(* (thread.c:144-161,180-205), when calls of get_kernel_pages do not overlap*)
THEOREM ReadyQueueExact ==
    ASSUME OneAtATime
    PROVE  Spec => []NoThreadLost
<1>1. QueueInv => NoThreadLost
  BY DEF QueueInv
<1> QED BY <1>1, Queues, PTL

(* all_thread_queue holds every thread once its thread_create is past the   *)
(* second append, and never twice (thread.c:156-158), when calls of         *)
(* get_kernel_pages do not overlap.                                         *)
THEOREM AllQueueExact ==
    ASSUME OneAtATime
    PROVE  Spec => []AllThreadsListed
<1>1. QueueInv => AllThreadsListed
  BY DEF QueueInv
<1> QED BY <1>1, Queues, PTL

-----------------------------------------------------------------------------
(* Whose turn it is: the last layer of the inductive invariant (TurnInv)  *)
(* and, action by action, the step of RoundRobin that each step of the     *)
(* kernel is.  Most steps are stuttering steps; a timer tick is Tick, the  *)
(* append of thread_create is Arrive, and the switch is Rotate.            *)

(* Queues whose last element matters *)

LEMMA FrontOfAppend ==
    ASSUME NEW S, NEW q \in Seq(S), NEW e \in S
    PROVE  /\ Front(Append(q, e)) = q
           /\ Append(q, e) # <<>>
           /\ Append(q, e)[Len(Append(q, e))] = e
<1> DEFINE r == Append(q, e)
<1>1. /\ r \in Seq(S) /\ r # <<>> /\ Len(r) = Len(q) + 1 /\ Len(q) \in Nat
      /\ \A i \in 1..Len(q) : r[i] = q[i]
      /\ r[Len(q) + 1] = e
  BY AppendProperties, LenProperties
<1> HIDE DEF r
<1>2. \A i \in 1..(Len(r) - 1) : r[i] \in S
  BY <1>1, ElementOfSeq
<1>3. /\ Front(r) \in Seq(S) /\ Len(Front(r)) = Len(q)
      /\ \A i \in 1..Len(q) : Front(r)[i] = r[i]
  BY <1>1, <1>2, SubSeqProperties DEF Front
<1>4. Front(r) = q
  BY <1>1, <1>3, SeqEqual
<1> QED BY <1>1, <1>4 DEF r

LEMMA FrontProperties ==
    ASSUME NEW S, NEW q \in Seq(S), q # <<>>
    PROVE  /\ Len(q) \in Nat \ {0} /\ q[Len(q)] \in S
           /\ Front(q) \in Seq(S) /\ Len(Front(q)) = Len(q) - 1
           /\ \A i \in 1..(Len(q) - 1) : Front(q)[i] = q[i]
           /\ Append(Front(q), q[Len(q)]) = q
<1>1. Len(q) \in Nat \ {0} /\ \A i \in 1..Len(q) : q[i] \in S
  BY EmptySeq, ElementOfSeq
<1>2. /\ Front(q) \in Seq(S) /\ Len(Front(q)) = Len(q) - 1
      /\ \A i \in 1..(Len(q) - 1) : Front(q)[i] = q[i]
  BY <1>1, SubSeqProperties DEF Front
<1>3. q[Len(q)] \in S
  BY <1>1
<1> DEFINE r == Append(Front(q), q[Len(q)])
<1>4. /\ r \in Seq(S) /\ Len(r) = Len(Front(q)) + 1
      /\ \A i \in 1..Len(Front(q)) : r[i] = Front(q)[i]
      /\ r[Len(Front(q)) + 1] = q[Len(q)]
  BY <1>2, <1>3, AppendProperties
<1> HIDE DEF r
<1>5. r = q
  <2>1. Len(r) = Len(q)
    BY <1>1, <1>2, <1>4
  <2>2. \A i \in 1..Len(r) : r[i] = q[i]
    BY <1>1, <1>2, <1>4
  <2> QED BY <1>4, <2>1, <2>2, SeqEqual
<1> QED BY <1>1, <1>2, <1>3, <1>5 DEF r

LEMMA ConsProperties ==
    ASSUME NEW S, NEW q \in Seq(S), NEW h \in S
    PROVE  /\ <<h>> \o q \in Seq(S)
           /\ <<h>> \o q # <<>>
           /\ Len(<<h>> \o q) = Len(q) + 1
           /\ (<<h>> \o q)[1] = h
           /\ \A i \in 1..Len(q) : (<<h>> \o q)[i + 1] = q[i]
           /\ Head(<<h>> \o q) = h
           /\ Tail(<<h>> \o q) = q
<1> DEFINE one == <<h>>
           r == one \o q
<1>1. one \in Seq(S) /\ Len(one) = 1 /\ one[1] = h /\ Len(q) \in Nat
  BY LenProperties
<1> HIDE DEF one
<1>0. /\ r \in Seq(S) /\ Len(r) = Len(one) + Len(q)
      /\ \A i \in 1..Len(one) + Len(q) :
            r[i] = IF i <= Len(one) THEN one[i] ELSE q[i - Len(one)]
  BY <1>1, ConcatProperties
<1> HIDE DEF r
<1>2. /\ r \in Seq(S) /\ Len(r) = Len(q) + 1
      /\ \A i \in 1..(Len(q) + 1) :
            r[i] = IF i <= 1 THEN one[i] ELSE q[i - 1]
  BY <1>0, <1>1
<1>3. r # <<>> /\ r[1] = h
  BY <1>1, <1>2
<1>4. Head(r) = h
  BY <1>3
<1>5. /\ Tail(r) \in Seq(S) /\ Len(Tail(r)) = Len(q)
      /\ \A i \in 1..Len(q) : Tail(r)[i] = r[i + 1]
  BY <1>1, <1>2, <1>3, HeadTailProperties
<1>6. \A i \in 1..Len(q) : r[i + 1] = q[i]
  BY <1>1, <1>2
<1>7. Tail(r) = q
  BY <1>5, <1>6, SeqEqual
<1> QED BY <1>2, <1>3, <1>4, <1>6, <1>7 DEF r, one

\* Taking the first off a queue leaves the last one last, unless they are one.
LEMMA TailKeepsLast ==
    ASSUME NEW S, NEW q \in Seq(S), q # <<>>, NoDuplicates(q)
    PROVE  /\ Head(q) = q[Len(q)] => Tail(q) = <<>> /\ Front(q) = <<>>
           /\ Head(q) # q[Len(q)] =>
                /\ Tail(q) # <<>>
                /\ Tail(q)[Len(Tail(q))] = q[Len(q)]
                /\ <<Head(q)>> \o Front(Tail(q)) = Front(q)
<1> DEFINE h == Head(q)
           t == Tail(q)
<1>1. /\ Len(q) \in Nat \ {0} /\ h = q[1] /\ h \in S
      /\ DOMAIN q = 1..Len(q)
      /\ t \in Seq(S) /\ Len(t) = Len(q) - 1
      /\ \A i \in 1..(Len(q) - 1) : t[i] = q[i + 1]
  BY FrontProperties, HeadTailProperties, LenProperties
<1>2. /\ Front(q) \in Seq(S) /\ Len(Front(q)) = Len(q) - 1
      /\ \A i \in 1..(Len(q) - 1) : Front(q)[i] = q[i]
  BY FrontProperties
<1> HIDE DEF h, t
<1>3. ASSUME h = q[Len(q)] PROVE t = <<>> /\ Front(q) = <<>>
  <2>1. Len(q) = 1
    <3>1. 1 \in DOMAIN q /\ Len(q) \in DOMAIN q /\ q[1] = q[Len(q)]
      BY <1>1, <1>3
    <3> QED BY <3>1, Zenon DEF NoDuplicates
  <2>2. Len(t) = 0 /\ Len(Front(q)) = 0
    BY <1>1, <1>2, <2>1
  <2> QED BY <1>1, <1>2, <2>2, EmptySeq
<1>4. ASSUME h # q[Len(q)]
      PROVE  /\ t # <<>> /\ t[Len(t)] = q[Len(q)]
             /\ <<h>> \o Front(t) = Front(q)
  <2>1. Len(q) > 1
    BY <1>1, <1>4
  <2>2. t # <<>> /\ t[Len(t)] = q[Len(q)]
    BY <1>1, <2>1
  <2>3. /\ Front(t) \in Seq(S) /\ Len(Front(t)) = Len(t) - 1
        /\ \A i \in 1..(Len(t) - 1) : Front(t)[i] = t[i]
    BY <1>1, <2>2, FrontProperties
  <2> DEFINE f == Front(t)
             r == <<h>> \o f
  <2> HIDE DEF f
  <2>4. /\ r \in Seq(S) /\ Len(r) = Len(f) + 1
        /\ r[1] = h
        /\ \A i \in 1..Len(f) : r[i + 1] = f[i]
    <3>1. f \in Seq(S) /\ h \in S
      BY <1>1, <2>3 DEF f
    <3>2. /\ <<h>> \o f \in Seq(S) /\ Len(<<h>> \o f) = Len(f) + 1
          /\ (<<h>> \o f)[1] = h
          /\ \A i \in 1..Len(f) : (<<h>> \o f)[i + 1] = f[i]
      BY <3>1, ConsProperties
    <3> QED BY <3>2
  <2> HIDE DEF r
  <2>5. ASSUME NEW i \in 1..(Len(q) - 1) PROVE r[i] = Front(q)[i]
    <3>1. CASE i = 1
      BY <1>1, <1>2, <2>4, <3>1
    <3>2. CASE i # 1
      <4>1. /\ i - 1 \in 1..Len(f) /\ (i - 1) + 1 = i
            /\ i - 1 \in 1..(Len(q) - 1)
        BY <1>1, <2>1, <2>3, <3>2 DEF f
      <4>2. r[i] = f[i - 1] /\ f[i - 1] = t[i - 1] /\ t[i - 1] = q[i]
        BY <1>1, <2>3, <2>4, <4>1 DEF f
      <4> QED BY <1>2, <4>2
    <3> QED BY <3>1, <3>2
  <2>6. r = Front(q)
    <3>1. Len(r) = Len(q) - 1
      BY <1>1, <2>3, <2>4 DEF f
    <3> QED BY <1>2, <2>4, <2>5, <3>1, SeqEqual
  <2> QED BY <2>2, <2>6 DEF r, f
<1> QED BY <1>3, <1>4 DEF h, t

-----------------------------------------------------------------------------
(* Whose turn it is *)

\* A step that neither moves a thread nor touches an allowance.
Quiet ==
    /\ cur' = cur /\ ready' = ready /\ slice' = slice /\ Created' = Created
    /\ Appended' <=> Appended
    /\ Popped' <=> Popped
    /\ Popped => thread_tag' = thread_tag
    /\ Top'.pc \in SpentPoints => Top.pc \in SpentPoints
    /\ Top'.pc \in RenewedPoints => Top.pc \in RenewedPoints

LEMMA QuietTurn == Quiet /\ TurnInv => TurnInv'
BY DEF Quiet, TurnInv

LEMMA QuietGoto ==
    ASSUME ControlInv, NEW p \in ThreadPoints \cup HandlerPoints, Goto(p),
           cur' = cur, depth' = depth, ready' = ready, slice' = slice,
           status' = status, Popped => thread_tag' = thread_tag,
           AfterAppend(Fresh(p)) <=> Appended,
           AfterPop(Fresh(p)) <=> Popped,
           p \in SpentPoints => Top.pc \in SpentPoints,
           p \in RenewedPoints => Top.pc \in RenewedPoints
    PROVE  Quiet
<1> DEFINE f == Fresh(p)
<1>1. f \in Activation /\ f.pc = p
  BY FreshType
<1>2. frame' = [frame EXCEPT ![cur][depth[cur]] = f]
  BY DEF Goto
<1>3. (AfterAppend(f) <=> Appended) /\ (AfterPop(f) <=> Popped)
  OBVIOUS
<1> HIDE DEF f
<1>4. Top' = f
  BY <1>1, <1>2, TopUpdate DEF ControlInv
<1>5. (Appended' <=> AfterAppend(f)) /\ (Popped' <=> AfterPop(f))
  BY <1>4 DEF Appended, Popped, AfterAppend, AfterPop
<1>6. Created' = Created
  BY DEF Created
<1> QED BY <1>1, <1>3, <1>4, <1>5, <1>6 DEF Quiet

\* The steps of Next that are not quiet.
Turning ==
    \/ CreatePage
    \/ CreateAppendReady
    \/ TimerHandler
    \/ ScheduleAppend
    \/ ScheduleReset
    \/ ScheduleRemove
    \/ ScheduleSwitch

LEMMA QuietSteps ==
    ASSUME ControlInv, QueueInv, [Next]_vars, ~Turning
    PROVE  Quiet
<1>0. /\ ~panic /\ cur \in Thread /\ depth[cur] \in {0, 1}
      /\ Top \in Activation /\ StatusInv
  BY Level DEF QueueInv, NoPanic
<1>1. CASE UNCHANGED vars
  BY <1>1 DEF vars, pcb, Quiet, Created, Appended, Popped, AfterAppend,
              AfterPop, Top
<1>2. CASE TimerTick \/ EnableInterrupts
  BY <1>2 DEF TimerTick, EnableInterrupts, pcb, Quiet, Created, Appended,
              Popped, AfterAppend, AfterPop, Top
<1>3. CASE Interrupt
  <2> DEFINE f == Fresh("eoi")
  <2>1. depth[cur] = 0 /\ Top.pc \in ThreadPoints
    BY <1>3, Level DEF Interrupt, ControlInv, Masked
  <2>2. f \in Activation /\ ~AfterAppend(f) /\ ~AfterPop(f) /\ f.pc = "eoi"
    BY FreshType, FreshPhase DEF HandlerPoints
  <2> HIDE DEF f
  <2>3. /\ frame' = [frame EXCEPT ![cur][1] = f] /\ depth'[cur] = 1
        /\ cur' = cur /\ ready' = ready /\ slice' = slice
        /\ status' = status /\ thread_tag' = thread_tag
    BY <1>0, <1>3, <2>1 DEF Interrupt, ControlInv, TypeOK, pcb, f
  <2>4. Top' = f
    BY <1>0, <2>2, <2>3, HandlerUpdate DEF ControlInv, TypeOK, Top
  <2>5. ~Appended /\ ~Popped /\ ~Appended' /\ ~Popped'
    BY <2>1, <2>2, <2>4
       DEF Appended, Popped, AfterAppend, AfterPop, ThreadPoints
  <2> QED BY <2>2, <2>3, <2>4, <2>5
          DEF Quiet, SpentPoints, RenewedPoints, Created
<1>4. ASSUME NEW op \in ListOps, Disable(op) PROVE Quiet
  <2> DEFINE f == [pc |-> op, cs |-> "in", old |-> intr_on]
  <2>1. /\ f \in Activation /\ f.pc = op /\ f.cs = "in"
    BY DEF ControlInv, TypeOK, Activation, ListOps, ThreadPoints,
           HandlerPoints
  <2>2. /\ frame' = [frame EXCEPT ![cur][depth[cur]] = f]
        /\ Top.pc = op /\ Top.cs = "out" /\ cur' = cur /\ depth' = depth
        /\ ready' = ready /\ thread_tag' = thread_tag
        /\ slice' = slice /\ status' = status
    BY <1>4 DEF Disable, At, pcb
  <2> HIDE DEF f
  <2>3. Top' = f
    BY <2>1, <2>2, TopUpdate DEF ControlInv
  <2>4. (Appended' <=> Appended) /\ (Popped' <=> Popped)
    BY <2>1, <2>2, <2>3, <1>4
       DEF Appended, Popped, AfterAppend, AfterPop, ListOps
  <2> QED BY <2>1, <2>2, <2>3, <2>4 DEF Quiet, Created
<1>5. ASSUME NEW op \in ListOps, NEW next, Restore(op, next),
             \/ op = "create_ready" /\ next = "create_check_all"
             \/ op = "create_all" /\ next = "body"
             \/ op = "sched_append" /\ next = "sched_reset"
             \/ op = "sched_pop" /\ next = "sched_switch"
      PROVE  Quiet
  <2>1. Top.pc = op /\ Top.cs = "done" /\ Goto(next)
        /\ next \in ThreadPoints \cup HandlerPoints
    BY <1>5 DEF Restore, ThreadPoints, HandlerPoints
  <2>2. /\ AfterAppend(Fresh(next)) <=> Appended
        /\ AfterPop(Fresh(next)) <=> Popped
    BY <1>5, <2>1, FreshPhase DEF AfterAppend, AfterPop, Appended, Popped
  <2>3. /\ next \in SpentPoints => Top.pc \in SpentPoints
        /\ next \in RenewedPoints => Top.pc \in RenewedPoints
    BY <1>5, <2>1 DEF SpentPoints, RenewedPoints
  <2> QED BY <1>5, <2>1, <2>2, <2>3, QuietGoto DEF Restore, pcb
<1>6. CASE KernelThread
  <2>1. At("start") /\ Goto("body") /\ "body" \in ThreadPoints
    BY <1>6 DEF KernelThread, ThreadPoints
  <2> QED BY <1>6, <2>1, FreshPhase, AtPhase, QuietGoto
          DEF KernelThread, pcb, SpentPoints, RenewedPoints
<1>7. CASE CreateCheckReady
  <2>1. At("create_check_ready") /\ Goto("create_ready")
        /\ "create_ready" \in ThreadPoints
    BY <1>7 DEF CreateCheckReady, ThreadPoints
  <2> QED BY <1>7, <2>1, FreshPhase, AtPhase, QuietGoto
          DEF CreateCheckReady, pcb, SpentPoints, RenewedPoints
<1>8. CASE CreateCheckAll
  <2>1. At("create_check_all") /\ Goto("create_all")
        /\ "create_all" \in ThreadPoints
    BY <1>8 DEF CreateCheckAll, ThreadPoints
  <2> QED BY <1>8, <2>1, FreshPhase, AtPhase, QuietGoto
          DEF CreateCheckAll, pcb, SpentPoints, RenewedPoints
<1>9. CASE CreateAppendAll
  <2> DEFINE f == [frame[cur][depth[cur]] EXCEPT !.cs = "done"]
  <2>1. Top.pc = "create_all"
    BY <1>9 DEF CreateAppendAll, InSection
  <2>2. /\ f \in Activation /\ f.pc = "create_all"
        /\ frame' = [frame EXCEPT ![cur][depth[cur]] = f]
    BY <1>0, <1>9, <2>1 DEF Activation, Top, CreateAppendAll, LeaveSection
  <2> HIDE DEF f
  <2>3. /\ cur' = cur /\ depth' = depth /\ ready' = ready /\ slice' = slice
        /\ status' = status /\ thread_tag' = thread_tag
    BY <1>9 DEF CreateAppendAll, pcb
  <2>4. Top' = f
    BY <2>2, <2>3, TopUpdate DEF ControlInv
  <2> QED BY <2>1, <2>2, <2>3, <2>4
          DEF Quiet, Created, Appended, Popped, AfterAppend, AfterPop,
              SpentPoints, RenewedPoints
<1>10. CASE SendEoi
  <2>1. At("eoi") /\ Goto("handler") /\ "handler" \in HandlerPoints
    BY <1>10 DEF SendEoi, HandlerPoints
  <2> QED BY <1>10, <2>1, FreshPhase, AtPhase, QuietGoto
          DEF SendEoi, pcb, SpentPoints, RenewedPoints
<1>11. CASE InterruptReturn
  <2>1. depth[cur] = 1 /\ At("iret")
    BY <1>11, Level DEF InterruptReturn, At, HandlerPoints
  <2>2. /\ depth'[cur] = 0 /\ cur' = cur /\ frame' = frame
        /\ ready' = ready /\ slice' = slice
        /\ status' = status /\ thread_tag' = thread_tag
    BY <1>0, <1>11, <2>1 DEF InterruptReturn, ControlInv, TypeOK, pcb
  <2>3. Top' = frame[cur][0] /\ Top'.pc \in ThreadPoints
    BY <1>0, <2>2 DEF Top, ControlInv, Shape
  <2>4. ~Appended /\ ~Popped /\ ~Appended' /\ ~Popped'
    BY <2>1, <2>3, AtPhase
       DEF Appended, Popped, AfterAppend, AfterPop, ThreadPoints
  <2>5. Top'.pc \notin SpentPoints /\ Top'.pc \notin RenewedPoints
    BY <2>3 DEF ThreadPoints, SpentPoints, RenewedPoints
  <2> QED BY <2>2, <2>4, <2>5 DEF Quiet, Created
<1>12. CASE ScheduleEntry
  <2>1. At("sched") /\ status[cur] = "RUNNING" /\ Goto("sched_check")
        /\ "sched_check" \in HandlerPoints
    BY <1>0, <1>12 DEF ScheduleEntry, At, StatusInv, HandlerPoints
  <2>2. Top.pc = "sched"
    BY <2>1 DEF At
  <2> QED BY <1>12, <2>1, <2>2, FreshPhase, AtPhase, QuietGoto
          DEF ScheduleEntry, pcb, SpentPoints, RenewedPoints
<1>13. CASE ScheduleCheck
  <2>1. At("sched_check") /\ Goto("sched_append") /\ Top.pc = "sched_check"
        /\ "sched_append" \in HandlerPoints
    BY <1>13 DEF ScheduleCheck, HandlerPoints, At
  <2> QED BY <1>13, <2>1, FreshPhase, AtPhase, QuietGoto
          DEF ScheduleCheck, pcb, SpentPoints, RenewedPoints
<1>14. CASE ScheduleNonEmpty
  <2>1. At("sched_nonempty") /\ Goto("sched_head")
        /\ Top.pc = "sched_nonempty" /\ "sched_head" \in HandlerPoints
    BY <1>14 DEF ScheduleNonEmpty, HandlerPoints, At
  <2> QED BY <1>14, <2>1, FreshPhase, AtPhase, QuietGoto
          DEF ScheduleNonEmpty, pcb, SpentPoints, RenewedPoints
<1>15. CASE ScheduleHead
  <2>1. At("sched_head") /\ Goto("sched_pop") /\ Top.pc = "sched_head"
        /\ "sched_pop" \in HandlerPoints
    BY <1>15 DEF ScheduleHead, HandlerPoints, At
  <2> QED BY <1>15, <2>1, FreshPhase, AtPhase, QuietGoto
          DEF ScheduleHead, pcb, SpentPoints, RenewedPoints
<1>16. CASE CreateRest
  BY <1>4, <1>5, <1>7, <1>8, <1>9, <1>16 DEF CreateRest, ListOps, Turning
<1>17. CASE Handler
  BY <1>4, <1>5, <1>10, <1>11, <1>12, <1>13, <1>14, <1>15, <1>17
     DEF Handler, Schedule, ListOps, Turning
<1>18. ASSUME NEW t \in Thread, ThreadCreate(t) PROVE Quiet
  <2>1. At("body") /\ Goto("create_page") /\ "create_page" \in ThreadPoints
    BY <1>18 DEF ThreadCreate, ThreadPoints
  <2> QED BY <1>18, <2>1, FreshPhase, AtPhase, QuietGoto
          DEF ThreadCreate, pcb, SpentPoints, RenewedPoints
<1>19. CASE Boot \/ Spawn
  BY <1>2, <1>18, <1>19, ThreadAssumption DEF Boot, Spawn
<1> QED BY <1>1, <1>2, <1>3, <1>6, <1>16, <1>17, <1>19 DEF Next, CpuStep

-----------------------------------------------------------------------------
(* The queue and the allowances RoundRobin sees *)

LEMMA WaitingCases ==
    /\ ~Appended => WaitingQueue = ready
    /\ Appended /\ ~Popped => WaitingQueue = Front(ready)
    /\ Popped /\ thread_tag = cur => WaitingQueue = <<>>
    /\ Popped /\ thread_tag # cur =>
         WaitingQueue = <<thread_tag>> \o Front(ready)
<1>1. Popped => Appended
  BY DEF Popped, Appended, AfterPop, AfterAppend
<1>2. CASE ~Appended
  BY <1>1, <1>2 DEF WaitingQueue
<1>3. CASE Appended /\ ~Popped
  BY <1>3 DEF WaitingQueue
<1>4. CASE Popped /\ thread_tag = cur
  BY <1>1, <1>4 DEF WaitingQueue
<1>5. CASE Popped /\ thread_tag # cur
  BY <1>1, <1>5 DEF WaitingQueue
<1> QED BY <1>1, <1>2, <1>3, <1>4, <1>5

LEMMA WaitingCasesNext ==
    /\ ~Appended' => WaitingQueue' = ready'
    /\ Appended' /\ ~Popped' => WaitingQueue' = Front(ready')
    /\ Popped' /\ thread_tag' = cur' => WaitingQueue' = <<>>
    /\ Popped' /\ thread_tag' # cur' =>
         WaitingQueue' = <<thread_tag'>> \o Front(ready')
<1>1. (/\ ~Appended => WaitingQueue = ready
       /\ Appended /\ ~Popped => WaitingQueue = Front(ready)
       /\ Popped /\ thread_tag = cur => WaitingQueue = <<>>
       /\ Popped /\ thread_tag # cur =>
            WaitingQueue = <<thread_tag>> \o Front(ready))'
  BY WaitingCases, PTL
<1>2. Front(ready)' = Front(ready')
  BY DEF Front
<1> QED BY <1>1, <1>2

LEMMA QuietStutter == Quiet => UNCHANGED RR!rrvars
<1> SUFFICES ASSUME Quiet PROVE UNCHANGED RR!rrvars
  OBVIOUS
<1>1. WaitingQueue' = WaitingQueue
  BY WaitingCases, WaitingCasesNext DEF Quiet
<1>2. Allowance' = Allowance
  BY DEF Quiet, Allowance, StoredPriority
<1> QED BY <1>1, <1>2 DEF Quiet, RR!rrvars

-----------------------------------------------------------------------------
(* The other steps *)

LEMMA CreatePageTurn ==
    ASSUME ControlInv, PageInv, QueueInv, TurnInv, CreatePage
    PROVE  TurnInv' /\ UNCHANGED RR!rrvars
<1>0. PICK t \in Thread : t = newborn[cur]
  BY PageIsFree
<1>1. At("create_page") /\ Goto("create_check_ready")
      /\ "create_check_ready" \in ThreadPoints
      /\ t \in Thread /\ status[t] = "NONE"
  BY <1>0, PageIsFree DEF CreatePage, ThreadPoints
<1> DEFINE f == Fresh("create_check_ready")
<1>2. /\ f \in Activation /\ f.pc = "create_check_ready"
      /\ ~AfterAppend(f) /\ ~AfterPop(f)
      /\ frame' = [frame EXCEPT ![cur][depth[cur]] = f]
  BY <1>1, FreshType, FreshPhase DEF Goto
<1> HIDE DEF f
<1>3. /\ cur' = cur /\ depth' = depth /\ ready' = ready
      /\ status[t] = "NONE" /\ status' = [status EXCEPT ![t] = "READY"]
      /\ slice' = [slice EXCEPT ![t] = StoredPriority[t]]
  BY <1>0, <1>1 DEF CreatePage
<1>4. Top' = f
  BY <1>2, <1>3, TopUpdate DEF ControlInv
<1>5. ~Appended /\ ~Appended'
  BY <1>1, <1>2, <1>4, AtPhase DEF Appended, AfterAppend
<1>6. TurnInv'
  BY <1>2, <1>4, <1>5 DEF TurnInv, SpentPoints, RenewedPoints
<1>7. WaitingQueue' = WaitingQueue
  BY <1>3, <1>5, WaitingCases, WaitingCasesNext
<1>8. Allowance' = Allowance
  <2>1. \A u \in Thread \ {t} :
           (u \in Created' <=> u \in Created) /\ slice'[u] = slice[u]
    BY <1>3 DEF Created, ControlInv, TypeOK
  <2>2. t \notin Created /\ slice'[t] = StoredPriority[t]
    BY <1>3 DEF Created, ControlInv, TypeOK
  <2>3. \A u \in Thread :
          (IF u \notin Created' THEN StoredPriority[u] ELSE slice'[u])
          = (IF u \notin Created THEN StoredPriority[u] ELSE slice[u])
    BY <2>1, <2>2
  <2>4. StoredPriority' = StoredPriority
    BY DEF StoredPriority
  <2> QED BY <1>5, <2>3, <2>4 DEF Allowance
<1> QED BY <1>3, <1>6, <1>7, <1>8 DEF RR!rrvars

LEMMA CreateAppendReadyTurn ==
    ASSUME ControlInv, QueueInv, TurnInv, CreateAppendReady
    PROVE  TurnInv' /\ \E t \in Thread : RR!Arrive(t)
<1> DEFINE f == [frame[cur][depth[cur]] EXCEPT !.cs = "done"]
<1>0. Top \in Activation /\ Top.pc = "create_ready" /\ Top.cs = "in"
      /\ depth[cur] = 0 /\ cur \in Thread
  BY Level DEF CreateAppendReady, InSection, ThreadPoints
<1>1. /\ f \in Activation /\ f.pc = "create_ready"
      /\ frame' = [frame EXCEPT ![cur][depth[cur]] = f]
  BY <1>0 DEF Activation, Top, CreateAppendReady, LeaveSection
<1> HIDE DEF f
<1>2. /\ cur' = cur /\ depth' = depth /\ slice' = slice /\ status' = status
      /\ ready' = Append(ready, newborn[cur])
  BY DEF CreateAppendReady, pcb
<1>3. Top' = f
  BY <1>1, <1>2, TopUpdate DEF ControlInv
<1>4. ~Appended /\ ~Appended' /\ ~Popped
  BY <1>0, <1>1, <1>3 DEF Appended, AfterAppend, Popped, AfterPop
<1>5. TurnInv'
  BY <1>1, <1>3, <1>4 DEF TurnInv, SpentPoints, RenewedPoints
<1>6. WaitingQueue = ready /\ WaitingQueue' = Append(ready, newborn[cur])
  BY <1>2, <1>4, WaitingCases, WaitingCasesNext
<1>7. Created' = Created
  BY <1>2 DEF Created
<1>8. Allowance' = Allowance
  BY <1>2, <1>4, <1>7 DEF Allowance, StoredPriority
<1>9. /\ newborn[cur] \in Thread /\ newborn[cur] # cur
      /\ newborn[cur] \notin Members(ready)
  <2>1. newborn[cur] \in Thread /\ BeforeReady(frame[cur][0])
    BY <1>0 DEF ControlInv, TypeOK, BeforeReady, Top
  <2>2. newborn[cur] \in Linking /\ newborn[cur] # cur
    BY <1>0, <2>1 DEF Linking, QueueInv, CreateInv
  <2> QED BY <1>4, <2>1, <2>2 DEF QueueInv, NoThreadLost, Queued
<1>10. newborn[cur] \notin RR!Waiting \cup {cur}
  BY <1>6, <1>9 DEF RR!Waiting, Members
<1>11. RR!Arrive(newborn[cur])
  BY <1>2, <1>6, <1>8, <1>10 DEF RR!Arrive
<1> QED BY <1>5, <1>9, <1>11

\* The timer interrupt takes one from the running thread's time slice, or
\* finds nothing left and goes on to schedule.
LEMMA TimerHandlerTurn ==
    ASSUME ControlInv, QueueInv, TurnInv, TimerHandler
    PROVE  TurnInv' /\ (RR!Tick \/ UNCHANGED RR!rrvars)
<1>0. At("handler") /\ {"sched", "iret"} \subseteq HandlerPoints
      /\ cur \in Thread /\ slice \in [Thread -> 0..255] /\ cur \in Created
  BY DEF TimerHandler, HandlerPoints, ControlInv, TypeOK
<1>1. /\ cur' = cur /\ depth' = depth /\ ready' = ready /\ status' = status
      /\ thread_tag' = thread_tag
  BY DEF TimerHandler
<1>2. Created' = Created
  BY <1>1 DEF Created
<1>3. ASSUME NEW p \in {"sched", "iret"}, Goto(p)
      PROVE  Top'.pc = p /\ ~Appended /\ ~Appended'
  <2> DEFINE f == Fresh(p)
  <2>1. f \in Activation /\ ~AfterAppend(f) /\ f.pc = p
        /\ frame' = [frame EXCEPT ![cur][depth[cur]] = f]
    BY <1>0, <1>3, FreshType, FreshPhase DEF Goto
  <2> HIDE DEF f
  <2>2. Top' = f
    BY <1>1, <2>1, TopUpdate DEF ControlInv
  <2>3. ~Appended'
    BY <2>1, <2>2 DEF Appended, AfterAppend
  <2> QED BY <1>0, <2>1, <2>2, <2>3, AtPhase
<1>4. CASE slice[cur] = 0
  <2>1. slice' = slice /\ Goto("sched")
    BY <1>4 DEF TimerHandler
  <2>2. Top'.pc = "sched" /\ ~Appended /\ ~Appended'
    BY <1>3, <2>1
  <2>3. TurnInv'
    BY <1>1, <1>4, <2>1, <2>2 DEF TurnInv, RenewedPoints
  <2>4. WaitingQueue' = WaitingQueue
    BY <1>1, <2>2, WaitingCases, WaitingCasesNext
  <2>5. Allowance' = Allowance
    BY <1>1, <1>2, <2>1, <2>2 DEF Allowance, StoredPriority
  <2> QED BY <1>1, <2>3, <2>4, <2>5 DEF RR!rrvars
<1>5. CASE slice[cur] # 0
  <2>1. slice' = [slice EXCEPT ![cur] = slice[cur] - 1] /\ Goto("iret")
    BY <1>5 DEF TimerHandler
  <2>2. Top'.pc = "iret" /\ ~Appended /\ ~Appended'
    BY <1>3, <2>1
  <2>3. TurnInv'
    BY <2>2 DEF TurnInv, SpentPoints, RenewedPoints
  <2>4. WaitingQueue' = WaitingQueue
    BY <1>1, <2>2, WaitingCases, WaitingCasesNext
  <2>5. Allowance[cur] = slice[cur] /\ Allowance \in [Thread -> 0..255]
    BY <1>0, <2>2, StoredPriorityType DEF Allowance
  <2>6. \A t \in Thread : Allowance'[t] = IF t = cur THEN slice[cur] - 1
                                                     ELSE Allowance[t]
    <3>1. \A t \in Thread : Allowance'[t] =
            IF t \notin Created THEN StoredPriority[t] ELSE slice'[t]
      BY <1>1, <1>2, <2>2 DEF Allowance, StoredPriority
    <3>2. \A t \in Thread : Allowance[t] =
            IF t \notin Created THEN StoredPriority[t] ELSE slice[t]
      BY <2>2 DEF Allowance
    <3>3. \A t \in Thread : slice'[t] = IF t = cur THEN slice[cur] - 1
                                                   ELSE slice[t]
      BY <1>0, <2>1
    <3> QED BY <1>0, <3>1, <3>2, <3>3
  <2>7. Allowance' = [Allowance EXCEPT ![cur] = Allowance[cur] - 1]
    <3>1. Allowance' = [t \in Thread |-> Allowance'[t]]
      BY DEF Allowance
    <3> QED BY <2>5, <2>6, <3>1
  <2>8. Allowance[cur] > 0
    BY <1>0, <1>5, <2>5
  <2> QED BY <1>1, <2>3, <2>4, <2>7, <2>8 DEF RR!Tick
<1> QED BY <1>4, <1>5

\* Appending the running thread is not visible yet: it still runs, as the
\* last of the queue that RoundRobin does not look at.
LEMMA ScheduleAppendTurn ==
    ASSUME ControlInv, QueueInv, TurnInv, ScheduleAppend
    PROVE  TurnInv' /\ UNCHANGED RR!rrvars
<1> DEFINE f == [frame[cur][depth[cur]] EXCEPT !.cs = "done"]
<1>0. Top \in Activation /\ Top.pc = "sched_append" /\ Top.cs = "in"
      /\ cur \in Thread /\ ready \in Seq(Thread) /\ cur \in Created
  BY Level DEF ScheduleAppend, InSection, ControlInv, TypeOK
<1>1. /\ f \in Activation /\ f.pc = "sched_append" /\ f.cs = "done"
      /\ frame' = [frame EXCEPT ![cur][depth[cur]] = f]
  BY <1>0 DEF Activation, Top, ScheduleAppend, LeaveSection
<1> HIDE DEF f
<1>2. /\ cur' = cur /\ depth' = depth /\ slice' = slice /\ status' = status
      /\ ready' = Append(ready, cur)
  BY DEF ScheduleAppend, pcb
<1>3. Top' = f
  BY <1>1, <1>2, TopUpdate DEF ControlInv
<1>4. ~Appended /\ Appended' /\ ~Popped'
  BY <1>0, <1>1, <1>3 DEF Appended, AfterAppend, Popped, AfterPop
<1>5. /\ slice[cur] = 0 /\ Front(ready') = ready
      /\ ready' # <<>> /\ ready'[Len(ready')] = cur
  BY <1>0, <1>2, FrontOfAppend DEF TurnInv, SpentPoints
<1>6. TurnInv'
  BY <1>1, <1>2, <1>3, <1>4, <1>5 DEF TurnInv, RenewedPoints
<1>7. WaitingQueue' = WaitingQueue
  BY <1>4, <1>5, WaitingCases, WaitingCasesNext
<1>8. Created' = Created
  BY <1>2 DEF Created
<1>9. Allowance' = Allowance
  BY <1>0, <1>2, <1>4, <1>5, <1>8 DEF Allowance, StoredPriority
<1> QED BY <1>2, <1>6, <1>7, <1>9 DEF RR!rrvars

\* The new time slice is given before the switch, to a thread that counts as
\* having nothing left until then.
LEMMA ScheduleResetTurn ==
    ASSUME ControlInv, QueueInv, TurnInv, ScheduleReset
    PROVE  TurnInv' /\ UNCHANGED RR!rrvars
<1> DEFINE f == Fresh("sched_nonempty")
<1>0. /\ At("sched_reset") /\ cur \in Thread /\ cur \in Created
      /\ status \in [Thread -> {"NONE", "READY", "RUNNING"}]
      /\ slice \in [Thread -> 0..255]
  BY DEF ScheduleReset, ControlInv, TypeOK
<1>1. /\ f \in Activation /\ f.pc = "sched_nonempty"
      /\ AfterAppend(f) /\ ~AfterPop(f)
      /\ frame' = [frame EXCEPT ![cur][depth[cur]] = f]
  BY FreshType, FreshPhase DEF ScheduleReset, Goto, HandlerPoints
<1> HIDE DEF f
<1>2. /\ cur' = cur /\ depth' = depth /\ ready' = ready
      /\ thread_tag' = thread_tag
      /\ slice' = [slice EXCEPT ![cur] = StoredPriority[cur]]
      /\ status' = [status EXCEPT ![cur] = "READY"]
  BY DEF ScheduleReset
<1>3. Top' = f
  BY <1>1, <1>2, TopUpdate DEF ControlInv
<1>4. Appended /\ ~Popped /\ Appended' /\ ~Popped'
  BY <1>0, <1>1, <1>3, AtPhase DEF Appended, AfterAppend, Popped, AfterPop
<1>5. slice'[cur] = StoredPriority[cur]
      /\ \A t \in Thread \ {cur} : slice'[t] = slice[t]
  BY <1>0, <1>2
<1>6. StoredPriority' = StoredPriority
  BY DEF StoredPriority
<1>7. TurnInv'
  BY <1>1, <1>2, <1>3, <1>4, <1>5, <1>6 DEF TurnInv, SpentPoints
<1>8. WaitingQueue' = WaitingQueue
  BY <1>2, <1>4, WaitingCases, WaitingCasesNext
<1>9. Created' = Created
  BY <1>0, <1>2 DEF Created
<1>10. Allowance' = Allowance
  <2>1. \A t \in Thread :
          (IF t \notin Created THEN StoredPriority[t]
           ELSE IF t = cur /\ Appended' THEN 0 ELSE slice'[t])
          = (IF t \notin Created THEN StoredPriority[t]
             ELSE IF t = cur /\ Appended THEN 0 ELSE slice[t])
    BY <1>0, <1>4, <1>5
  <2> QED BY <1>2, <1>6, <1>9, <2>1 DEF Allowance
<1> QED BY <1>2, <1>7, <1>8, <1>10 DEF RR!rrvars

\* The thread taken off the front is in thread_tag, and RoundRobin still sees
\* it at the front.
LEMMA ScheduleRemoveTurn ==
    ASSUME ControlInv, QueueInv, TurnInv, ScheduleRemove
    PROVE  TurnInv' /\ UNCHANGED RR!rrvars
<1> DEFINE f == [frame[cur][depth[cur]] EXCEPT !.cs = "done"]
<1>0. Top \in Activation /\ Top.pc = "sched_pop" /\ Top.cs = "in"
      /\ cur \in Thread /\ ready \in Seq(Thread) /\ cur \in Created
      /\ ~panic /\ NoDuplicates(ready)
  BY Level DEF ScheduleRemove, InSection, ControlInv, TypeOK, QueueInv,
               NoThreadLost
<1>1. /\ f \in Activation /\ f.pc = "sched_pop" /\ f.cs = "done"
      /\ frame' = [frame EXCEPT ![cur][depth[cur]] = f]
  BY <1>0 DEF Activation, Top, ScheduleRemove, LeaveSection
<1> HIDE DEF f
<1>2. /\ cur' = cur /\ depth' = depth /\ slice' = slice /\ status' = status
      /\ thread_tag' = thread_tag /\ ready' = Tail(ready)
  BY DEF ScheduleRemove, pcb
<1>3. Top' = f
  BY <1>1, <1>2, TopUpdate DEF ControlInv
<1>4. Appended /\ ~Popped /\ Appended' /\ Popped'
  BY <1>0, <1>1, <1>3 DEF Appended, AfterAppend, Popped, AfterPop
<1>5. ready # <<>> /\ thread_tag = Head(ready) /\ ready[Len(ready)] = cur
  BY <1>0, <1>4 DEF ControlInv, NextExists, TurnInv
<1>6. /\ thread_tag = cur => ready' = <<>> /\ Front(ready) = <<>>
      /\ thread_tag # cur => /\ ready' # <<>>
                             /\ ready'[Len(ready')] = cur
                             /\ <<thread_tag>> \o Front(ready') = Front(ready)
  BY <1>0, <1>2, <1>5, TailKeepsLast
<1>7. slice'[cur] = StoredPriority[cur] /\ StoredPriority' = StoredPriority
  BY <1>0, <1>2 DEF TurnInv, RenewedPoints, StoredPriority
<1>8. TurnInv'
  BY <1>1, <1>2, <1>3, <1>4, <1>6, <1>7 DEF TurnInv, SpentPoints
<1>9. WaitingQueue' = WaitingQueue
  <2>1. CASE thread_tag = cur
    BY <1>2, <1>4, <1>6, <2>1, WaitingCases, WaitingCasesNext
  <2>2. CASE thread_tag # cur
    BY <1>2, <1>4, <1>6, <2>2, WaitingCases, WaitingCasesNext
  <2> QED BY <2>1, <2>2
<1>10. Created' = Created
  BY <1>2 DEF Created
<1>11. Allowance' = Allowance
  BY <1>2, <1>4, <1>7, <1>10 DEF Allowance
<1> QED BY <1>2, <1>8, <1>9, <1>11 DEF RR!rrvars

\* The switch is the rotation: thread_tag runs, the old thread is the last of
\* the queue and has its new time slice.
LEMMA ScheduleSwitchTurn ==
    ASSUME ControlInv, QueueInv, TurnInv, ScheduleSwitch
    PROVE  TurnInv' /\ RR!Rotate
<1> DEFINE f == Fresh("iret")
<1>0. /\ Top.pc = "sched_switch" /\ At("sched_switch") /\ depth[cur] = 1
      /\ thread_tag \in Created /\ thread_tag \in Thread
      /\ cur \in Created /\ ready \in Seq(Thread)
      /\ slice \in [Thread -> 0..255]
      /\ status \in [Thread -> {"NONE", "READY", "RUNNING"}]
  BY Level DEF ScheduleSwitch, At, HandlerPoints, ControlInv, NextExists, TypeOK
<1>1. f \in Activation /\ frame' = [frame EXCEPT ![cur][depth[cur]] = f]
  BY FreshType DEF ScheduleSwitch, Goto, HandlerPoints
<1> HIDE DEF f
<1>2. /\ cur \in Thread /\ frame'[cur][1] = f
      /\ \A t \in Thread \ {cur} : frame'[t] = frame[t]
  BY <1>0, <1>1, ScheduleUpdate
<1>3. /\ cur' = thread_tag /\ depth' = depth /\ ready' = ready
      /\ slice' = slice /\ thread_tag' = thread_tag
      /\ status' = [status EXCEPT ![thread_tag] = "RUNNING"]
  BY DEF ScheduleSwitch
<1>4. Created' = Created
  BY <1>0, <1>3 DEF Created
<1>5. Top' = Fresh("iret") \/ Top' = Fresh("start")
  <2>1. CASE thread_tag = cur
    BY <1>0, <1>2, <1>3, <2>1 DEF Top, f
  <2>2. CASE thread_tag # cur
    <3>1. Suspended(thread_tag) /\ frame'[thread_tag] = frame[thread_tag]
      BY <1>0, <1>2, <2>2 DEF ControlInv
    <3>2. Top' = frame[thread_tag][depth[thread_tag]]
      BY <1>3, <3>1 DEF Top
    <3> QED BY <3>1, <3>2 DEF Suspended
  <2> QED BY <2>1, <2>2
<1>6. Appended /\ Popped /\ ~Appended' /\ ~Popped'
  <2>1. ~AfterAppend(Top') /\ ~AfterPop(Top')
    BY <1>5, FreshPhase
  <2>2. ~Appended' /\ ~Popped'
    BY <2>1 DEF Appended, Popped, AfterAppend, AfterPop
  <2> QED BY <1>0, <2>2, AtPhase
<1>7. TurnInv'
  <2>1. Top'.pc \in {"iret", "start"}
    BY <1>5, FreshFields
  <2> QED BY <1>6, <2>1 DEF TurnInv, SpentPoints, RenewedPoints
<1>8. WaitingQueue' = ready
  BY <1>3, <1>6, WaitingCasesNext
<1>9. LET q == Append(WaitingQueue, cur)
      IN  cur' = Head(q) /\ WaitingQueue' = Tail(q)
  <2>1. CASE thread_tag = cur
    <3>1. WaitingQueue = <<>> /\ ready = <<>>
      BY <1>6, <2>1, WaitingCases DEF TurnInv
    <3>2. Append(WaitingQueue, cur) = <<cur>>
      BY <3>1
    <3> QED BY <1>3, <1>8, <2>1, <3>1, <3>2
  <2>2. CASE thread_tag # cur
    <3>1. WaitingQueue = <<thread_tag>> \o Front(ready)
          /\ ready # <<>> /\ ready[Len(ready)] = cur
      BY <1>6, <2>2, WaitingCases DEF TurnInv
    <3>2. Front(ready) \in Seq(Thread) /\ Append(Front(ready), cur) = ready
      BY <1>0, <3>1, FrontProperties
    <3> DEFINE g == Front(ready)
               w == <<thread_tag>> \o g
    <3>3. g \in Seq(Thread) /\ thread_tag \in Thread
      BY <1>0, <3>2
    <3> HIDE DEF g
    <3>4. w \in Seq(Thread) /\ w # <<>> /\ Head(w) = thread_tag /\ Tail(w) = g
      BY <3>3, ConsProperties, Zenon
    <3>5. WaitingQueue = w /\ Append(g, cur) = ready
      BY <3>1, <3>2 DEF g
    <3> HIDE DEF w
    <3>6. Head(Append(w, cur)) = thread_tag /\ Tail(Append(w, cur)) = ready
      BY <1>2, <3>4, <3>5, HeadTailAppend, Zenon
    <3> QED BY <1>3, <1>8, <3>6, <3>5
  <2> QED BY <2>1, <2>2
<1>10. Allowance[cur] = 0
  BY <1>0, <1>2, <1>6 DEF Allowance
<1>11. Allowance' = [Allowance EXCEPT ![cur] = StoredPriority[cur]]
  <2>1. \A t \in Thread : Allowance'[t] =
           IF t \notin Created THEN StoredPriority[t] ELSE slice[t]
    BY <1>3, <1>4, <1>6 DEF Allowance, StoredPriority
  <2>2. \A t \in Thread \ {cur} : Allowance[t] =
           IF t \notin Created THEN StoredPriority[t] ELSE slice[t]
    BY DEF Allowance
  <2>3. slice[cur] = StoredPriority[cur]
    BY <1>0 DEF TurnInv, RenewedPoints
  <2>4. \A t \in Thread :
           Allowance'[t] = IF t = cur THEN StoredPriority[cur] ELSE Allowance[t]
    BY <1>0, <2>1, <2>2, <2>3
  <2>5. /\ Allowance' = [t \in Thread |-> Allowance'[t]]
        /\ Allowance = [t \in Thread |-> Allowance[t]]
    BY DEF Allowance
  <2> QED BY <1>2, <2>4, <2>5
<1> QED BY <1>7, <1>9, <1>10, <1>11 DEF RR!Rotate

-----------------------------------------------------------------------------
(* The invariant and the refinement *)

LEMMA NextTurn ==
    ASSUME IInv, [Next]_vars
    PROVE  TurnInv' /\ [RR!RRNext]_RR!rrvars
<1> USE DEF IInv
<1>1. CASE ~Turning
  BY <1>1, QuietSteps, QuietTurn, QuietStutter
<1>2. CASE CreatePage
  BY <1>2, CreatePageTurn
<1>3. CASE CreateAppendReady
  BY <1>3, CreateAppendReadyTurn DEF RR!RRNext
<1>4. CASE TimerHandler
  BY <1>4, TimerHandlerTurn DEF RR!RRNext
<1>5. CASE ScheduleAppend
  BY <1>5, ScheduleAppendTurn
<1>6. CASE ScheduleReset
  BY <1>6, ScheduleResetTurn
<1>7. CASE ScheduleRemove
  BY <1>7, ScheduleRemoveTurn
<1>8. CASE ScheduleSwitch
  BY <1>8, ScheduleSwitchTurn DEF RR!RRNext
<1> QED BY <1>1, <1>2, <1>3, <1>4, <1>5, <1>6, <1>7, <1>8 DEF Turning

(* The inductive invariant holds in every reachable state, when calls of    *)
(* get_kernel_pages do not overlap.                                         *)
THEOREM Invariant ==
    ASSUME OneAtATime
    PROVE  Spec => []IInv
<1>1. Init => IInv
  <2> SUFFICES ASSUME Init PROVE TurnInv
    BY InitControl, InitPage, InitQueue DEF IInv
  <2>1. Top = Fresh("body")
    BY ThreadAssumption DEF Init, Top
  <2>2. ~Appended /\ Top.pc = "body"
    BY <2>1, FreshPhase, FreshFields DEF Appended
  <2> QED BY <2>2 DEF TurnInv, SpentPoints, RenewedPoints
<1>2. IInv /\ [Next]_vars => IInv'
  BY NextControl, NextPage, NextQueue, NextTurn DEF IInv
<1> QED BY <1>1, <1>2, PTL DEF Spec

(* The handler, the scheduler and thread_create, interleaved as they are,   *)
(* give every thread turns in order of arrival and of exactly its stored    *)
(* priority plus one ticks (thread.c:144-161,180-205; timer.c:198-215), for *)
(* any set of threads and any priorities, when calls of get_kernel_pages do *)
(* not overlap.                                                             *)
THEOREM RoundRobinRefinement ==
    ASSUME OneAtATime
    PROVE  Spec => ImplementsRoundRobin
<1>1. Init => RR!RRInit
  <2> SUFFICES ASSUME Init PROVE RR!RRInit
    OBVIOUS
  <2>1. Top = Fresh("body")
    BY ThreadAssumption DEF Init, Top
  <2>2. ~Appended
    BY <2>1, FreshPhase DEF Appended
  <2>3. WaitingQueue = <<>>
    BY <2>2, WaitingCases DEF Init
  <2>4. Allowance = StoredPriority
    BY <2>2, ThreadAssumption DEF Allowance, StoredPriority, Init, Created
  <2> QED BY <2>3, <2>4 DEF Init, RR!RRInit
<1>2. IInv /\ [Next]_vars => [RR!RRNext]_RR!rrvars
  BY NextTurn
<1> QED BY <1>1, <1>2, Invariant, PTL DEF Spec, ImplementsRoundRobin, RR!RRSpec
=============================================================================
