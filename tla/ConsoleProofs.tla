----------------------------- MODULE ConsoleProofs -----------------------------
(***************************************************************************)
(* One writer, whom an exception may interrupt anywhere for good: the      *)
(* cursor stays on the screen, what is printed is what the abstract screen *)
(* shows, numbers come out digit by digit, and the message of whoever gives*)
(* up is left whole, for screens, characters and programs of every size.   *)
(***************************************************************************)
EXTENDS ConsoleInv, SequenceTheorems, WellFoundedInduction, TLAPS

-----------------------------------------------------------------------------
(* Arithmetic *)

LEMMA Quotient ==
    ASSUME NEW n \in Nat \ {0}, NEW a \in Nat, NEW b \in 0 .. n - 1
    PROVE  (a * n + b) \div n = a /\ (a * n + b) % n = b
OBVIOUS

LEMMA Parts ==
    ASSUME NEW n \in Nat \ {0}, NEW v \in Nat
    PROVE  /\ v \div n \in Nat /\ v % n \in 0 .. n - 1
           /\ v = (v \div n) * n + (v % n)
<1>1. v \div n \in Nat /\ v % n \in 0 .. n - 1
  OBVIOUS
<1>2. v = (v \div n) * n + (v % n)
  BY Z3T(30)
<1> QED BY <1>1, <1>2

LEMMA Products ==
    ASSUME NEW n \in Nat \ {0}, NEW a \in Nat, NEW b \in Nat
    PROVE  /\ a * n \in Nat
           /\ a <= b => a * n <= b * n
           /\ a < b => a * n + n <= b * n
<1>1. a * n \in Nat /\ b * n \in Nat
  OBVIOUS
<1>2. a <= b => a * n <= b * n
  BY Z3T(30)
<1>3. (a + 1) * n = a * n + n
  BY Z3T(30)
<1>4. a + 1 <= b => (a + 1) * n <= b * n
  BY Z3T(30)
<1> QED BY <1>1, <1>2, <1>3, <1>4

\* A cell of the screen is a line and a place in it.
LEMMA CellParts ==
    ASSUME NEW n \in Nat \ {0}, NEW m \in Nat, NEW v \in 0 .. m * n - 1
    PROVE  v \div n \in 0 .. m - 1 /\ v % n \in 0 .. n - 1
<1>0. m * n \in Nat /\ v \in Nat
  OBVIOUS
<1>1. /\ v \div n \in Nat /\ v % n \in 0 .. n - 1
      /\ v = (v \div n) * n + (v % n)
  BY ONLY <1>0, Parts, n \in Nat \ {0}
<1> DEFINE q == v \div n
<1>2. ~(m <= q)
  <2> SUFFICES ASSUME m <= q PROVE FALSE
    OBVIOUS
  <2>1. m * n <= q * n /\ q * n \in Nat
    BY <1>1, Products
  <2> QED BY <1>0, <1>1, <2>1
<1> QED BY <1>1, <1>2

LEMMA JoinParts ==
    ASSUME NEW n \in Nat \ {0}, NEW m \in Nat,
           NEW a \in 0 .. m - 1, NEW b \in 0 .. n - 1
    PROVE  a * n + b \in 0 .. m * n - 1
<1>1. a * n \in Nat /\ a * n + n <= m * n /\ m * n \in Nat
  BY Products
<1> QED BY <1>1

-----------------------------------------------------------------------------
(* The screen in the segment, the segment in BX *)

LEMMA Sizes ==
    /\ Rows \in Nat /\ Rows >= 2 /\ Cols \in Nat /\ Cols >= 1
    /\ Base \in Nat /\ Base >= 1 /\ VideoCells \in Nat
    /\ Cells \in Nat /\ Cells >= 2 * Cols /\ Cells + Cols < VideoCells
    /\ Word \in Nat /\ 2 * VideoCells <= Word
<1>1. Cells \in Nat /\ 2 * Cols <= Cells
  <2>1. Cells \in Nat
    BY ConsoleAssumption DEF Cells
  <2>2. 2 * Cols <= Rows * Cols
    BY ConsoleAssumption, Products
  <2> QED BY <2>1, <2>2 DEF Cells
<1>2. (Rows + 1) * Cols = Cells + Cols
  BY ConsoleAssumption, Z3T(30) DEF Cells
<1>3. Word \in Nat
  BY ConsoleAssumption DEF Word
<1> QED BY <1>1, <1>2, <1>3, ConsoleAssumption DEF Word

LEMMA Halves ==
    ASSUME NEW v \in Nat, NEW w \in Nat, 2 * v <= w
    PROVE  w \div 2 \in Nat /\ v <= w \div 2
OBVIOUS

LEMMA SmallModulus ==
    ASSUME NEW v \in Nat, NEW w \in Nat, v < w
    PROVE  v % w = v
OBVIOUS

LEMMA InSegment ==
    ASSUME NEW bx \in 0 .. VideoCells - 1
    PROVE  /\ Cell(bx) = bx /\ bx % Word = bx /\ bx \in 0 .. Word - 1
           /\ OnScreen(bx) <=> bx < Cells
<1>1. Word \div 2 \in Nat /\ VideoCells <= Word \div 2
  BY Sizes, Halves
<1>2. bx \in Nat /\ bx < Word \div 2 /\ bx < Word
  BY <1>1, Sizes
<1>3. bx % (Word \div 2) = bx /\ bx % Word = bx
  BY <1>1, <1>2, Sizes, SmallModulus
<1> QED BY <1>1, <1>2, <1>3, Sizes DEF Cell, OnScreen

LEMMA NewLineIs ==
    ASSUME NEW bx \in 0 .. Cells
    PROVE  /\ NewLine(bx) = (bx \div Cols) * Cols + Cols
           /\ NewLine(bx) \in Cols .. Cells + Cols
<1>0. bx \in Nat /\ Cols \in Nat \ {0} /\ Cells \in Nat
  BY Sizes
<1>1. /\ bx \div Cols \in Nat /\ bx % Cols \in 0 .. Cols - 1
      /\ bx = (bx \div Cols) * Cols + (bx % Cols)
  BY ONLY <1>0, Parts
<1>5. (bx \div Cols) * Cols \in Nat
  BY ONLY <1>0, <1>1
<1>2. (bx - (bx % Cols)) + Cols = (bx \div Cols) * Cols + Cols
  BY <1>0, <1>1, <1>5
<1>3. (bx \div Cols) * Cols + Cols \in Cols .. Cells + Cols
  BY <1>0, <1>1, <1>5
<1>4. ((bx \div Cols) * Cols + Cols) % Word = (bx \div Cols) * Cols + Cols
  <2> DEFINE new == (bx \div Cols) * Cols + Cols
  <2>1. new \in 0 .. VideoCells - 1
    BY <1>3, Sizes
  <2> HIDE DEF new
  <2>2. new % Word = new
    BY <2>1, InSegment
  <2> QED BY <2>2 DEF new
<1> QED BY <1>2, <1>3, <1>4 DEF NewLine

LEMMA CursorType ==
    ASSUME reg \in [{"high", "low"} -> 0..Base - 1]
    PROVE  Cursor \in 0 .. Word - 1
<1>1. reg["high"] \in 0 .. Base - 1 /\ reg["low"] \in 0 .. Base - 1
  OBVIOUS
<1> QED BY <1>1, JoinParts, Sizes DEF Cursor, Word

LEMMA BytesOf ==
    ASSUME NEW bx \in 0 .. Word - 1
    PROVE  /\ bx \div Base \in 0 .. Base - 1 /\ bx % Base \in 0 .. Base - 1
           /\ bx = (bx \div Base) * Base + (bx % Base)
<1>1. Base \in Nat \ {0} /\ Base \in Nat /\ bx \in 0 .. Base * Base - 1
  BY Sizes DEF Word
<1>2. bx \in Nat
  BY Sizes
<1>3. bx \div Base \in 0 .. Base - 1 /\ bx % Base \in 0 .. Base - 1
  BY ONLY <1>1, CellParts
<1>4. bx = (bx \div Base) * Base + (bx % Base)
  BY ONLY <1>1, <1>2, Parts
<1> QED BY <1>3, <1>4

-----------------------------------------------------------------------------
(* The writer's frame *)

LEMMA MyFrame ==
    ASSUME NEW w, Writer = {w}, ConsoleTypes
    PROVE  /\ call[w] \in Frame
           /\ \A d \in Frame : call' = [call EXCEPT ![w] = d] =>
                 call' \in [Writer -> Frame] /\ call'[w] = d
BY DEF ConsoleTypes

LEMMA FrameFields ==
    ASSUME NEW c \in Frame
    PROVE  /\ c = [pc |-> c.pc, cl |-> c.cl, bx |-> c.bx, ah |-> c.ah,
                   back |-> c.back, num |-> c.num, eax |-> c.eax,
                   edi |-> c.edi]
           /\ c.pc \in Points /\ c.cl \in Character /\ c.bx \in 0..Word - 1
           /\ c.ah \in 0..Base - 1 /\ c.back \in {"idle", "next"}
           /\ c.num \in Nat /\ c.eax \in Nat /\ c.edi \in 0..Digits
BY DEF Frame

LEMMA IdleFrame == Idle \in Frame
<1>1. 0 \in 0..Word - 1 /\ 0 \in 0..Base - 1 /\ 0 \in 0..Digits
  BY Sizes, ConsoleAssumption
<1>2. "idle" \in Points /\ LF \in Character
  BY DEF Points, Character
<1> QED BY <1>1, <1>2 DEF Idle, Frame

\* The rest of the state after a step that changes at most the frame
LEMMA FrameOnly ==
    ASSUME NEW w, Writer = {w}, IInv, NEW d \in Frame,
           call' = [call EXCEPT ![w] = d],
           UNCHANGED <<index, reg, text, put_int_buffer, fault>>,
           program' \in Seq(ConsoleCall),
           FrameInv(d)
    PROVE  IInv'
<1>1. call' \in [Writer -> Frame] /\ call'[w] = d
  BY MyFrame DEF IInv
<1>2. ConsoleTypes'
  BY <1>1 DEF IInv, ConsoleTypes
<1>3. FrameInv(call[w])'
  BY <1>1 DEF FrameInv, Cursor
<1> QED BY <1>2, <1>3 DEF IInv

-----------------------------------------------------------------------------
(* The accesses to the ports *)

LEMMA ReadHighStep ==
    ASSUME NEW w, Writer = {w}, IInv, ReadHigh(w), UNCHANGED program
    PROVE  IInv'
<1> DEFINE c == call[w]
           d == [c EXCEPT !.ah = reg[index], !.pc = "get_low"]
<1>1. c \in Frame /\ FrameInv(c) /\ c.pc = "read_high"
  BY MyFrame DEF IInv, ReadHigh, At
<1>2. index = "high" /\ reg[index] \in 0..Base - 1
  BY <1>1 DEF FrameInv, IInv, ConsoleTypes
<1>3. d \in Frame /\ d.pc = "get_low" /\ d.ah = reg["high"] /\ d.cl = c.cl
  BY <1>1, <1>2 DEF Frame, Points
<1>4. call' = [call EXCEPT ![w] = d]
  BY <1>1 DEF ReadHigh, IInv, ConsoleTypes
<1>5. FrameInv(d)
  BY <1>1, <1>3 DEF FrameInv, Reading, Writing
<1> QED BY <1>3, <1>4, <1>5, FrameOnly DEF ReadHigh, IInv, ConsoleTypes

LEMMA ReadLowStep ==
    ASSUME NEW w, Writer = {w}, IInv, ReadLow(w), UNCHANGED program
    PROVE  IInv'
<1> DEFINE c == call[w]
           b == c.ah * Base + reg[index]
           d == [c EXCEPT !.bx = b, !.pc = "draw"]
<1>1. c \in Frame /\ FrameInv(c) /\ c.pc = "read_low"
  BY MyFrame DEF IInv, ReadLow, At
<1>2. b = Cursor /\ Cursor \in 0..Word - 1
  BY <1>1, CursorType DEF FrameInv, IInv, ConsoleTypes, Cursor
<1> HIDE DEF b
<1>3. d \in Frame /\ d.pc = "draw" /\ d.bx = Cursor /\ d.cl = c.cl
  BY <1>1, <1>2 DEF Frame, Points
<1>4. call' = [call EXCEPT ![w] = d]
  BY <1>1 DEF ReadLow, IInv, ConsoleTypes, b
<1>5. FrameInv(d)
  BY <1>1, <1>3 DEF FrameInv, Reading, Writing
<1> QED BY <1>3, <1>4, <1>5, FrameOnly DEF ReadLow, IInv, ConsoleTypes

\* The four selections of a register
LEMMA SelectStep ==
    ASSUME NEW w, Writer = {w}, IInv, UNCHANGED program,
           NEW point, NEW register, NEW next,
           <<point, register, next>> \in
              {<<"get_high", "high", "read_high">>,
               <<"get_low", "low", "read_low">>,
               <<"set_high", "high", "write_high">>,
               <<"set_low", "low", "write_low">>},
           Select(w, point, register, next)
    PROVE  IInv'
<1> DEFINE c == call[w]
           d == [c EXCEPT !.pc = next]
<1>1. c \in Frame /\ FrameInv(c) /\ c.pc = point
  BY MyFrame DEF IInv, Select, At
<1>2. next \in Points /\ register \in {"high", "low"}
  BY DEF Points
<1>3. /\ d \in Frame /\ d.pc = next
      /\ d.bx = c.bx /\ d.ah = c.ah /\ d.cl = c.cl /\ d.edi = c.edi
  BY <1>1, <1>2 DEF Frame
<1>4. call' = [call EXCEPT ![w] = d]
  BY <1>1 DEF Select, Goto, IInv, ConsoleTypes
<1> HIDE DEF d
<1>5. call' \in [Writer -> Frame] /\ call'[w] = d
  BY <1>3, <1>4, MyFrame DEF IInv
<1>6. ConsoleTypes'
  BY <1>2, <1>5 DEF IInv, ConsoleTypes, Select
<1>7. FrameInv(call[w])'
  BY <1>1, <1>3, <1>5 DEF FrameInv, Cursor, Select, Reading, Writing
<1> QED BY <1>6, <1>7 DEF IInv
LEMMA WriteHighStep ==
    ASSUME NEW w, Writer = {w}, IInv, UNCHANGED program,
           WriteRegister(w, "write_high", call[w].bx \div Base,
                         Goto(w, "set_low"))
    PROVE  IInv'
<1> DEFINE c == call[w]
           b == c.bx \div Base
           d == [c EXCEPT !.pc = "set_low"]
<1>1. c \in Frame /\ FrameInv(c) /\ c.pc = "write_high" /\ index = "high"
  BY MyFrame DEF IInv, WriteRegister, At, FrameInv
<1>2. b \in 0..Base - 1
  BY <1>1, FrameFields, BytesOf
<1> HIDE DEF b
<1>3. /\ d \in Frame /\ d.pc = "set_low" /\ d.bx = c.bx
  BY <1>1 DEF Frame, Points
<1>4. call' = [call EXCEPT ![w] = d]
  BY <1>1 DEF WriteRegister, Goto, IInv, ConsoleTypes
<1> HIDE DEF d
<1>5. call' \in [Writer -> Frame] /\ call'[w] = d
  BY <1>3, <1>4, MyFrame DEF IInv
<1>6. reg' = [reg EXCEPT !["high"] = b]
  BY <1>1 DEF WriteRegister, b
<1>7. ConsoleTypes'
  BY <1>2, <1>5, <1>6 DEF IInv, ConsoleTypes, WriteRegister
<1>8. reg'["high"] = b /\ d.bx < Cells
  BY <1>1, <1>3, <1>6 DEF IInv, ConsoleTypes, FrameInv, Writing
<1>9. FrameInv(call[w])'
  BY <1>3, <1>5, <1>8 DEF FrameInv, Reading, Writing, b
<1> QED BY <1>7, <1>9 DEF IInv

\* Where put_char and set_cursor return to
LEMMA ReturnFrame ==
    ASSUME NEW c \in Frame
    PROVE  LET d == IF c.back = "idle" THEN Idle
                    ELSE [Idle EXCEPT !.pc = c.back, !.back = c.back,
                                      !.num = c.num, !.edi = c.edi]
           IN  d \in Frame /\ d.pc = c.back /\ d.pc \in {"idle", "next"}
<1>1. Idle \in Frame /\ Idle.pc = "idle"
  BY IdleFrame DEF Idle
<1>2. c.back \in {"idle", "next"} /\ c.num \in Nat /\ c.edi \in 0..Digits
  BY FrameFields
<1> QED BY <1>1, <1>2 DEF Frame, Points

LEMMA WriteLowStep ==
    ASSUME NEW w, Writer = {w}, IInv, UNCHANGED program,
           WriteRegister(w, "write_low", call[w].bx % Base, Return(w))
    PROVE  /\ IInv' /\ Cursor' = call[w].bx
           /\ call[w].pc = "write_low" /\ call'[w].pc \in {"idle", "next"}
<1> DEFINE c == call[w]
           b == c.bx % Base
           d == IF c.back = "idle" THEN Idle
                ELSE [Idle EXCEPT !.pc = c.back, !.back = c.back,
                                  !.num = c.num, !.edi = c.edi]
<1>1. c \in Frame /\ FrameInv(c) /\ c.pc = "write_low" /\ index = "low"
  BY MyFrame DEF IInv, WriteRegister, At, FrameInv
<1>2. b \in 0..Base - 1 /\ c.bx = (c.bx \div Base) * Base + b
  BY <1>1, FrameFields, BytesOf
<1> HIDE DEF b
<1>3. d \in Frame /\ d.pc \in {"idle", "next"}
  BY <1>1, ReturnFrame
<1>4. call' = [call EXCEPT ![w] = d]
  BY DEF WriteRegister, Return
<1> HIDE DEF d
<1>5. call' \in [Writer -> Frame] /\ call'[w] = d
  BY <1>3, <1>4, MyFrame DEF IInv
<1>6. reg' = [reg EXCEPT !["low"] = b]
  BY <1>1 DEF WriteRegister, b
<1>7. ConsoleTypes'
  BY <1>2, <1>5, <1>6 DEF IInv, ConsoleTypes, WriteRegister
<1>8. reg'["low"] = b /\ reg'["high"] = c.bx \div Base
  BY <1>1, <1>6 DEF IInv, ConsoleTypes, FrameInv
<1>9. Cursor' = c.bx
  BY <1>2, <1>8 DEF Cursor
<1>10. Cursor' < Cells
  BY <1>1, <1>9 DEF FrameInv, Writing
<1>11. FrameInv(call[w])'
  BY <1>3, <1>5, <1>10 DEF FrameInv, Reading, Writing
<1> QED BY <1>1, <1>3, <1>5, <1>7, <1>9, <1>11 DEF IInv

-----------------------------------------------------------------------------
(* Drawing *)

Picture == [0..VideoCells - 1 -> Visible \cup {Blank}]

LEMMA RollType == \A t \in Picture : Roll(t) \in Picture
<1> SUFFICES ASSUME NEW t \in Picture PROVE Roll(t) \in Picture
  OBVIOUS
<1>1. DOMAIN t = 0..VideoCells - 1
  BY DEF Picture
<1>2. \A i \in 0..VideoCells - 1 :
         i < Cells - Cols => i + Cols \in 0..VideoCells - 1
  BY Sizes
<1> QED BY <1>1, <1>2 DEF Roll, Picture

\* A drawing leaves the position in BX.
LEMMA DrawnFrame ==
    ASSUME NEW w, Writer = {w}, IInv, call[w].pc = "draw",
           NEW b \in 0..Cells - 1,
           call' = [call EXCEPT ![w].bx = b, ![w].pc = "set_high"],
           text' \in Picture,
           UNCHANGED <<index, reg, put_int_buffer, fault, program>>
    PROVE  IInv' /\ call'[w].bx = b /\ call'[w].pc = "set_high"
<1> DEFINE c == call[w]
           d == [c EXCEPT !.bx = b, !.pc = "set_high"]
<1>1. c \in Frame
  BY MyFrame DEF IInv
<1>2. b \in 0..Word - 1 /\ b < Cells
  BY Sizes
<1>3. d \in Frame /\ d.pc = "set_high" /\ d.bx = b
  BY <1>1, <1>2 DEF Frame, Points
<1>4. call' = [call EXCEPT ![w] = d]
  BY <1>1 DEF IInv, ConsoleTypes
<1> HIDE DEF d
<1>5. call' \in [Writer -> Frame] /\ call'[w] = d
  BY <1>3, <1>4, MyFrame DEF IInv
<1>6. ConsoleTypes'
  BY <1>5 DEF IInv, ConsoleTypes, Picture
<1>7. FrameInv(call[w])'
  BY <1>2, <1>3, <1>5 DEF FrameInv, Reading, Writing
<1> QED BY <1>3, <1>5, <1>6, <1>7 DEF IInv

\* Rolled or not
LEMMA FinishIs ==
    ASSUME NEW w, Writer = {w}, IInv, call[w].pc = "draw", NEW t \in Picture,
           NEW b \in 0..VideoCells - 1, Finish(w, t, b), UNCHANGED program
    PROVE  /\ IInv'
           /\ text' = IF b < Cells THEN t ELSE Roll(t)
           /\ call'[w].bx = (IF b < Cells THEN b ELSE Cells - Cols)
           /\ call'[w].pc = "set_high"
<1> DEFINE new == IF OnScreen(b) THEN b ELSE Cells - Cols
<1>1. OnScreen(b) <=> b < Cells
  BY InSegment
<1>2. new \in 0..Cells - 1 /\ new = IF b < Cells THEN b ELSE Cells - Cols
  BY <1>1, Sizes
<1>3. text' = IF b < Cells THEN t ELSE Roll(t)
  BY <1>1 DEF Finish
<1>4. text' \in Picture
  BY <1>3, RollType
<1>5. call' = [call EXCEPT ![w].bx = new, ![w].pc = "set_high"]
  BY DEF Finish
<1> HIDE DEF new
<1>6. UNCHANGED <<index, reg, put_int_buffer, fault, program>>
  BY DEF Finish
<1>7. IInv' /\ call'[w].bx = new /\ call'[w].pc = "set_high"
  BY <1>2, <1>4, <1>5, <1>6, DrawnFrame
<1> QED BY <1>2, <1>3, <1>7
LEMMA DrawNewLineIs ==
    ASSUME NEW w, Writer = {w}, IInv, DrawNewLine(w), UNCHANGED program
    PROVE  LET bx == Cursor
               b == (bx \div Cols) * Cols + Cols
           IN  /\ IInv' /\ bx \in 0..Cells - 1 /\ b \in Cols .. Cells + Cols
               /\ call[w].pc = "draw" /\ call'[w].pc = "set_high"
               /\ text' = IF b < Cells THEN text ELSE Roll(text)
               /\ call'[w].bx = IF b < Cells THEN b ELSE Cells - Cols
<1> DEFINE bx == Cursor
           b == (bx \div Cols) * Cols + Cols
<1>1. call[w].pc = "draw" /\ call[w].bx = bx /\ bx \in 0..Cells - 1
  <2>1. call[w].pc = "draw" /\ FrameInv(call[w])
    BY DEF IInv, DrawNewLine, At
  <2>2. bx \in 0..Word - 1
    BY CursorType DEF IInv, ConsoleTypes
  <2> QED BY <2>1, <2>2, Sizes DEF FrameInv, Writing
<1> HIDE DEF bx
<1>2. NewLine(bx) = b /\ b \in Cols .. Cells + Cols
  <2>1. bx \in 0..Cells
    BY <1>1, Sizes
  <2> QED BY <2>1, NewLineIs
<1>3. b \in 0..VideoCells - 1
  BY <1>2, Sizes
<1>4. Finish(w, text, b) /\ text \in Picture
  BY <1>1, <1>2 DEF DrawNewLine, IInv, ConsoleTypes, Picture
<1> HIDE DEF b
<1>5. /\ IInv' /\ call'[w].pc = "set_high"
      /\ text' = IF b < Cells THEN text ELSE Roll(text)
      /\ call'[w].bx = IF b < Cells THEN b ELSE Cells - Cols
  BY <1>1, <1>3, <1>4, FinishIs
<1> QED BY <1>1, <1>2, <1>5 DEF b, bx

LEMMA DrawVisibleIs ==
    ASSUME NEW w, Writer = {w}, IInv, DrawVisible(w), UNCHANGED program
    PROVE  LET bx == Cursor
               t == [text EXCEPT ![bx] = call[w].cl]
           IN  /\ IInv' /\ bx \in 0..Cells - 1
               /\ call[w].cl \in Visible \cup {Blank}
               /\ call[w].pc = "draw" /\ call'[w].pc = "set_high"
               /\ text' = IF bx + 1 < Cells THEN t ELSE Roll(t)
               /\ call'[w].bx = IF bx + 1 < Cells THEN bx + 1 ELSE Cells - Cols
<1> DEFINE bx == Cursor
           t == [text EXCEPT ![bx] = call[w].cl]
           b == IF bx + 1 < Cells THEN bx + 1 ELSE Cells + Cols
<1>1. call[w].pc = "draw" /\ call[w].bx = bx /\ bx \in 0..Cells - 1
  <2>1. call[w].pc = "draw" /\ FrameInv(call[w])
    BY DEF IInv, DrawVisible, At
  <2>2. bx \in 0..Word - 1
    BY CursorType DEF IInv, ConsoleTypes
  <2> QED BY <2>1, <2>2, Sizes DEF FrameInv, Writing
<1>2. call[w].cl \in Visible \cup {Blank}
  BY DEF DrawVisible
<1> HIDE DEF bx
<1>3. bx \in 0..VideoCells - 1 /\ bx + 1 \in 0..VideoCells - 1
  BY <1>1, Sizes
<1>4. Cell(bx) = bx /\ (OnScreen(bx + 1) <=> bx + 1 < Cells)
  BY <1>3, InSegment
<1>5. bx + 1 >= Cells => NewLine(bx + 1) = Cells + Cols
  <2> SUFFICES ASSUME bx + 1 >= Cells PROVE NewLine(Cells) = Cells + Cols
    BY <1>1, Sizes
  <2>1. Cells \div Cols = Rows
    <3>1. Cols \in Nat \ {0} /\ Rows \in Nat /\ 0 \in 0..Cols - 1
      BY Sizes
    <3>2. (Rows * Cols + 0) \div Cols = Rows
      BY ONLY <3>1, Quotient
    <3> QED BY <3>2, Sizes DEF Cells
  <2>2. Cells \in 0..Cells
    BY Sizes
  <2> QED BY <2>1, <2>2, NewLineIs DEF Cells
<1>6. b \in 0..VideoCells - 1 /\ (b < Cells <=> bx + 1 < Cells)
  BY <1>1, Sizes
<1>7. t \in Picture
  BY <1>2 DEF IInv, ConsoleTypes, Picture
<1>8. Finish(w, t, b)
  <2>1. b = IF OnScreen(bx + 1) THEN bx + 1 ELSE NewLine(bx + 1)
    BY <1>1, <1>4, <1>5, Sizes
  <2>2. ~(Cell(bx) >= VideoCells)
    BY <1>3, <1>4, Sizes
  <2> HIDE DEF b
  <2> QED BY <1>1, <1>4, <2>1, <2>2 DEF DrawVisible
<1>9. b < Cells => b = bx + 1
  BY <1>1, Sizes
<1> HIDE DEF b, t
<1>10. /\ IInv' /\ call'[w].pc = "set_high"
       /\ text' = IF b < Cells THEN t ELSE Roll(t)
       /\ call'[w].bx = IF b < Cells THEN b ELSE Cells - Cols
  BY <1>1, <1>6, <1>7, <1>8, FinishIs
<1> QED BY <1>1, <1>2, <1>6, <1>9, <1>10 DEF t, bx

LEMMA DrawBackspaceIs ==
    ASSUME NEW w, Writer = {w}, IInv, DrawBackspace(w), UNCHANGED program
    PROVE  /\ IInv' /\ Cursor \in 1..Cells - 1
           /\ call[w].pc = "draw" /\ call'[w].pc = "set_high"
           /\ text' = [text EXCEPT ![Cursor - 1] = Blank]
           /\ call'[w].bx = Cursor - 1
<1> DEFINE bx == Cursor
           b == bx - 1
<1>1. call[w].pc = "draw" /\ call[w].bx = bx /\ bx \in 1..Cells - 1
  <2>1. call[w].pc = "draw" /\ call[w].cl = BS /\ FrameInv(call[w])
    BY DEF IInv, DrawBackspace, At
  <2>2. bx \in 0..Word - 1
    BY CursorType DEF IInv, ConsoleTypes
  <2> QED BY <2>1, <2>2, Sizes DEF FrameInv, Writing, Reading
<1> HIDE DEF bx
<1>2. b \in 0..VideoCells - 1 /\ b \in 0..Cells - 1
  BY <1>1, Sizes
<1>3. Cell(b % Word) = b
  BY <1>2, InSegment
<1>4. ~(b >= VideoCells)
  BY <1>2, Sizes
<1> HIDE DEF b
<1>5. /\ text' = [text EXCEPT ![b] = Blank]
      /\ call' = [call EXCEPT ![w].bx = b, ![w].pc = "set_high"]
      /\ UNCHANGED <<index, reg, put_int_buffer, fault>>
  BY <1>1, <1>3, <1>4 DEF DrawBackspace, b
<1>6. text' \in Picture
  BY <1>5 DEF IInv, ConsoleTypes, Picture
<1>7. IInv' /\ call'[w].bx = b /\ call'[w].pc = "set_high"
  BY <1>1, <1>2, <1>5, <1>6, DrawnFrame
<1> QED BY <1>1, <1>5, <1>7 DEF b, bx
-----------------------------------------------------------------------------
(* The digits of put_int, and the calls *)

LEMMA DigitType ==
    ASSUME ConsoleTypes, NEW i \in Nat, i < Digits
    PROVE  put_int_buffer[i] \in Visible
<1>1. i \in 0..Digits - 1
  BY ConsoleAssumption
<1> QED BY <1>1, ConsoleAssumption, ExceptionsAssumption DEF ConsoleTypes

LEMMA StoreDigitStep ==
    ASSUME NEW w, Writer = {w}, IInv, UNCHANGED program, StoreDigit(w)
    PROVE  IInv'
<1> DEFINE c == call[w]
           digit == c.eax % Radix
           rest == c.eax \div Radix
           place == IF c.edi > 0 THEN c.edi - 1 ELSE 0
           point == IF c.edi > 0 THEN "store" ELSE "skip"
           d == [c EXCEPT !.eax = rest, !.edi = place, !.pc = point]
<1>1. /\ c \in Frame /\ FrameInv(c) /\ c.pc = "store"
      /\ c.eax \in Nat /\ c.edi \in 0..Digits /\ c.edi < Digits
  BY MyFrame, FrameFields DEF IInv, StoreDigit, At, FrameInv
<1>2. digit \in 0..Radix - 1 /\ rest \in Nat
  BY <1>1, ConsoleAssumption
<1>3. place \in 0..Digits /\ place < Digits /\ point \in {"store", "skip"}
  BY <1>1, ConsoleAssumption
<1>4. /\ put_int_buffer' = [put_int_buffer EXCEPT ![c.edi] = digit]
      /\ call' = [call EXCEPT ![w] = d]
      /\ UNCHANGED <<index, reg, text, fault>>
  BY DEF StoreDigit
<1> HIDE DEF digit, rest, place, point
<1>5. d \in Frame /\ d.pc = point /\ d.edi = place
  BY <1>1, <1>2, <1>3 DEF Frame, Points
<1> HIDE DEF d
<1>6. call' \in [Writer -> Frame] /\ call'[w] = d
  BY <1>4, <1>5, MyFrame DEF IInv
<1>7. ConsoleTypes'
  BY <1>2, <1>4, <1>6 DEF IInv, ConsoleTypes
<1>8. FrameInv(call[w])'
  BY <1>1, <1>3, <1>4, <1>5, <1>6 DEF FrameInv, Cursor, Reading, Writing
<1> QED BY <1>7, <1>8 DEF IInv

LEMMA SkipPrefix0Step ==
    ASSUME NEW w, Writer = {w}, IInv, UNCHANGED program, SkipPrefix0(w)
    PROVE  IInv'
<1> DEFINE c == call[w]
           d == [c EXCEPT !.edi = c.edi + 1]
<1>1. /\ c \in Frame /\ FrameInv(c) /\ c.pc = "skip"
      /\ c.edi \in 0..Digits /\ c.edi < Digits
  BY MyFrame, FrameFields DEF IInv, SkipPrefix0, At, IsPrefix0
<1>2. c.edi + 1 \in 0..Digits
  BY <1>1, ConsoleAssumption
<1>3. d \in Frame /\ d.pc = "skip"
  BY <1>1, <1>2 DEF Frame
<1>4. call' = [call EXCEPT ![w] = d]
  BY <1>1 DEF SkipPrefix0, IInv, ConsoleTypes
<1>5. FrameInv(d)
  BY <1>1, <1>3 DEF FrameInv, Reading, Writing
<1> QED BY <1>3, <1>4, <1>5, FrameOnly DEF SkipPrefix0, IInv, ConsoleTypes

\* put_char is entered from an idle frame or from put_int.
LEMMA EnterPutCharStep ==
    ASSUME NEW w, Writer = {w}, IInv, call[w].pc \notin Writing,
           NEW c \in Frame, NEW char \in Character, char = BS => Cursor > 0,
           EnterPutChar(w, c, char),
           UNCHANGED <<index, reg, text, put_int_buffer, fault>>,
           program' \in Seq(ConsoleCall)
    PROVE  IInv'
<1> DEFINE d == [c EXCEPT !.pc = "get_high", !.cl = char]
<1>1. d \in Frame /\ d.pc = "get_high" /\ d.cl = char
  BY DEF Frame, Points
<1>2. call' = [call EXCEPT ![w] = d]
  BY DEF EnterPutChar
<1>3. Cursor < Cells
  BY DEF IInv, FrameInv
<1>4. FrameInv(d)
  BY <1>1, <1>3 DEF FrameInv, Reading, Writing
<1> QED BY <1>1, <1>2, <1>4, FrameOnly

LEMMA FirstDigitStep ==
    ASSUME NEW w, Writer = {w}, IInv, UNCHANGED program, FirstDigit(w)
    PROVE  IInv'
<1> DEFINE c == call[w]
           char == IF c.edi = Digits THEN 0 ELSE put_int_buffer[c.edi]
<1>1. c \in Frame /\ c.pc = "skip" /\ c.edi \in 0..Digits
  BY MyFrame, FrameFields DEF IInv, FirstDigit, At
<1>2. char \in Visible
  <2>1. 0 \in Visible
    BY ConsoleAssumption, ExceptionsAssumption
  <2>2. c.edi # Digits => c.edi \in Nat /\ c.edi < Digits
    BY <1>1, ConsoleAssumption
  <2> QED BY <2>1, <2>2, DigitType DEF IInv
<1>3. char \in Character /\ char # BS
  BY <1>2, ConsoleAssumption DEF Character
<1>4. EnterPutChar(w, c, char)
  BY DEF FirstDigit
<1> HIDE DEF char
<1>5. c.pc \notin Writing
  BY <1>1 DEF Writing
<1>6. UNCHANGED <<index, reg, text, put_int_buffer, fault>>
  BY DEF FirstDigit
<1>7. program' \in Seq(ConsoleCall)
  BY DEF IInv, ConsoleTypes
<1> QED BY <1>1, <1>3, <1>4, <1>5, <1>6, <1>7, EnterPutCharStep

LEMMA NextDigitStep ==
    ASSUME NEW w, Writer = {w}, IInv, UNCHANGED program, NextDigit(w)
    PROVE  IInv'
<1> DEFINE c == call[w]
           edi == c.edi + 1
           d == [c EXCEPT !.edi = edi]
<1>1. /\ c \in Frame /\ FrameInv(c) /\ c.pc = "next" /\ c.edi \in 0..Digits
      /\ edi \in Nat
  BY MyFrame, FrameFields, ConsoleAssumption DEF IInv, NextDigit, At
<1>2. c.pc \notin Writing /\ Cursor < Cells
  BY <1>1 DEF Writing, FrameInv
<1>3. /\ UNCHANGED <<index, reg, text, put_int_buffer, fault>>
      /\ program' \in Seq(ConsoleCall)
  BY DEF NextDigit, IInv, ConsoleTypes
<1>4. CASE edi < Digits
  <2>1. d \in Frame
    <3>1. edi \in 0..Digits
      BY <1>1, <1>4, ConsoleAssumption
    <3> HIDE DEF edi
    <3> QED BY <1>1, <3>1 DEF Frame
  <2>2. EnterPutChar(w, d, put_int_buffer[edi])
    BY <1>4 DEF NextDigit
  <2>3. put_int_buffer[edi] \in Character /\ put_int_buffer[edi] # BS
    BY <1>1, <1>4, DigitType, ConsoleAssumption DEF IInv, Character
  <2> HIDE DEF d, edi
  <2> QED BY <1>2, <1>3, <2>1, <2>2, <2>3, EnterPutCharStep
<1>5. CASE ~(edi < Digits)
  <2>1. call' = [call EXCEPT ![w] = Idle]
    BY <1>5 DEF NextDigit
  <2>2. Idle \in Frame /\ Idle.pc = "idle"
    BY IdleFrame DEF Idle
  <2>3. FrameInv(Idle)
    BY <1>2, <2>2 DEF FrameInv, Reading, Writing
  <2> QED BY <1>3, <2>1, <2>2, <2>3, FrameOnly
<1> QED BY <1>4, <1>5

LEMMA PutCharStep ==
    ASSUME NEW w, Writer = {w}, IInv, program' \in Seq(ConsoleCall),
           NEW char \in Character, PutChar(w, char)
    PROVE  IInv'
<1>1. /\ call[w].pc \notin Writing /\ (char = BS => Cursor > 0)
      /\ EnterPutChar(w, Idle, char)
      /\ UNCHANGED <<index, reg, text, put_int_buffer, fault>>
  BY DEF PutChar, At, Writing
<1> QED BY <1>1, IdleFrame, EnterPutCharStep

LEMMA PutIntStart ==
    ASSUME NEW w, Writer = {w}, IInv, program' \in Seq(ConsoleCall),
           NEW num \in Nat, PutInt(w, num)
    PROVE  IInv'
<1> DEFINE d == [Idle EXCEPT !.pc = "store", !.num = num, !.eax = num,
                             !.edi = Digits - 1, !.back = "next"]
<1>1. Digits - 1 \in 0..Digits /\ Digits - 1 < Digits
  BY ConsoleAssumption
<1>2. d \in Frame /\ d.pc = "store" /\ d.edi = Digits - 1
  BY <1>1, IdleFrame DEF Frame, Points
<1>3. /\ call' = [call EXCEPT ![w] = d]
      /\ UNCHANGED <<index, reg, text, put_int_buffer, fault>>
  BY DEF PutInt
<1> HIDE DEF d
<1>4. Cursor < Cells
  BY DEF IInv, FrameInv, PutInt, At, Writing
<1>5. FrameInv(d)
  BY <1>1, <1>2, <1>4 DEF FrameInv, Reading, Writing
<1> QED BY <1>2, <1>3, <1>5, FrameOnly

LEMMA SetCursorFrameIs ==
    ASSUME NEW pos \in 0..Cells - 1
    PROVE  /\ SetCursorFrame(pos) \in Frame
           /\ SetCursorFrame(pos).pc = "set_high"
           /\ SetCursorFrame(pos).bx = pos
<1>1. pos \in 0..Word - 1
  BY Sizes
<1> QED BY <1>1, IdleFrame DEF SetCursorFrame, Frame, Points

LEMMA SetCursorStart ==
    ASSUME NEW w, Writer = {w}, IInv, program' \in Seq(ConsoleCall),
           NEW pos \in 0..Cells - 1, set_cursor(w, pos)
    PROVE  IInv'
<1> DEFINE d == SetCursorFrame(pos)
<1>1. d \in Frame /\ d.pc = "set_high" /\ d.bx = pos /\ pos < Cells
  BY SetCursorFrameIs, Sizes
<1>2. /\ call' = [call EXCEPT ![w] = d]
      /\ UNCHANGED <<index, reg, text, put_int_buffer, fault>>
  BY DEF set_cursor
<1> HIDE DEF d
<1>3. FrameInv(d)
  BY <1>1 DEF FrameInv, Reading, Writing
<1> QED BY <1>1, <1>2, <1>3, FrameOnly
LEMMA NumbersType == \A num \in Numbers : num \in Nat
BY ConsoleAssumption

LEMMA CallStep ==
    ASSUME NEW w, Writer = {w}, IInv, UNCHANGED program, Call(w)
    PROVE  IInv'
<1>1. program' \in Seq(ConsoleCall)
  BY DEF IInv, ConsoleTypes
<1>2. ASSUME NEW char \in Visible \cup Control, PutChar(w, char) PROVE IInv'
  <2>1. char \in Character
    BY ConsoleAssumption DEF Character
  <2> QED BY <1>1, <1>2, <2>1, PutCharStep
<1>3. ASSUME NEW num \in Numbers, PutInt(w, num) PROVE IInv'
  BY <1>1, <1>3, ConsoleAssumption, PutIntStart
<1> QED BY <1>2, <1>3 DEF Call

LEMMA GetCursorStep ==
    ASSUME NEW w, Writer = {w}, IInv, UNCHANGED program, GetCursor(w)
    PROVE  IInv'
<1>1. CASE Select(w, "get_high", "high", "read_high")
  BY <1>1, SelectStep
<1>2. CASE ReadHigh(w)
  BY <1>2, ReadHighStep
<1>3. CASE Select(w, "get_low", "low", "read_low")
  BY <1>3, SelectStep
<1>4. CASE ReadLow(w)
  BY <1>4, ReadLowStep
<1> QED BY <1>1, <1>2, <1>3, <1>4 DEF GetCursor

LEMMA SetCursorStep ==
    ASSUME NEW w, Writer = {w}, IInv, UNCHANGED program, SetCursor(w)
    PROVE  IInv'
<1>1. CASE Select(w, "set_high", "high", "write_high")
  BY <1>1, SelectStep
<1>2. CASE WriteRegister(w, "write_high", call[w].bx \div Base,
                         Goto(w, "set_low"))
  BY <1>2, WriteHighStep
<1>3. CASE Select(w, "set_low", "low", "write_low")
  BY <1>3, SelectStep
<1>4. CASE WriteRegister(w, "write_low", call[w].bx % Base, Return(w))
  BY <1>4, WriteLowStep
<1> QED BY <1>1, <1>2, <1>3, <1>4 DEF SetCursor

LEMMA PutIntStepStep ==
    ASSUME NEW w, Writer = {w}, IInv, UNCHANGED program, PutIntStep(w)
    PROVE  IInv'
BY StoreDigitStep, SkipPrefix0Step, FirstDigitStep, NextDigitStep
   DEF PutIntStep

LEMMA StepStep ==
    ASSUME NEW w, Writer = {w}, IInv, UNCHANGED program, Step(w)
    PROVE  IInv'
<1>1. CASE GetCursor(w)
  BY <1>1, GetCursorStep
<1>2. CASE DrawNewLine(w)
  BY <1>2, DrawNewLineIs
<1>3. CASE DrawVisible(w)
  BY <1>3, DrawVisibleIs
<1>4. CASE DrawBackspace(w)
  BY <1>4, DrawBackspaceIs
<1>5. CASE SetCursor(w)
  BY <1>5, SetCursorStep
<1>6. CASE PutIntStep(w)
  BY <1>6, PutIntStepStep
<1> QED BY <1>1, <1>2, <1>3, <1>4, <1>5, <1>6 DEF Step, Draw

-----------------------------------------------------------------------------
(* Giving up *)

LEMMA put_strType ==
    ASSUME NEW string \in Seq(Visible \cup {Blank, LF})
    PROVE  put_str(string) \in Seq(ConsoleCall)
<1>1. Len(string) \in Nat /\ DOMAIN string = 1..Len(string)
  OBVIOUS
<1>2. \A i \in 1..Len(string) :
         [op |-> "put_char", arg |-> string[i]] \in ConsoleCall
  BY DEF ConsoleCall
<1> QED BY <1>1, <1>2, IsASeq DEF put_str

LEMMA SetCursorToType ==
    ASSUME NEW pos \in Targets
    PROVE  SetCursorTo(pos) \in Seq(ConsoleCall)
BY DEF SetCursorTo, ConsoleCall

LEMMA NumberType ==
    ASSUME NEW num \in Numbers
    PROVE  Number(num) \in Seq(ConsoleCall)
BY DEF Number, ConsoleCall

LEMMA HandlerType ==
    ASSUME NEW vector, NEW address \in Numbers
    PROVE  default_intr_handler(vector, address) \in Seq(ConsoleCall)
<1> DEFINE Text == Visible \cup {Blank, LF}
           blanks == [i \in 1 .. Blanked |-> Blank]
           number == IF vector = PageFault
                     THEN put_str(<<LF>>) \o Number(address) ELSE <<>>
<1>1. blanks \in Seq(Text)
  <2>1. Blanked \in Nat
    BY ConsoleAssumption, ExceptionsAssumption DEF Blanked
  <2> QED BY <2>1, IsASeq
<1>2. put_str(blanks) \in Seq(ConsoleCall)
  BY <1>1, put_strType
<1>3. /\ <<Begin, LF>> \in Seq(Text) /\ <<Name>> \in Seq(Text)
      /\ <<LF>> \in Seq(Text) /\ <<LF, End, LF>> \in Seq(Text)
  BY ExceptionsAssumption
<1>4. /\ put_str(<<Begin, LF>>) \in Seq(ConsoleCall)
      /\ put_str(<<Name>>) \in Seq(ConsoleCall)
      /\ put_str(<<LF>>) \in Seq(ConsoleCall)
      /\ put_str(<<LF, End, LF>>) \in Seq(ConsoleCall)
  BY <1>3, put_strType
<1>5. /\ SetCursorTo(0) \in Seq(ConsoleCall)
      /\ SetCursorTo(Cols + Indent) \in Seq(ConsoleCall)
  BY ExceptionsAssumption, SetCursorToType
<1>6. number \in Seq(ConsoleCall)
  BY <1>4, NumberType, ConcatProperties
<1> HIDE DEF blanks, number
<1> DEFINE s1 == put_str(blanks) \o SetCursorTo(0)
           s2 == s1 \o put_str(<<Begin, LF>>)
           s3 == s2 \o SetCursorTo(Cols + Indent)
           s4 == s3 \o put_str(<<Name>>)
           s5 == s4 \o number
           s6 == s5 \o put_str(<<LF, End, LF>>)
<1>7. s1 \in Seq(ConsoleCall)
  BY <1>2, <1>5, ConcatProperties
<1>8. s2 \in Seq(ConsoleCall)
  BY <1>4, <1>7, ConcatProperties
<1>9. s3 \in Seq(ConsoleCall)
  BY <1>5, <1>8, ConcatProperties
<1>10. s4 \in Seq(ConsoleCall)
  BY <1>4, <1>9, ConcatProperties
<1>11. s5 \in Seq(ConsoleCall)
  BY <1>6, <1>10, ConcatProperties
<1>12. s6 \in Seq(ConsoleCall)
  BY <1>4, <1>11, ConcatProperties
<1> QED BY <1>12 DEF default_intr_handler, blanks, number

LEMMA PanicType ==
    ASSUME NEW line \in Numbers
    PROVE  panic_spin(line) \in Seq(ConsoleCall)
<1> DEFINE Text == Visible \cup {Blank, LF}
<1>1. /\ <<LF, LF, LF, Begin, LF, Name, LF>> \in Seq(Text)
      /\ <<LF, Name, LF, End, LF>> \in Seq(Text)
  BY ExceptionsAssumption
<1>2. /\ put_str(<<LF, LF, LF, Begin, LF, Name, LF>>) \in Seq(ConsoleCall)
      /\ put_str(<<LF, Name, LF, End, LF>>) \in Seq(ConsoleCall)
  BY <1>1, put_strType
<1>3. Number(line) \in Seq(ConsoleCall)
  BY NumberType
<1>4. put_str(<<LF, LF, LF, Begin, LF, Name, LF>>) \o Number(line)
         \in Seq(ConsoleCall)
  BY <1>2, <1>3, ConcatProperties
<1> QED BY <1>2, <1>4, ConcatProperties DEF panic_spin

LEMMA NextCallStep ==
    ASSUME NEW w, Writer = {w}, IInv, NextCall(w)
    PROVE  IInv'
<1> DEFINE next == Head(program)
<1>1. program \in Seq(ConsoleCall) /\ program # <<>>
  BY DEF IInv, ConsoleTypes, NextCall
<1>2. next \in ConsoleCall /\ program' \in Seq(ConsoleCall)
  BY <1>1, HeadTailProperties DEF NextCall
<1> HIDE DEF next
<1>3. ASSUME next.op = "put_char", PutChar(w, next.arg) PROVE IInv'
  <2>1. next.arg \in Character
    BY <1>2, <1>3 DEF ConsoleCall, Character
  <2> QED BY <1>2, <1>3, <2>1, PutCharStep
<1>4. ASSUME next.op = "put_int", PutInt(w, next.arg) PROVE IInv'
  <2>1. next.arg \in Numbers
    BY <1>2, <1>4 DEF ConsoleCall
  <2>2. next.arg \in Nat
    BY <2>1, NumbersType
  <2> QED BY <1>2, <1>4, <2>2, PutIntStart
<1>5. ASSUME next.op = "set_cursor", set_cursor(w, next.arg) PROVE IInv'
  <2>1. next.arg \in 0..Cells - 1
    BY <1>2, <1>5, ConsoleAssumption DEF ConsoleCall, Cells
  <2> QED BY <1>2, <1>5, <2>1, SetCursorStart
<1> QED BY <1>3, <1>4, <1>5 DEF NextCall, next

LEMMA PanicStep ==
    ASSUME NEW w, Writer = {w}, IInv, Panic(w)
    PROVE  IInv'
<1>1. program' \in Seq(ConsoleCall)
  BY PanicType DEF Panic
<1>2. /\ Idle \in Frame /\ Idle.pc = "idle"
      /\ call' = [call EXCEPT ![w] = Idle]
  BY IdleFrame DEF Idle, Panic, Forgotten, IInv, ConsoleTypes
<1>3. Cursor < Cells
  BY DEF IInv, FrameInv, Panic, At, Writing
<1>4. FrameInv(Idle)
  BY <1>2, <1>3 DEF FrameInv, Reading, Writing
<1>5. UNCHANGED <<index, reg, text, put_int_buffer, fault>>
  BY DEF Panic
<1> QED BY <1>1, <1>2, <1>4, <1>5, FrameOnly

LEMMA ExceptionStep ==
    ASSUME NEW w, Writer = {w}, IInv, Exception(w)
    PROVE  IInv'
<1> DEFINE d == SetCursorFrame(0)
<1>1. program' \in Seq(ConsoleCall)
  BY HandlerType DEF Exception
<1>2. d \in Frame /\ d.pc = "set_high" /\ d.bx = 0 /\ 0 < Cells
  BY SetCursorFrameIs, Sizes
<1> HIDE DEF d
<1>3. call' = [call EXCEPT ![w] = d]
  BY DEF Exception, Forgotten, IInv, ConsoleTypes, d
<1>4. FrameInv(d)
  BY <1>2 DEF FrameInv, Reading, Writing
<1>5. UNCHANGED <<index, reg, text, put_int_buffer, fault>>
  BY DEF Exception, IInv, ConsoleTypes
<1> QED BY <1>1, <1>2, <1>3, <1>4, <1>5, FrameOnly

-----------------------------------------------------------------------------
(* The invariant *)

LEMMA InitInv == OneWriter /\ XInit => IInv
<1> SUFFICES ASSUME NEW w, Writer = {w}, XInit PROVE IInv
  BY DEF OneWriter
<1>1. PICK pos \in 0..Cells - 1, old \in Visible \cup {Blank} :
         /\ reg = [r \in {"high", "low"} |->
                      IF r = "high" THEN pos \div Base ELSE pos % Base]
         /\ text = [i \in 0..VideoCells - 1 |->
                       IF i < pos /\ i % 2 = 0 THEN old ELSE Blank]
  BY DEF XInit, Init
<1>2. pos \in 0..Word - 1
  BY Sizes
<1>3. /\ pos \div Base \in 0..Base - 1 /\ pos % Base \in 0..Base - 1
      /\ pos = (pos \div Base) * Base + (pos % Base)
  BY <1>2, BytesOf
<1>4. reg \in [{"high", "low"} -> 0..Base - 1] /\ Cursor = pos
  BY <1>1, <1>3 DEF Cursor
<1>5. text \in [0..VideoCells - 1 -> Visible \cup {Blank}]
  BY <1>1
<1>6. call \in [Writer -> Frame] /\ call[w] = Idle /\ Idle.pc = "idle"
  BY IdleFrame DEF XInit, Init, Idle
<1>7. put_int_buffer \in [0..Digits - 1 -> 0..Radix - 1]
  BY ConsoleAssumption DEF XInit, Init
<1>8. ConsoleTypes
  BY <1>4, <1>5, <1>6, <1>7 DEF ConsoleTypes, XInit, Init
<1>9. FrameInv(call[w])
  BY <1>4, <1>6, Sizes DEF FrameInv, Reading, Writing
<1> QED BY <1>8, <1>9 DEF IInv

LEMMA StepInv == OneWriter /\ IInv /\ [XNext]_xvars => IInv'
<1> SUFFICES ASSUME NEW w, Writer = {w}, IInv, [XNext]_xvars PROVE IInv'
  BY DEF OneWriter
<1>1. CASE ThreadStep(w)
  BY <1>1, CallStep, StepStep DEF ThreadStep
<1>2. CASE Panic(w)
  BY <1>2, PanicStep
<1>3. CASE Exception(w)
  BY <1>3, ExceptionStep
<1>4. CASE GiveUp(w)
  BY <1>4, NextCallStep, StepStep DEF GiveUp
<1>5. CASE UNCHANGED xvars
  BY <1>5 DEF xvars, vars, IInv, ConsoleTypes, FrameInv, Cursor
<1> QED BY <1>1, <1>2, <1>3, <1>4, <1>5 DEF XNext

(* Between any two accesses to the ports the registers of the one that      *)
(* prints agree with what the controller holds: put_char has read one       *)
(* position and not two halves of different ones, what it writes back is on *)
(* the screen, and no access to the text memory faults (print.S:81-280),    *)
(* whatever an exception has cut short before (interrupt.c:394).            *)
THEOREM CursorIsOne == OneWriter => (XSpec => []IInv)
<1> SUFFICES ASSUME OneWriter PROVE XSpec => []IInv
  OBVIOUS
<1>1. XInit => IInv
  BY InitInv
<1>2. IInv /\ [XNext]_xvars => IInv'
  BY StepInv
<1> QED BY <1>1, <1>2, PTL DEF XSpec

(* A cursor that put_char has read, and the cursor while nobody prints, is  *)
(* a position on the screen, as the comment of print.S:95 has it.           *)
THEOREM CursorStays == OneWriter => (XSpec => []CursorInRange)
<1> SUFFICES ASSUME OneWriter PROVE XSpec => []CursorInRange
  OBVIOUS
<1>1. IInv => CursorInRange
  BY DEF IInv, FrameInv, CursorInRange, OneWriter, Writing
<1> QED BY <1>1, CursorIsOne, PTL
-----------------------------------------------------------------------------
(* The screen that the text memory shows *)

LEMMA CellAt ==
    ASSUME NEW r \in 0..Rows - 1, NEW c \in 0..Cols - 1
    PROVE  /\ r * Cols + c \in 0..Cells - 1
           /\ r * Cols + c \in 0..VideoCells - 1
           /\ (r * Cols + c) \div Cols = r /\ (r * Cols + c) % Cols = c
           /\ r < Rows - 1 => /\ r * Cols + c < Cells - Cols
                              /\ (r * Cols + c) + Cols = (r + 1) * Cols + c
           /\ r = Rows - 1 => r * Cols + c >= Cells - Cols
<1>0. /\ Cols \in Nat \ {0} /\ Rows \in Nat /\ r \in Nat /\ Rows - 1 \in Nat
      /\ r + 1 \in Nat
  BY Sizes
<1>1. r * Cols + c \in 0..Cells - 1
  BY ONLY <1>0, JoinParts, r \in 0..Rows - 1, c \in 0..Cols - 1 DEF Cells
<1>2. (r * Cols + c) \div Cols = r /\ (r * Cols + c) % Cols = c
  BY ONLY <1>0, Quotient, c \in 0..Cols - 1
<1>3. (r + 1) * Cols = r * Cols + Cols /\ r * Cols \in Nat
  BY ONLY <1>0, Z3T(30)
<1>4. (Rows - 1) * Cols = Cells - Cols
  BY ONLY <1>0, Z3T(30) DEF Cells
<1>5. r + 1 <= Rows - 1 => (r + 1) * Cols <= (Rows - 1) * Cols
  BY ONLY <1>0, Products
<1>6. r < Rows - 1 => r * Cols + c < Cells - Cols
  BY <1>0, <1>3, <1>4, <1>5, Sizes
<1>7. r = Rows - 1 => r * Cols + c >= Cells - Cols
  BY <1>0, <1>3, <1>4, Sizes
<1>8. (r * Cols + c) + Cols = (r + 1) * Cols + c
  BY <1>0, <1>3
<1> QED BY <1>1, <1>2, <1>6, <1>7, <1>8, Sizes

\* The line and the place of a position, the next line and the previous place
LEMMA PlaceOf ==
    ASSUME NEW pos \in 0..Cells - 1
    PROVE  LET q == pos \div Cols
               m == pos % Cols
           IN  /\ q \in 0..Rows - 1 /\ m \in 0..Cols - 1 /\ pos = q * Cols + m
               /\ m = Cols - 1 => pos + 1 = q * Cols + Cols
               /\ m < Cols - 1 => /\ pos + 1 < Cells
                                  /\ (pos + 1) \div Cols = q
                                  /\ (pos + 1) % Cols = m + 1
               /\ m > 0 => /\ (pos - 1) \div Cols = q
                           /\ (pos - 1) % Cols = m - 1
               /\ m = 0 /\ pos > 0 => /\ q > 0
                                      /\ (pos - 1) \div Cols = q - 1
                                      /\ (pos - 1) % Cols = Cols - 1
<1> DEFINE q == pos \div Cols
           m == pos % Cols
<1>0. /\ Cols \in Nat \ {0} /\ Rows \in Nat /\ pos \in Nat
      /\ pos \in 0 .. Rows * Cols - 1
  BY Sizes DEF Cells
<1>1. q \in 0..Rows - 1 /\ m \in 0..Cols - 1
  BY ONLY <1>0, CellParts
<1>2. pos = q * Cols + m
  BY ONLY <1>0, Parts
<1> HIDE DEF q, m
<1>3. q \in Nat /\ q * Cols \in Nat
  BY ONLY <1>0, <1>1
<1>4. m = Cols - 1 => pos + 1 = q * Cols + Cols
  BY <1>0, <1>2, <1>3
<1>5. m < Cols - 1 => /\ pos + 1 < Cells
                      /\ (pos + 1) \div Cols = q /\ (pos + 1) % Cols = m + 1
  <2> SUFFICES ASSUME m < Cols - 1
               PROVE  /\ pos + 1 < Cells
                      /\ (pos + 1) \div Cols = q /\ (pos + 1) % Cols = m + 1
    OBVIOUS
  <2>1. m + 1 \in 0..Cols - 1 /\ pos + 1 = q * Cols + (m + 1)
    BY <1>0, <1>1, <1>2, <1>3
  <2>2. /\ q * Cols + (m + 1) \in 0..Cells - 1
        /\ (q * Cols + (m + 1)) \div Cols = q
        /\ (q * Cols + (m + 1)) % Cols = m + 1
    BY ONLY <2>1, <1>1, CellAt
  <2> QED BY <2>1, <2>2, Sizes
<1>6. m > 0 => (pos - 1) \div Cols = q /\ (pos - 1) % Cols = m - 1
  <2> SUFFICES ASSUME m > 0
               PROVE  (pos - 1) \div Cols = q /\ (pos - 1) % Cols = m - 1
    OBVIOUS
  <2>1. m - 1 \in 0..Cols - 1 /\ pos - 1 = q * Cols + (m - 1)
    BY <1>0, <1>1, <1>2, <1>3
  <2>2. /\ (q * Cols + (m - 1)) \div Cols = q
        /\ (q * Cols + (m - 1)) % Cols = m - 1
    BY ONLY <2>1, <1>1, CellAt
  <2> QED BY <2>1, <2>2
<1>7. m = 0 /\ pos > 0 => /\ q > 0 /\ (pos - 1) \div Cols = q - 1
                          /\ (pos - 1) % Cols = Cols - 1
  <2> SUFFICES ASSUME m = 0, pos > 0
               PROVE  /\ q > 0 /\ (pos - 1) \div Cols = q - 1
                      /\ (pos - 1) % Cols = Cols - 1
    OBVIOUS
  <2>1. q > 0
    <3>1. q # 0
      BY <1>0, <1>2
    <3> QED BY <1>3, <3>1
  <2>2. q - 1 \in 0..Rows - 1 /\ Cols - 1 \in 0..Cols - 1 /\ q - 1 \in Nat
    BY <1>0, <1>1, <2>1
  <2>3. (q - 1) * Cols = q * Cols - Cols
    BY ONLY <1>0, <1>3, Z3T(30)
  <2>4. /\ ((q - 1) * Cols + (Cols - 1)) \div Cols = q - 1
        /\ ((q - 1) * Cols + (Cols - 1)) % Cols = Cols - 1
    BY ONLY <2>2, CellAt
  <2>5. pos - 1 = (q - 1) * Cols + (Cols - 1)
    BY <1>0, <1>2, <1>3, <2>3
  <2> QED BY <2>1, <2>4, <2>5
<1> QED BY <1>1, <1>2, <1>4, <1>5, <1>6, <1>7 DEF q, m
LEMMA ViewIs ==
    ASSUME NEW t, NEW r \in 0..Rows - 1, NEW c \in 0..Cols - 1
    PROVE  View(t)[r][c] = t[r * Cols + c]
BY DEF View

LEMMA ViewType == \A t \in Picture : View(t) \in S!Screenful
<1> SUFFICES ASSUME NEW t \in Picture PROVE View(t) \in S!Screenful
  OBVIOUS
<1>1. \A r \in 0..Rows - 1, c \in 0..Cols - 1 :
         t[r * Cols + c] \in Visible \cup {Blank}
  BY CellAt DEF Picture
<1> QED BY <1>1 DEF View, S!Screenful

\* Writing a cell changes one character of the view.
LEMMA ViewOfWrite ==
    ASSUME NEW t \in Picture, NEW pos \in 0..Cells - 1, NEW ch
    PROVE  View([t EXCEPT ![pos] = ch])
              = [View(t) EXCEPT ![pos \div Cols][pos % Cols] = ch]
<1> DEFINE q == pos \div Cols
           m == pos % Cols
           u == [t EXCEPT ![pos] = ch]
<1>1. q \in 0..Rows - 1 /\ m \in 0..Cols - 1 /\ pos = q * Cols + m
  BY PlaceOf
<1>2. pos \in DOMAIN t
  BY Sizes DEF Picture
<1>3. ASSUME NEW r \in 0..Rows - 1, NEW c \in 0..Cols - 1
      PROVE  View(u)[r][c] = IF r = q /\ c = m THEN ch ELSE View(t)[r][c]
  <2>1. View(u)[r][c] = u[r * Cols + c] /\ View(t)[r][c] = t[r * Cols + c]
    BY ViewIs
  <2>2. /\ r * Cols + c \in 0..VideoCells - 1
        /\ (r * Cols + c) \div Cols = r /\ (r * Cols + c) % Cols = c
    BY CellAt
  <2>3. (r * Cols + c = pos) <=> (r = q /\ c = m)
    BY <1>1, <2>2
  <2>4. u[r * Cols + c] = IF r * Cols + c = pos THEN ch ELSE t[r * Cols + c]
    BY <1>2, <2>2 DEF Picture
  <2> QED BY <2>1, <2>3, <2>4
<1>4. /\ View(u) = [r \in 0..Rows - 1 |-> [c \in 0..Cols - 1 |-> View(u)[r][c]]]
      /\ View(t) = [r \in 0..Rows - 1 |-> [c \in 0..Cols - 1 |-> View(t)[r][c]]]
  BY DEF View
<1> HIDE DEF u, q, m
<1>5. [View(t) EXCEPT ![q][m] = ch]
         = [r \in 0..Rows - 1 |-> [c \in 0..Cols - 1 |->
               IF r = q /\ c = m THEN ch ELSE View(t)[r][c]]]
  BY <1>1, <1>4
<1>6. View(u) = [r \in 0..Rows - 1 |-> [c \in 0..Cols - 1 |->
               IF r = q /\ c = m THEN ch ELSE View(t)[r][c]]]
  BY <1>3, <1>4
<1> QED BY <1>5, <1>6 DEF u, q, m

LEMMA ViewOfRoll ==
    ASSUME NEW t \in Picture
    PROVE  View(Roll(t)) = [r \in 0..Rows - 1 |->
                               IF r < Rows - 1 THEN View(t)[r + 1]
                               ELSE [c \in 0..Cols - 1 |-> Blank]]
<1>1. DOMAIN t = 0..VideoCells - 1
  BY DEF Picture
<1>2. ASSUME NEW r \in 0..Rows - 1, r < Rows - 1
      PROVE  [c \in 0..Cols - 1 |-> Roll(t)[r * Cols + c]] = View(t)[r + 1]
  <2>1. r + 1 \in 0..Rows - 1
    BY <1>2, Sizes
  <2>2. ASSUME NEW c \in 0..Cols - 1
        PROVE  Roll(t)[r * Cols + c] = t[(r + 1) * Cols + c]
    <3>1. /\ r * Cols + c \in 0..VideoCells - 1
          /\ r * Cols + c < Cells - Cols
          /\ (r * Cols + c) + Cols = (r + 1) * Cols + c
      BY <1>2, CellAt
    <3> QED BY <1>1, <3>1 DEF Roll
  <2> QED BY <2>1, <2>2 DEF View
<1>3. ASSUME NEW r \in 0..Rows - 1, ~(r < Rows - 1)
      PROVE  [c \in 0..Cols - 1 |-> Roll(t)[r * Cols + c]]
                = [c \in 0..Cols - 1 |-> Blank]
  <2>1. r = Rows - 1
    BY <1>3, Sizes
  <2>2. ASSUME NEW c \in 0..Cols - 1 PROVE Roll(t)[r * Cols + c] = Blank
    <3>1. /\ r * Cols + c \in 0..VideoCells - 1 /\ r * Cols + c \in 0..Cells - 1
          /\ r * Cols + c >= Cells - Cols
      BY <2>1, CellAt
    <3>2. ~(r * Cols + c < Cells - Cols) /\ r * Cols + c < Cells
      BY <3>1, Sizes
    <3> QED BY <1>1, <3>1, <3>2 DEF Roll
  <2> QED BY <2>2
<1> QED BY <1>2, <1>3 DEF View

-----------------------------------------------------------------------------
(* Steps of the screen *)

LEMMA PositionIs ==
    ASSUME NEW w, Writer = {w}
    PROVE  Position = IF call[w].pc \in Writing THEN call[w].bx ELSE Cursor
BY DEF Position, Drawn, Writing

LEMMA PositionType ==
    ASSUME NEW w, Writer = {w}, IInv
    PROVE  Position \in 0..Cells - 1
<1>1. call[w] \in Frame /\ FrameInv(call[w]) /\ Cursor \in 0..Word - 1
  BY MyFrame, CursorType DEF IInv, ConsoleTypes
<1>2. call[w].bx \in 0..Word - 1
  BY <1>1, FrameFields
<1> QED BY <1>1, <1>2, PositionIs, Sizes DEF FrameInv

LEMMA ScreenStutters ==
    ASSUME UNCHANGED text, Position' = Position
    PROVE  UNCHANGED S!svars
BY DEF S!svars

LEMMA ScreenMoves ==
    ASSUME UNCHANGED text, Position' \in Targets
    PROVE  S!SNext
BY DEF S!SNext, S!Move

\* On to the next line of the picture p, at the last one by rolling
NextLineShown(p, pos) ==
    /\ Position' % Cols = 0
    /\ IF pos \div Cols < Rows - 1
       THEN Position' \div Cols = (pos \div Cols) + 1 /\ View(text') = p
       ELSE /\ Position' \div Cols = pos \div Cols
            /\ View(text') = [r \in 0..Rows - 1 |->
                                 IF r < Rows - 1 THEN p[r + 1]
                                 ELSE [c \in 0..Cols - 1 |-> Blank]]

LEMMA ScreenNextLine ==
    ASSUME NEW pos \in 0..Cells - 1, Position = pos, NEW t \in Picture,
           NEW b, b = (pos \div Cols) * Cols + Cols,
           text' = IF b < Cells THEN t ELSE Roll(t),
           Position' = IF b < Cells THEN b ELSE Cells - Cols
    PROVE  NextLineShown(View(t), pos)
<1> DEFINE q == pos \div Cols
<1>0. /\ Cols \in Nat \ {0} /\ Rows \in Nat /\ Rows - 1 \in Nat
      /\ Rows - 1 \in 0..Rows - 1 /\ 0 \in 0..Cols - 1
  BY Sizes
<1>1. q \in 0..Rows - 1 /\ q \in Nat
  <2>1. q \in 0..Rows - 1
    BY PlaceOf
  <2> HIDE DEF q
  <2> QED BY <2>1, Sizes
<1>2. /\ text' = IF b < Cells THEN t ELSE Roll(t)
      /\ Position' = IF b < Cells THEN b ELSE Cells - Cols
      /\ b = q * Cols + Cols
  OBVIOUS
<1>3. /\ q * Cols + 0 \in 0..Cells - 1 /\ q * Cols \in Nat
      /\ q < Rows - 1 => /\ q * Cols + 0 < Cells - Cols
                         /\ (q * Cols + 0) + Cols = (q + 1) * Cols + 0
      /\ q = Rows - 1 => q * Cols + 0 >= Cells - Cols
  <2> HIDE DEF q
  <2>1. q * Cols \in Nat
    BY <1>0, <1>1
  <2> QED BY ONLY <2>1, <1>0, <1>1, CellAt
<1> HIDE DEF q
<1>4. q < Rows - 1 <=> b < Cells
  BY <1>0, <1>1, <1>2, <1>3, Sizes
<1>5. CASE q < Rows - 1
  <2>1. Position' = (q + 1) * Cols + 0 /\ text' = t
    BY <1>0, <1>2, <1>3, <1>4, <1>5
  <2>2. q + 1 \in 0..Rows - 1
    BY <1>0, <1>1, <1>5
  <2>3. ((q + 1) * Cols + 0) \div Cols = q + 1
        /\ ((q + 1) * Cols + 0) % Cols = 0
    BY ONLY <2>2, <1>0, CellAt
  <2>4. Position' \div Cols = q + 1 /\ Position' % Cols = 0
    BY <2>1, <2>3
  <2> QED BY <1>5, <2>1, <2>4 DEF NextLineShown, q
<1>6. CASE q = Rows - 1
  <2>1. Position' = Cells - Cols /\ text' = Roll(t)
    BY <1>2, <1>4, <1>6, <1>0
  <2>2. (Rows - 1) * Cols + 0 = Cells - Cols
    BY ONLY <1>0, Z3T(30) DEF Cells
  <2>3. ((Rows - 1) * Cols + 0) \div Cols = Rows - 1
        /\ ((Rows - 1) * Cols + 0) % Cols = 0
    BY ONLY <1>0, CellAt
  <2>4. Position' \div Cols = Rows - 1 /\ Position' % Cols = 0
    BY <2>1, <2>2, <2>3
  <2>5. View(text') = [r \in 0..Rows - 1 |->
                          IF r < Rows - 1 THEN View(t)[r + 1]
                          ELSE [c \in 0..Cols - 1 |-> Blank]]
    BY <2>1, ViewOfRoll
  <2>7. ~(q < Rows - 1)
    BY <1>6, <1>0
  <2> QED BY <1>6, <2>4, <2>5, <2>7 DEF NextLineShown, q
<1> QED BY <1>0, <1>1, <1>5, <1>6

\* An access to a port is no step of the screen: what put_char holds in BX is
\* in the registers when it has written both of them.
LEMMA PortsStutter ==
    ASSUME NEW w, Writer = {w}, IInv, UNCHANGED program,
           GetCursor(w) \/ SetCursor(w)
    PROVE  UNCHANGED text /\ Position' = Position
<1>1. call[w] \in Frame /\ w \in DOMAIN call
  BY MyFrame DEF IInv, ConsoleTypes
<1>2. UNCHANGED text
  BY DEF GetCursor, SetCursor, Select, ReadHigh, ReadLow, WriteRegister
<1>3. Position' = IF call'[w].pc \in Writing THEN call'[w].bx ELSE Cursor'
  BY PositionIs DEF Position, Drawn, Writing
<1>4. CASE GetCursor(w)
  <2>1. /\ call[w].pc \notin Writing /\ call'[w].pc \notin Writing
        /\ Cursor' = Cursor
    BY <1>1, <1>4
       DEF GetCursor, Select, ReadHigh, ReadLow, At, Goto, Writing, Cursor,
           Frame
  <2> QED BY <1>2, <1>3, <2>1, PositionIs
<1>5. CASE /\ call[w].pc \in Writing /\ call'[w].pc \in Writing
           /\ call'[w].bx = call[w].bx
  BY <1>2, <1>3, <1>5, PositionIs
<1>6. CASE \/ Select(w, "set_high", "high", "write_high")
           \/ WriteRegister(w, "write_high", call[w].bx \div Base,
                            Goto(w, "set_low"))
           \/ Select(w, "set_low", "low", "write_low")
  <2>1. /\ call[w].pc \in Writing /\ call'[w].pc \in Writing
        /\ call'[w].bx = call[w].bx
    BY <1>1, <1>6 DEF Select, WriteRegister, At, Goto, Writing, Frame
  <2> QED BY <1>5, <2>1
<1>7. CASE WriteRegister(w, "write_low", call[w].bx % Base, Return(w))
  <2>1. /\ Cursor' = call[w].bx /\ call[w].pc = "write_low"
        /\ call'[w].pc \in {"idle", "next"}
    BY <1>7, WriteLowStep
  <2>2. call[w].pc \in Writing /\ call'[w].pc \notin Writing
    BY <2>1 DEF Writing
  <2> QED BY <1>2, <1>3, <2>1, <2>2, PositionIs
<1> QED BY <1>4, <1>6, <1>7 DEF SetCursor

\* Nor are the digits of put_int.
LEMMA DigitsStutter ==
    ASSUME NEW w, Writer = {w}, IInv, UNCHANGED program, PutIntStep(w)
    PROVE  UNCHANGED text /\ Position' = Position
<1>1. call[w] \in Frame /\ w \in DOMAIN call
  BY MyFrame DEF IInv, ConsoleTypes
<1>2. UNCHANGED <<reg, text>> /\ call[w].pc \notin Writing
  BY DEF PutIntStep, StoreDigit, SkipPrefix0, FirstDigit, NextDigit, At, Writing
<1>3. call'[w].pc \notin Writing
  <2>1. CASE StoreDigit(w)
    BY <1>1, <2>1 DEF StoreDigit, Writing, Frame
  <2>2. CASE SkipPrefix0(w)
    BY <1>1, <2>2 DEF SkipPrefix0, At, Writing, Frame
  <2>3. CASE FirstDigit(w)
    BY <1>1, <2>3 DEF FirstDigit, EnterPutChar, Writing, Frame
  <2>4. CASE NextDigit(w)
    <3>1. CASE call[w].edi + 1 < Digits
      BY <1>1, <2>4, <3>1 DEF NextDigit, EnterPutChar, Writing, Frame
    <3>2. CASE ~(call[w].edi + 1 < Digits)
      BY <1>1, <2>4, <3>2 DEF NextDigit, Writing, Idle
    <3> QED BY <3>1, <3>2
  <2> QED BY <2>1, <2>2, <2>3, <2>4 DEF PutIntStep
<1>4. Position' = IF call'[w].pc \in Writing THEN call'[w].bx ELSE Cursor'
  BY PositionIs DEF Position, Drawn, Writing
<1>5. Cursor' = Cursor
  BY <1>2 DEF Cursor
<1> QED BY <1>2, <1>3, <1>4, <1>5, PositionIs

\* put_char and put_int begin between two characters.
LEMMA EntryStutters ==
    ASSUME NEW w, Writer = {w}, IInv,
           \/ \E char : PutChar(w, char)
           \/ \E num : PutInt(w, num)
    PROVE  UNCHANGED text /\ Position' = Position
<1>1. w \in DOMAIN call
  BY DEF IInv, ConsoleTypes
<1>2. /\ UNCHANGED <<reg, text>> /\ call[w].pc \notin Writing
      /\ call'[w].pc \notin Writing
  BY ZenonT(30), <1>1 DEF PutChar, PutInt, EnterPutChar, At, Writing, Idle
<1>3. Position' = IF call'[w].pc \in Writing THEN call'[w].bx ELSE Cursor'
  BY PositionIs DEF Position, Drawn, Writing
<1>4. Cursor' = Cursor
  BY <1>2 DEF Cursor
<1> QED BY <1>2, <1>3, <1>4, PositionIs

LEMMA SetCursorMoves ==
    ASSUME NEW w, Writer = {w}, IInv, NEW pos \in Targets, set_cursor(w, pos)
    PROVE  UNCHANGED text /\ Position' = pos
<1>1. pos \in 0..Cells - 1
  BY ConsoleAssumption DEF Cells
<1>2. /\ UNCHANGED text
      /\ call'[w].pc = "set_high" /\ call'[w].bx = pos
  BY <1>1, SetCursorFrameIs DEF set_cursor, IInv, ConsoleTypes
<1>3. Position' = IF call'[w].pc \in Writing THEN call'[w].bx ELSE Cursor'
  BY PositionIs DEF Position, Drawn, Writing
<1>4. Position' = pos
  BY <1>2, <1>3 DEF Writing
<1> QED BY <1>2, <1>4

\* From a drawing to the end of it the position goes from the cursor to BX.
LEMMA DrawnPosition ==
    ASSUME NEW w, Writer = {w}, call[w].pc = "draw", call'[w].pc = "set_high"
    PROVE  Position = Cursor /\ Position' = call'[w].bx
<1>1. Position' = IF call'[w].pc \in Writing THEN call'[w].bx ELSE Cursor'
  BY PositionIs DEF Position, Drawn, Writing
<1> QED BY <1>1, PositionIs DEF Writing

LEMMA DrawNewLineTypes ==
    ASSUME NEW w, Writer = {w}, IInv, UNCHANGED program, DrawNewLine(w)
    PROVE  S!NewLine
<1> DEFINE pos == Cursor
           q == pos \div Cols
           m == pos % Cols
<1>1. text \in Picture
  BY DEF IInv, ConsoleTypes, Picture
<1>2. ASSUME call[w].pc = "draw", call'[w].pc = "set_high"
      PROVE  Position = pos /\ Position' = call'[w].bx
  BY <1>2, DrawnPosition
<1> HIDE DEF pos
<1> DEFINE b == q * Cols + Cols
<1>3. /\ pos \in 0..Cells - 1
      /\ call[w].pc = "draw" /\ call'[w].pc = "set_high"
      /\ text' = IF b < Cells THEN text ELSE Roll(text)
      /\ call'[w].bx = IF b < Cells THEN b ELSE Cells - Cols
  BY DrawNewLineIs DEF pos
<1>4. /\ Position = pos
      /\ Position' = IF b < Cells THEN b ELSE Cells - Cols
  BY <1>2, <1>3
<1>5. b = (pos \div Cols) * Cols + Cols
  OBVIOUS
<1> HIDE DEF b
<1>6. NextLineShown(View(text), pos)
  BY <1>1, <1>3, <1>4, <1>5, ScreenNextLine
<1> QED BY <1>4, <1>6 DEF NextLineShown, S!NewLine, S!NextLine, View

LEMMA DrawVisibleTypes ==
    ASSUME NEW w, Writer = {w}, IInv, UNCHANGED program, DrawVisible(w)
    PROVE  /\ S!Type(call[w].cl)
           /\ call[w].cl \in Visible \cup {Blank}
<1> DEFINE pos == Cursor
           q == pos \div Cols
           m == pos % Cols
<1>1. text \in Picture
  BY DEF IInv, ConsoleTypes, Picture
<1>2. ASSUME call[w].pc = "draw", call'[w].pc = "set_high"
      PROVE  Position = pos /\ Position' = call'[w].bx
  BY <1>2, DrawnPosition
<1> HIDE DEF pos
<1> DEFINE ch == call[w].cl
           t == [text EXCEPT ![pos] = ch]
           b == q * Cols + Cols
<1>3. /\ pos \in 0..Cells - 1 /\ ch \in Visible \cup {Blank}
      /\ call[w].pc = "draw" /\ call'[w].pc = "set_high"
      /\ text' = IF pos + 1 < Cells THEN t ELSE Roll(t)
      /\ call'[w].bx = IF pos + 1 < Cells THEN pos + 1 ELSE Cells - Cols
  BY DrawVisibleIs DEF pos
<1>4. Position = pos /\ Position' = call'[w].bx
  BY <1>2, <1>3
<1>5. t \in Picture
  BY <1>1, <1>3 DEF Picture
<1>6. View(t) = [View(text) EXCEPT ![q][m] = ch]
  BY <1>1, <1>3, ViewOfWrite
<1>7. /\ q \in 0..Rows - 1 /\ m \in 0..Cols - 1
      /\ m = Cols - 1 => pos + 1 = b
      /\ m < Cols - 1 => /\ pos + 1 < Cells
                         /\ (pos + 1) \div Cols = q
                         /\ (pos + 1) % Cols = m + 1
  BY <1>3, PlaceOf
<1>11. b = (pos \div Cols) * Cols + Cols
  OBVIOUS
<1>12. View(text) = [r \in 0..Rows - 1 |-> [c \in 0..Cols - 1 |->
                        text[r * Cols + c]]]
  BY DEF View
<1> SUFFICES S!Type(ch)
  BY <1>3
<1> HIDE DEF t, b, ch
<1>8. CASE m < Cols - 1
  <2>1. text' = t /\ Position' = pos + 1
    BY <1>3, <1>4, <1>7, <1>8
  <2>2. Position' \div Cols = q /\ Position' % Cols = m + 1
    BY <1>7, <1>8, <2>1
  <2>3. View(text') = [View(text) EXCEPT ![q][m] = ch]
    BY <1>6, <2>1
  <2> QED BY <1>3, <1>4, <1>8, <2>2, <2>3 DEF S!Type, View
<1>9. CASE m = Cols - 1
  <2>1. /\ text' = IF b < Cells THEN t ELSE Roll(t)
        /\ Position' = IF b < Cells THEN b ELSE Cells - Cols
    BY <1>3, <1>4, <1>7, <1>9
  <2>2. NextLineShown(View(t), pos)
    BY <1>3, <1>4, <1>5, <1>11, <2>1, ScreenNextLine
  <2>3. ~(m < Cols - 1)
    BY <1>9, Sizes
  <2> DEFINE picture == [[r \in 0..Rows - 1 |-> [c \in 0..Cols - 1 |->
                            text[r * Cols + c]]]
                         EXCEPT ![Position \div Cols][Position % Cols] = ch]
  <2>4. View(t) = picture
    BY <1>4, <1>6, <1>12
  <2> HIDE DEF picture
  <2>5. NextLineShown(picture, pos)
    BY <2>2, <2>4 DEF NextLineShown
  <2> QED BY <1>3, <1>4, <2>3, <2>5
          DEF S!Type, S!NextLine, NextLineShown, View, picture
<1>10. m < Cols - 1 \/ m = Cols - 1
  <2> HIDE DEF m
  <2> QED BY <1>7, Sizes
<1> QED BY <1>8, <1>9, <1>10

LEMMA DrawBackspaceTypes ==
    ASSUME NEW w, Writer = {w}, IInv, UNCHANGED program, DrawBackspace(w)
    PROVE  S!Erase
<1> DEFINE pos == Cursor
           q == pos \div Cols
           m == pos % Cols
<1>1. text \in Picture
  BY DEF IInv, ConsoleTypes, Picture
<1>2. ASSUME call[w].pc = "draw", call'[w].pc = "set_high"
      PROVE  Position = pos /\ Position' = call'[w].bx
  BY <1>2, DrawnPosition
<1> HIDE DEF pos
<1>3. /\ pos \in 1..Cells - 1 /\ call'[w].bx = pos - 1
      /\ call[w].pc = "draw" /\ call'[w].pc = "set_high"
      /\ text' = [text EXCEPT ![pos - 1] = Blank]
  BY DrawBackspaceIs DEF pos
<1>4. Position = pos /\ Position' = pos - 1
  BY <1>2, <1>3
<1>5. pos - 1 \in 0..Cells - 1 /\ pos \in 0..Cells - 1 /\ pos > 0
  BY <1>3, Sizes
<1>6. View(text') = [View(text) EXCEPT
                        ![(pos - 1) \div Cols][(pos - 1) % Cols] = Blank]
  <2> DEFINE p == pos - 1
  <2>1. p \in 0..Cells - 1 /\ text' = [text EXCEPT ![p] = Blank]
    BY <1>3, <1>5
  <2> HIDE DEF p
  <2>2. \A u \in Picture, x \in 0..Cells - 1 :
           View([u EXCEPT ![x] = Blank])
              = [View(u) EXCEPT ![x \div Cols][x % Cols] = Blank]
    BY ViewOfWrite
  <2>3. View([text EXCEPT ![p] = Blank])
           = [View(text) EXCEPT ![p \div Cols][p % Cols] = Blank]
    BY <1>1, <2>1, <2>2
  <2> QED BY <2>1, <2>3 DEF p
<1>7. /\ q \in 0..Rows - 1 /\ m \in 0..Cols - 1
      /\ m > 0 => /\ (pos - 1) \div Cols = q
                  /\ (pos - 1) % Cols = m - 1
      /\ m = 0 => /\ q > 0
                  /\ (pos - 1) \div Cols = q - 1
                  /\ (pos - 1) % Cols = Cols - 1
  BY <1>5, PlaceOf
<1>8. m > 0 \/ m = 0
  <2> HIDE DEF m
  <2> QED BY <1>7, Sizes
<1>9. CASE m > 0
  BY <1>4, <1>6, <1>7, <1>9 DEF S!Erase, View
<1>10. CASE m = 0
  <2>1. ~(m > 0)
    BY <1>10
  <2> QED BY <1>4, <1>6, <1>7, <1>10, <2>1 DEF S!Erase, View
<1> QED BY <1>8, <1>9, <1>10

LEMMA DrawTypes ==
    ASSUME NEW w, Writer = {w}, IInv, UNCHANGED program, Draw(w)
    PROVE  S!SNext
<1>1. CASE DrawNewLine(w)
  BY <1>1, DrawNewLineTypes DEF S!SNext
<1>2. CASE DrawVisible(w)
  <2>1. call[w].cl \in Visible \cup {Blank} /\ S!Type(call[w].cl)
    BY <1>2, DrawVisibleTypes
  <2>2. \E ch \in Visible \cup {Blank} : S!Type(ch)
    BY <2>1 DEF S!Type, S!NextLine
  <2> QED BY <2>2 DEF S!SNext
<1>3. CASE DrawBackspace(w)
  BY <1>3, DrawBackspaceTypes DEF S!SNext
<1> QED BY <1>1, <1>2, <1>3 DEF Draw

-----------------------------------------------------------------------------
(* Refinement *)

LEMMA StepShown ==
    ASSUME NEW w, Writer = {w}, IInv, UNCHANGED program, Step(w)
    PROVE  [S!SNext]_S!svars
<1>1. CASE GetCursor(w) \/ SetCursor(w)
  BY <1>1, PortsStutter, ScreenStutters
<1>2. CASE Draw(w)
  BY <1>2, DrawTypes
<1>3. CASE PutIntStep(w)
  BY <1>3, DigitsStutter, ScreenStutters
<1> QED BY <1>1, <1>2, <1>3 DEF Step

LEMMA NextCallShown ==
    ASSUME NEW w, Writer = {w}, IInv, NextCall(w)
    PROVE  [S!SNext]_S!svars
<1> DEFINE next == Head(program)
<1>1. next \in ConsoleCall
  BY HeadTailProperties DEF IInv, ConsoleTypes, NextCall
<1> HIDE DEF next
<1>2. ASSUME next.op = "set_cursor", set_cursor(w, next.arg) PROVE S!SNext
  <2>1. next.arg \in Targets
    BY <1>1, <1>2 DEF ConsoleCall
  <2> QED BY <1>2, <2>1, SetCursorMoves, ScreenMoves
<1> QED BY <1>2, EntryStutters, ScreenStutters DEF NextCall, next

\* Who gives up leaves the text as it is.
LEMMA GiveUpMoves ==
    ASSUME NEW w, Writer = {w}, IInv
    PROVE  /\ Panic(w) => UNCHANGED text /\ Position' = Position
           /\ Exception(w) => UNCHANGED text /\ Position' = 0
<1>1. Position' = IF call'[w].pc \in Writing THEN call'[w].bx ELSE Cursor'
  BY PositionIs DEF Position, Drawn, Writing
<1>2. CASE Panic(w)
  <2>1. /\ UNCHANGED text /\ Cursor' = Cursor
        /\ call[w].pc \notin Writing /\ call'[w].pc \notin Writing
    BY <1>2 DEF Panic, At, Forgotten, Idle, Writing, Cursor
  <2>2. ~Exception(w)
    BY <1>2 DEF Panic, Exception, Forgotten, SetCursorFrame, Idle
  <2> QED BY <1>1, <2>1, <2>2, PositionIs
<1>3. CASE Exception(w)
  <2>1. call' = [Forgotten EXCEPT ![w] = SetCursorFrame(0)] /\ UNCHANGED text
    BY <1>3 DEF Exception
  <2>2. call'[w].pc = "set_high" /\ call'[w].bx = 0
    BY <2>1 DEF Forgotten, SetCursorFrame, Idle
  <2>3. ~Panic(w)
    BY <2>2 DEF Panic, Forgotten, Idle
  <2> QED BY <1>1, <2>1, <2>2, <2>3 DEF Writing
<1> QED BY <1>2, <1>3

LEMMA GiveUpShown ==
    ASSUME NEW w, Writer = {w}, IInv, Panic(w) \/ Exception(w)
    PROVE  [S!SNext]_S!svars
<1>1. 0 \in Targets
  BY ExceptionsAssumption
<1> QED BY <1>1, GiveUpMoves, ScreenStutters, ScreenMoves

(* Whatever one writer prints, and whatever the kernel prints when it gives *)
(* up in the middle of it, is printed on a screen of lines that wrap at the *)
(* right, roll at the bottom, and lose one character to a backspace         *)
(* (print.S:81-280), for screens of every size.                             *)
THEOREM ScreenRefinement == OneWriter => (XSpec => ImplementsScreen)
<1> SUFFICES ASSUME OneWriter PROVE XSpec => ImplementsScreen
  OBVIOUS
<1>1. XInit => S!SInit
  <2> SUFFICES ASSUME XInit PROVE S!SInit
    OBVIOUS
  <2>1. PICK w : Writer = {w}
    BY DEF OneWriter
  <2>2. IInv
    BY InitInv
  <2>3. Position \in 0..Cells - 1 /\ text \in Picture
    BY <2>1, <2>2, PositionType DEF IInv, ConsoleTypes, Picture
  <2>4. Position \div Cols \in 0..Rows - 1 /\ Position % Cols \in 0..Cols - 1
    BY <2>3, PlaceOf
  <2>5. View(text) \in S!Screenful
    BY <2>3, ViewType
  <2> QED BY <2>4, <2>5 DEF S!SInit, View
<1>2. IInv /\ [XNext]_xvars => [S!SNext]_S!svars
  <2> SUFFICES ASSUME IInv, [XNext]_xvars PROVE [S!SNext]_S!svars
    OBVIOUS
  <2>1. PICK w : Writer = {w}
    BY DEF OneWriter
  <2>2. CASE ThreadStep(w)
    <3>1. CASE Call(w)
      BY <2>1, <3>1, EntryStutters, ScreenStutters DEF Call
    <3>2. CASE Step(w)
      BY <2>1, <2>2, <3>2, StepShown DEF ThreadStep
    <3> QED BY <2>2, <3>1, <3>2 DEF ThreadStep
  <2>3. CASE Panic(w) \/ Exception(w)
    BY <2>1, <2>3, GiveUpShown
  <2>4. CASE GiveUp(w)
    BY <2>1, <2>4, NextCallShown, StepShown DEF GiveUp
  <2>5. CASE UNCHANGED xvars
    <3>1. UNCHANGED text /\ Position' = Position
      BY <2>5 DEF xvars, vars, Position, Drawn, Cursor
    <3> QED BY <3>1, ScreenStutters
  <2> QED BY <2>1, <2>2, <2>3, <2>4, <2>5 DEF XNext
<1> QED BY <1>1, <1>2, CursorIsOne, PTL DEF XSpec, ImplementsScreen, S!SSpec
-----------------------------------------------------------------------------
(* Weights of digits *)

LEMMA LeastPlace ==
    ASSUME NEW Set \in SUBSET Nat, Set # {}
    PROVE  \E n \in Set : \A m \in Set : n <= m
<1>1. PICK n \in Set : \A m \in Set : <<m, n>> \notin OpToRel(<, Nat)
  BY NatLessThanWellFounded, WFMin, Zenon
<1>2. \A m \in Set : n <= m
  <2> SUFFICES ASSUME NEW m \in Set PROVE n <= m
    OBVIOUS
  <2>1. m \in Nat /\ n \in Nat /\ ~(m < n)
    BY <1>1 DEF OpToRel
  <2> QED BY <2>1
<1> QED BY <1>2

\* The powers of the radix, up to the n-th
IsWeight(f, n) ==
    /\ f \in [0..n -> Nat]
    /\ f = [k \in 0..n |-> IF k = 0 THEN 1 ELSE Radix * f[k - 1]]

LEMMA WeightExtends ==
    ASSUME NEW n \in Nat, NEW f, IsWeight(f, n)
    PROVE  \E g : IsWeight(g, n + 1)
<1> DEFINE g == [k \in 0..n + 1 |-> IF k = n + 1 THEN Radix * f[n] ELSE f[k]]
<1>1. f[n] \in Nat /\ Radix * f[n] \in Nat
  BY ConsoleAssumption DEF IsWeight
<1>2. g \in [0..n + 1 -> Nat]
  BY <1>1 DEF IsWeight
<1>3. ASSUME NEW k \in 0..n + 1
      PROVE  g[k] = IF k = 0 THEN 1 ELSE Radix * g[k - 1]
  <2>1. CASE k = n + 1
    BY <2>1
  <2>2. CASE k \in 0..n
    <3>1. g[k] = f[k] /\ f[k] = IF k = 0 THEN 1 ELSE Radix * f[k - 1]
      BY <2>2 DEF IsWeight
    <3>2. k # 0 => g[k - 1] = f[k - 1]
      BY <2>2
    <3> QED BY <3>1, <3>2
  <2> QED BY <2>1, <2>2
<1>4. g = [k \in 0..n + 1 |-> IF k = 0 THEN 1 ELSE Radix * g[k - 1]]
  <2>1. g = [k \in 0..n + 1 |-> g[k]]
    OBVIOUS
  <2> HIDE DEF g
  <2> QED BY <1>3, <2>1
<1> HIDE DEF g
<1> QED BY <1>2, <1>4 DEF IsWeight

LEMMA WeightExists == \E f : IsWeight(f, Digits)
<1> DEFINE Set == {n \in Nat : ~\E f : IsWeight(f, n)}
<1> SUFFICES ASSUME Set # {} PROVE FALSE
  BY ConsoleAssumption
<1>1. PICK n \in Set : \A m \in Set : n <= m
  <2>1. Set \in SUBSET Nat
    OBVIOUS
  <2> HIDE DEF Set
  <2> QED BY <2>1, LeastPlace
<1>2. CASE n = 0
  <2> DEFINE f == [k \in 0..0 |-> 1]
  <2>1. IsWeight(f, 0)
    <3>1. f \in [0..0 -> Nat]
      OBVIOUS
    <3>2. \A k \in 0..0 : k = 0
      OBVIOUS
    <3>3. f = [k \in 0..0 |-> IF k = 0 THEN 1 ELSE Radix * f[k - 1]]
      BY <3>2
    <3> QED BY <3>1, <3>3 DEF IsWeight
  <2> QED BY <1>2, <2>1
<1>3. CASE n # 0
  <2>1. n - 1 \in Nat /\ n - 1 \notin Set
    BY <1>1, <1>3
  <2>2. PICK f : IsWeight(f, n - 1)
    BY <2>1
  <2>3. (n - 1) + 1 = n
    OBVIOUS
  <2>4. \E g : IsWeight(g, n)
    BY <2>1, <2>2, <2>3, WeightExtends
  <2> QED BY <2>4
<1> QED BY <1>2, <1>3

LEMMA WeightSteps ==
    \A k \in 0..Digits : Weight[k] = IF k = 0 THEN 1 ELSE Radix * Weight[k - 1]
<1>1. PICK f : f = [k \in 0..Digits |-> IF k = 0 THEN 1 ELSE Radix * f[k - 1]]
  BY WeightExists DEF IsWeight
<1>2. Weight = [k \in 0..Digits |->
                   IF k = 0 THEN 1 ELSE Radix * Weight[k - 1]]
  BY <1>1 DEF Weight
<1> QED BY <1>2

LEMMA WeightType == \A k \in 0..Digits : Weight[k] \in Nat \ {0}
<1> DEFINE Set == {k \in 0..Digits : Weight[k] \notin Nat \ {0}}
<1> SUFFICES ASSUME Set # {} PROVE FALSE
  OBVIOUS
<1>1. PICK k \in Set : \A m \in Set : k <= m
  <2>1. Set \in SUBSET Nat
    OBVIOUS
  <2> HIDE DEF Set
  <2> QED BY <2>1, LeastPlace
<1>2. k \in 0..Digits /\ k # 0
  BY WeightSteps
<1>3. k - 1 \in 0..Digits /\ k - 1 \notin Set
  BY <1>1, <1>2, ConsoleAssumption
<1>4. Weight[k - 1] \in Nat \ {0} /\ Weight[k] = Radix * Weight[k - 1]
  BY <1>2, <1>3, WeightSteps
<1>5. Radix * Weight[k - 1] \in Nat \ {0}
  <2> DEFINE v == Weight[k - 1]
  <2>1. v \in Nat \ {0} /\ Radix \in Nat \ {0}
    BY <1>4, ConsoleAssumption
  <2> HIDE DEF v
  <2>2. Radix * v \in Nat \ {0}
    BY ONLY <2>1, Z3T(30)
  <2> QED BY <2>2 DEF v
<1> QED BY <1>2, <1>4, <1>5

LEMMA DivideTwice ==
    ASSUME NEW n \in Nat, NEW a \in Nat \ {0}, NEW b \in Nat \ {0}
    PROVE  (n \div a) \div b = n \div (b * a) /\ n \div a \in Nat
<1> DEFINE q == n \div a
           s == n % a
           r == q \div b
           t == q % b
<1>1. q \in Nat /\ s \in 0..a - 1 /\ n = q * a + s
  BY Parts
<1> HIDE DEF q, s
<1>2. r \in Nat /\ t \in 0..b - 1 /\ q = r * b + t
  BY <1>1, Parts
<1> HIDE DEF r, t
<1>3. b * a \in Nat \ {0}
  BY ONLY a \in Nat \ {0}, b \in Nat \ {0}, Z3T(30)
<1>4. t * a + s \in 0 .. b * a - 1
  <2>1. t \in Nat /\ t * a \in Nat
    BY <1>2
  <2>2. t * a + a <= b * a
    BY ONLY <1>2, <2>1, Products, a \in Nat \ {0}, b \in Nat \ {0}
  <2> QED BY <1>1, <1>3, <2>1, <2>2
<1>5. n = r * (b * a) + (t * a + s)
  <2>1. q * a = r * (b * a) + t * a
    BY ONLY <1>1, <1>2, a \in Nat \ {0}, b \in Nat \ {0}, Z3T(30)
  <2> QED BY <1>1, <1>2, <1>3, <2>1
<1>6. n \div (b * a) = r
  <2> DEFINE c == b * a
             u == t * a + s
  <2>1. c \in Nat \ {0} /\ u \in 0..c - 1 /\ n = r * c + u
    BY <1>3, <1>4, <1>5
  <2> HIDE DEF c, u
  <2>2. (r * c + u) \div c = r
    BY ONLY <1>2, <2>1, Quotient
  <2>3. n \div c = r
    BY <2>1, <2>2
  <2> QED BY <2>3 DEF c
<1> QED BY <1>1, <1>6 DEF q, r

LEMMA DigitOfType ==
    ASSUME NEW num \in Nat, NEW i \in 0..Digits - 1
    PROVE  DigitOf(num, i) \in 0..Radix - 1 /\ DigitOf(0, i) = 0
<1> DEFINE v == Weight[Digits - 1 - i]
<1>1. Digits - 1 - i \in 0..Digits
  BY ConsoleAssumption
<1>2. v \in Nat \ {0} /\ Radix \in Nat \ {0}
  BY <1>1, WeightType, ConsoleAssumption
<1> HIDE DEF v
<1>3. (num \div v) % Radix \in 0..Radix - 1 /\ (0 \div v) % Radix = 0
  BY <1>2
<1> QED BY <1>3 DEF DigitOf, v

\* A number all of whose digits are 0 is 0.
LEMMA AllDigitsZero ==
    ASSUME NEW num \in 0..Weight[Digits] - 1,
           \A i \in 0..Digits - 1 : DigitOf(num, i) = 0
    PROVE  num = 0
<1> DEFINE Set == {k \in 0..Digits : num \div Weight[k] = 0}
<1>0. /\ Digits \in Nat \ {0} /\ Radix \in Nat \ {0}
      /\ Weight[Digits] \in Nat \ {0}
  BY ConsoleAssumption, WeightType
<1>1. Digits \in Set
  <2> DEFINE v == Weight[Digits]
  <2>1. v \in Nat \ {0} /\ num \in 0..v - 1
    BY <1>0
  <2> HIDE DEF v
  <2>2. num \div v = 0
    BY <2>1
  <2> QED BY <1>0, <2>2 DEF v
<1>2. PICK k \in Set : \A m \in Set : k <= m
  <2>1. Set \in SUBSET Nat /\ Set # {}
    BY <1>1
  <2> HIDE DEF Set
  <2> QED BY <2>1, LeastPlace
<1>3. CASE k = 0
  <2>1. num \div 1 = 0
    BY <1>2, <1>3, WeightSteps, <1>0
  <2>2. num \in Nat
    BY <1>0
  <2> QED BY <2>1, <2>2
<1>4. CASE k # 0
  <2> DEFINE v == Weight[k - 1]
             q == num \div v
  <2>1. k - 1 \in 0..Digits /\ k \in 0..Digits /\ k - 1 \notin Set
    BY <1>0, <1>2, <1>4
  <2>2. v \in Nat \ {0} /\ Weight[k] = Radix * v /\ num \in Nat
    BY <1>0, <1>4, <2>1, WeightType, WeightSteps
  <2>3. Digits - k \in 0..Digits - 1 /\ Digits - 1 - (Digits - k) = k - 1
    BY <1>0, <1>4, <2>1
  <2>4. q % Radix = 0
    <3>1. DigitOf(num, Digits - k) = 0
      BY <2>3
    <3> QED BY <2>3, <3>1 DEF DigitOf
  <2> HIDE DEF v
  <2>5. q \in Nat /\ q \div Radix = num \div (Radix * v)
    BY <1>0, <2>2, DivideTwice
  <2>6. q \div Radix = 0
    BY <1>2, <2>2, <2>5
  <2> HIDE DEF q
  <2>7. q = (q \div Radix) * Radix + (q % Radix)
    BY ONLY <1>0, <2>5, Parts
  <2>8. q = 0
    BY <1>0, <2>4, <2>6, <2>7
  <2> QED BY <2>1, <2>8 DEF q, v
<1> QED BY <1>3, <1>4
-----------------------------------------------------------------------------
(* What put_int has done of its number *)

Counting == {"store", "skip", "next"}

\* Away from put_int only the place to go back to matters.
LEMMA NumberKept ==
    ASSUME NEW w, Writer = {w}, NumbersInv, UNCHANGED put_int_buffer,
           call'[w].pc \notin {"store", "skip"},
           \/ call'[w].back = "idle" /\ call'[w].pc # "next"
           \/ /\ call'[w].back = call[w].back /\ call'[w].num = call[w].num
              /\ call'[w].edi = call[w].edi
              /\ call[w].pc \notin {"store", "skip"}
              /\ call'[w].pc = "next" => call'[w].back = "next"
    PROVE  NumbersInv'
<1>1. NumberInv(call[w])
  BY DEF NumbersInv
<1>2. NumberInv(call[w])'
  BY <1>1 DEF NumberInv, DigitsFrom, DigitOf
<1> QED BY <1>2 DEF NumbersInv

LEMMA PortsKeepNumber ==
    ASSUME NEW w, Writer = {w}, IInv, NumbersInv,
           GetCursor(w) \/ Draw(w) \/ SetCursor(w)
    PROVE  NumbersInv'
<1>1. call[w] \in Frame /\ w \in DOMAIN call /\ fault = FALSE
  BY MyFrame DEF IInv, ConsoleTypes
<1>2. UNCHANGED put_int_buffer
  BY DEF GetCursor, Draw, SetCursor, Select, ReadHigh, ReadLow, WriteRegister,
         DrawNewLine, DrawVisible, DrawBackspace, Finish, SegmentFault
<1>3. ASSUME call[w].pc \notin Counting, call'[w].pc \notin Counting,
             call'[w].back = call[w].back, call'[w].num = call[w].num,
             call'[w].edi = call[w].edi
      PROVE  NumbersInv'
  <2>1. /\ call'[w].pc \notin {"store", "skip"} /\ call'[w].pc # "next"
        /\ call[w].pc \notin {"store", "skip"}
    BY <1>3 DEF Counting
  <2> QED BY <1>2, <1>3, <2>1, NumberKept
<1>4. CASE \E point, register, next :
              /\ Select(w, point, register, next)
              /\ point \notin Counting /\ next \notin Counting
  BY <1>1, <1>3, <1>4 DEF Select, At, Goto, Frame
<1>5. CASE ReadHigh(w)
  BY <1>1, <1>3, <1>5 DEF ReadHigh, At, Counting, Frame
<1>6. CASE ReadLow(w)
  BY <1>1, <1>3, <1>6 DEF ReadLow, At, Counting, Frame
<1>7. CASE WriteRegister(w, "write_high", call[w].bx \div Base,
                         Goto(w, "set_low"))
  BY <1>1, <1>3, <1>7 DEF WriteRegister, Goto, At, Counting, Frame
<1>8. CASE WriteRegister(w, "write_low", call[w].bx % Base, Return(w))
  <2>1. call[w].pc = "write_low" /\ call[w].back \in {"idle", "next"}
    BY <1>1, <1>8, FrameFields DEF WriteRegister, At
  <2>2. CASE call[w].back = "idle"
    <3>1. call'[w] = Idle
      BY <1>1, <1>8, <2>2 DEF WriteRegister, Return
    <3>2. call'[w].back = "idle" /\ call'[w].pc = "idle"
      BY <3>1 DEF Idle
    <3> QED BY <1>2, <3>2, NumberKept
  <2>3. CASE call[w].back = "next"
    <3>1. call'[w] = [Idle EXCEPT !.pc = "next", !.back = "next",
                                  !.num = call[w].num, !.edi = call[w].edi]
      BY <1>1, <1>8, <2>3 DEF WriteRegister, Return
    <3>2. /\ call'[w].back = "next" /\ call'[w].pc = "next"
          /\ call'[w].num = call[w].num /\ call'[w].edi = call[w].edi
      BY <3>1 DEF Idle
    <3> QED BY <1>2, <2>1, <2>3, <3>2, NumberKept
  <2> QED BY <2>1, <2>2, <2>3
<1>9. CASE Draw(w)
  <2>1. /\ call[w].pc \notin Counting /\ call'[w].pc \notin Counting
        /\ call'[w].back = call[w].back /\ call'[w].num = call[w].num
        /\ call'[w].edi = call[w].edi
    <3>1. call[w].pc = "draw"
      BY <1>9 DEF Draw, DrawNewLine, DrawVisible, DrawBackspace, At
    <3>2. CASE call' = call
      BY <3>1, <3>2 DEF Counting
    <3>3. CASE \E b : call' = [call EXCEPT ![w].bx = b, ![w].pc = "set_high"]
      BY <1>1, <3>1, <3>3 DEF Counting, Frame
    <3> QED BY <1>9, <3>2, <3>3
            DEF Draw, DrawNewLine, DrawVisible, DrawBackspace, Finish,
                SegmentFault
  <2> QED BY <1>3, <2>1
<1>10. CASE GetCursor(w)
  <2>1. CASE Select(w, "get_high", "high", "read_high")
    BY <1>4, <2>1 DEF Counting
  <2>2. CASE Select(w, "get_low", "low", "read_low")
    BY <1>4, <2>2 DEF Counting
  <2> QED BY <1>5, <1>6, <1>10, <2>1, <2>2 DEF GetCursor
<1>11. CASE SetCursor(w)
  <2>1. CASE Select(w, "set_high", "high", "write_high")
    BY <1>4, <2>1 DEF Counting
  <2>2. CASE Select(w, "set_low", "low", "write_low")
    BY <1>4, <2>2 DEF Counting
  <2> QED BY <1>7, <1>8, <1>11, <2>1, <2>2 DEF SetCursor
<1> QED BY <1>9, <1>10, <1>11

LEMMA StoreKeepsNumber ==
    ASSUME NEW w, Writer = {w}, IInv, NumbersInv, StoreDigit(w)
    PROVE  NumbersInv'
<1> DEFINE c == call[w]
           d == call'[w]
           k == Digits - 1 - c.edi
<1>1. /\ c \in Frame /\ c.pc = "store" /\ w \in DOMAIN call
      /\ c.edi \in 0..Digits - 1 /\ c.num \in Nat /\ c.num \in Numbers
      /\ c.back = "next" /\ c.eax = c.num \div Weight[k]
      /\ DigitsFrom(c.edi + 1, c.num)
  <2>1. c \in Frame /\ FrameInv(c) /\ c.pc = "store" /\ w \in DOMAIN call
    BY MyFrame DEF IInv, ConsoleTypes, StoreDigit, At
  <2>2. c.edi \in 0..Digits /\ c.edi < Digits /\ c.num \in Nat
    BY <2>1, FrameFields DEF FrameInv
  <2>3. c.edi \in 0..Digits - 1
    BY <2>2, ConsoleAssumption
  <2> QED BY <2>1, <2>2, <2>3 DEF NumbersInv, NumberInv
<1>2. /\ put_int_buffer' = [put_int_buffer EXCEPT ![c.edi] = c.eax % Radix]
      /\ d = [c EXCEPT !.eax = c.eax \div Radix,
                       !.edi = IF c.edi > 0 THEN c.edi - 1 ELSE 0,
                       !.pc = IF c.edi > 0 THEN "store" ELSE "skip"]
  BY <1>1 DEF StoreDigit
<1>3. /\ d.num = c.num /\ d.back = "next" /\ d.eax = c.eax \div Radix
      /\ d.edi = (IF c.edi > 0 THEN c.edi - 1 ELSE 0)
      /\ d.pc = IF c.edi > 0 THEN "store" ELSE "skip"
  BY <1>1, <1>2 DEF Frame
<1>4. DOMAIN put_int_buffer = 0..Digits - 1
  BY DEF IInv, ConsoleTypes
<1>5. c.eax % Radix = DigitOf(c.num, c.edi)
  BY <1>1 DEF DigitOf
<1> HIDE DEF c, d
<1>6. \A i \in c.edi..Digits - 1 : put_int_buffer'[i] = DigitOf(c.num, i)
  <2> SUFFICES ASSUME NEW i \in c.edi..Digits - 1
               PROVE  put_int_buffer'[i] = DigitOf(c.num, i)
    OBVIOUS
  <2>1. i \in 0..Digits - 1
    BY <1>1, ConsoleAssumption
  <2>2. CASE i = c.edi
    BY <1>2, <1>4, <1>5, <2>1, <2>2
  <2>3. CASE i # c.edi
    <3>1. i \in c.edi + 1 .. Digits - 1
      BY <1>1, <2>3, ConsoleAssumption
    <3> QED BY <1>1, <1>2, <1>4, <2>1, <2>3, <3>1 DEF DigitsFrom
  <2> QED BY <2>2, <2>3
<1>7. NumberInv(call[w])'
  <2>1. CASE c.edi > 0
    <3>1. /\ d.pc = "store" /\ d.edi = c.edi - 1 /\ d.edi + 1 = c.edi
          /\ Digits - 1 - d.edi = k + 1 /\ k + 1 \in 0..Digits
          /\ k \in 0..Digits /\ k + 1 # 0 /\ (k + 1) - 1 = k
      BY <1>1, <1>3, <2>1, ConsoleAssumption
    <3>2. Weight[k + 1] = Radix * Weight[k] /\ Weight[k] \in Nat \ {0}
      BY <3>1, WeightSteps, WeightType
    <3>3. c.eax \div Radix = c.num \div Weight[k + 1]
      <4> DEFINE v == Weight[k]
      <4>1. v \in Nat \ {0} /\ Radix \in Nat \ {0} /\ c.num \in Nat
        BY <1>1, <3>2, ConsoleAssumption
      <4>2. c.eax = c.num \div v /\ Weight[k + 1] = Radix * v
        BY <1>1, <3>2
      <4> HIDE DEF v, k
      <4>3. (c.num \div v) \div Radix = c.num \div (Radix * v)
        BY ONLY <4>1, DivideTwice
      <4> QED BY <4>2, <4>3
    <3>4. d.eax = d.num \div Weight[Digits - 1 - d.edi]
      BY <1>3, <3>1, <3>3
    <3> QED BY <1>1, <1>3, <1>6, <3>1, <3>4
            DEF NumberInv, DigitsFrom, DigitOf, d
  <2>2. CASE ~(c.edi > 0)
    <3>1. d.pc = "skip" /\ d.edi = 0 /\ c.edi = 0
      BY <1>1, <1>3, <2>2, ConsoleAssumption
    <3>2. \A i \in 0 .. d.edi - 1 : FALSE
      BY <3>1
    <3> QED BY <1>1, <1>3, <1>6, <3>1, <3>2
            DEF NumberInv, DigitsFrom, DigitOf, d
  <2> QED BY <2>1, <2>2
<1> QED BY <1>7 DEF NumbersInv

LEMMA SkipKeepsNumber ==
    ASSUME NEW w, Writer = {w}, IInv, NumbersInv, SkipPrefix0(w)
    PROVE  NumbersInv'
<1> DEFINE c == call[w]
           d == call'[w]
<1>1. /\ c \in Frame /\ c.pc = "skip" /\ w \in DOMAIN call
      /\ c.back = "next" /\ c.num \in Numbers /\ DigitsFrom(0, c.num)
      /\ \A i \in 0 .. c.edi - 1 : DigitOf(c.num, i) = 0
  <2>1. c \in Frame /\ w \in DOMAIN call /\ c.pc = "skip"
    BY MyFrame DEF IInv, ConsoleTypes, SkipPrefix0, At
  <2> QED BY <2>1 DEF NumbersInv, NumberInv
<1>2. c.edi \in 0..Digits - 1 /\ put_int_buffer[c.edi] = 0
  BY <1>1, FrameFields, ConsoleAssumption DEF SkipPrefix0, IsPrefix0
<1>3. /\ d.pc = "skip" /\ d.back = "next" /\ d.num = c.num
      /\ d.edi = c.edi + 1
  BY <1>1 DEF SkipPrefix0, Frame
<1>4. DigitOf(c.num, c.edi) = 0
  BY <1>1, <1>2 DEF DigitsFrom
<1> HIDE DEF c, d
<1>5. \A i \in 0 .. d.edi - 1 : DigitOf(c.num, i) = 0
  <2> SUFFICES ASSUME NEW i \in 0 .. d.edi - 1 PROVE DigitOf(c.num, i) = 0
    OBVIOUS
  <2>1. i = c.edi \/ i \in 0 .. c.edi - 1
    BY <1>2, <1>3
  <2> QED BY <1>1, <1>4, <2>1
<1>6. put_int_buffer' = put_int_buffer
  BY DEF SkipPrefix0
<1>7. NumberInv(call[w])'
  BY <1>1, <1>3, <1>5, <1>6 DEF NumberInv, DigitsFrom, DigitOf, d
<1> QED BY <1>7 DEF NumbersInv

\* Where the digits of a number begin
LEMMA FirstIs ==
    ASSUME NEW num \in Nat, NEW place \in 0..Digits,
           \A i \in 0..place - 1 : DigitOf(num, i) = 0,
           place < Digits => DigitOf(num, place) # 0
    PROVE  First(num) = place
<1> DEFINE P(p) == /\ \A i \in 0..p - 1 : DigitOf(num, i) = 0
                   /\ p < Digits => DigitOf(num, p) # 0
<1>0. Digits \in Nat \ {0}
  BY ConsoleAssumption
<1>1. ASSUME NEW p \in 0..Digits, P(p) PROVE p = place
  <2>1. ~(p < place)
    <3> SUFFICES ASSUME p < place PROVE FALSE
      OBVIOUS
    <3>1. p \in 0..place - 1 /\ p < Digits
      BY <1>0
    <3> QED BY <1>1, <3>1
  <2>2. ~(place < p)
    <3> SUFFICES ASSUME place < p PROVE FALSE
      OBVIOUS
    <3>1. place \in 0..p - 1 /\ place < Digits
      BY <1>0
    <3> QED BY <1>1, <3>1
  <2> QED BY <1>0, <2>1, <2>2
<1>2. P(place)
  OBVIOUS
<1>3. First(num) = CHOOSE p \in 0..Digits : P(p)
  BY DEF First
<1> HIDE DEF P
<1> QED BY <1>1, <1>2, <1>3

LEMMA FirstDigitKeepsNumber ==
    ASSUME NEW w, Writer = {w}, IInv, NumbersInv, FirstDigit(w)
    PROVE  NumbersInv' /\ NumberPrinted(w)
<1> DEFINE c == call[w]
           d == call'[w]
           char == IF c.edi = Digits THEN 0 ELSE put_int_buffer[c.edi]
<1>1. /\ c \in Frame /\ c.pc = "skip" /\ w \in DOMAIN call
      /\ c.back = "next" /\ c.num \in Numbers /\ DigitsFrom(0, c.num)
      /\ \A i \in 0 .. c.edi - 1 : DigitOf(c.num, i) = 0
  <2>1. c \in Frame /\ w \in DOMAIN call /\ c.pc = "skip"
    BY MyFrame DEF IInv, ConsoleTypes, FirstDigit, At
  <2> QED BY <2>1 DEF NumbersInv, NumberInv
<1>2. c.edi \in 0..Digits /\ c.num \in Nat /\ Digits \in Nat \ {0}
  BY <1>1, FrameFields, ConsoleAssumption
<1>3. /\ d.pc = "get_high" /\ d.back = "next" /\ d.num = c.num
      /\ d.edi = c.edi /\ d.cl = char
  BY <1>1 DEF FirstDigit, EnterPutChar, Frame
<1>4. c.edi < Digits => /\ c.edi \in 0..Digits - 1
                        /\ put_int_buffer[c.edi] = DigitOf(c.num, c.edi)
                        /\ DigitOf(c.num, c.edi) # 0
  BY <1>1, <1>2 DEF DigitsFrom, FirstDigit, IsPrefix0
<1> HIDE DEF c, d
<1>5. c.num = 0 => c.edi = Digits
  <2> SUFFICES ASSUME c.num = 0, c.edi < Digits PROVE FALSE
    BY <1>2
  <2> QED BY <1>4, DigitOfType
<1>6. c.edi = Digits => c.num = 0
  <2> SUFFICES ASSUME c.edi = Digits PROVE c.num = 0
    OBVIOUS
  <2>1. c.num \in 0..Weight[Digits] - 1
    BY <1>1, ConsoleAssumption
  <2> QED BY <1>1, <2>1, AllDigitsZero
<1>7. put_int_buffer' = put_int_buffer
  BY DEF FirstDigit
<1>8. NumberInv(call[w])'
  BY <1>1, <1>3, <1>5, <1>7 DEF NumberInv, DigitsFrom, DigitOf, d
<1>9. First(c.num) = c.edi
  BY <1>1, <1>2, <1>4, FirstIs
<1>10. d.cl = IF c.num = 0 THEN 0 ELSE DigitOf(c.num, d.edi)
  <2>1. CASE c.edi = Digits
    BY <1>3, <1>6, <2>1
  <2>2. CASE c.edi # Digits
    BY <1>2, <1>3, <1>4, <1>5, <2>2
  <2> QED BY <2>1, <2>2
<1>11. NumberPrinted(w)
  BY <1>1, <1>3, <1>9, <1>10 DEF NumberPrinted, c, d
<1> QED BY <1>8, <1>11 DEF NumbersInv

LEMMA NextDigitKeepsNumber ==
    ASSUME NEW w, Writer = {w}, IInv, NumbersInv, NextDigit(w)
    PROVE  NumbersInv' /\ NumberPrinted(w)
<1> DEFINE c == call[w]
           d == call'[w]
<1>1. /\ c \in Frame /\ c.pc = "next" /\ w \in DOMAIN call
      /\ c.back = "next" /\ c.num \in Numbers /\ DigitsFrom(0, c.num)
      /\ c.num = 0 => c.edi = Digits
  <2>1. c \in Frame /\ w \in DOMAIN call /\ c.pc = "next"
    BY MyFrame DEF IInv, ConsoleTypes, NextDigit, At
  <2> QED BY <2>1 DEF NumbersInv, NumberInv
<1>2. c.edi \in 0..Digits /\ c.num \in Nat /\ Digits \in Nat \ {0}
  BY <1>1, FrameFields, ConsoleAssumption
<1>3. put_int_buffer' = put_int_buffer
  BY DEF NextDigit
<1>4. CASE c.edi + 1 < Digits
  <2>1. /\ d.pc = "get_high" /\ d.back = "next" /\ d.num = c.num
        /\ d.edi = c.edi + 1 /\ d.cl = put_int_buffer[c.edi + 1]
    BY <1>1, <1>4 DEF NextDigit, EnterPutChar, Frame
  <2> HIDE DEF c, d
  <2>2. c.edi + 1 \in 0..Digits - 1 /\ c.num # 0
    BY <1>1, <1>2, <1>4
  <2>3. d.cl = DigitOf(c.num, d.edi)
    BY <1>1, <2>1, <2>2 DEF DigitsFrom
  <2>4. NumberInv(call[w])'
    BY <1>1, <1>3, <2>1, <2>2 DEF NumberInv, DigitsFrom, DigitOf, d
  <2>5. NumberPrinted(w)
    BY <1>1, <2>1, <2>2, <2>3 DEF NumberPrinted, c, d
  <2> QED BY <2>4, <2>5 DEF NumbersInv
<1>5. CASE ~(c.edi + 1 < Digits)
  <2>1. d = Idle
    BY <1>1, <1>5 DEF NextDigit
  <2>2. d.pc = "idle" /\ d.back = "idle"
    BY <2>1 DEF Idle
  <2> HIDE DEF c, d
  <2>3. NumberInv(call[w])'
    BY <2>2 DEF NumberInv, d
  <2>4. c.edi >= Digits - 1
    BY <1>2, <1>5
  <2>5. NumberPrinted(w)
    BY <1>1, <2>2, <2>4 DEF NumberPrinted, c, d
  <2> QED BY <2>3, <2>5 DEF NumbersInv
<1> QED BY <1>4, <1>5

LEMMA PutIntStarts ==
    ASSUME NEW w, Writer = {w}, IInv, NEW num \in Numbers, PutInt(w, num)
    PROVE  NumbersInv'
<1> DEFINE d == call'[w]
<1>1. w \in DOMAIN call /\ Digits \in Nat \ {0} /\ num \in Nat
  BY ConsoleAssumption DEF IInv, ConsoleTypes
<1>2. /\ d.pc = "store" /\ d.num = num /\ d.eax = num /\ d.edi = Digits - 1
      /\ d.back = "next"
  BY <1>1 DEF PutInt, Idle
<1> HIDE DEF d
<1>3. Weight[0] = 1 /\ Digits - 1 - (Digits - 1) = 0 /\ num \div 1 = num
  BY <1>1, WeightSteps
<1>4. d.eax = d.num \div Weight[Digits - 1 - d.edi]
  BY <1>2, <1>3
<1>5. \A i \in d.edi + 1 .. Digits - 1 : FALSE
  BY <1>1, <1>2
<1>6. NumberInv(call[w])'
  BY <1>2, <1>4, <1>5 DEF NumberInv, DigitsFrom, d
<1> QED BY <1>6 DEF NumbersInv

\* put_char and set_cursor start with nowhere to go back to.
LEMMA OthersStart ==
    ASSUME NEW w, Writer = {w}, IInv, NumbersInv,
           \/ \E char : PutChar(w, char)
           \/ \E pos : set_cursor(w, pos)
           \/ Panic(w)
           \/ Exception(w)
    PROVE  NumbersInv'
<1>1. w \in DOMAIN call /\ UNCHANGED put_int_buffer
  BY DEF IInv, ConsoleTypes, PutChar, set_cursor, Panic, Exception
<1>2. call'[w].back = "idle" /\ call'[w].pc \notin Counting
  <2>1. CASE \E char : PutChar(w, char)
    BY <1>1, <2>1 DEF PutChar, EnterPutChar, Idle, Counting
  <2>2. CASE \E pos : set_cursor(w, pos)
    BY <1>1, <2>2 DEF set_cursor, SetCursorFrame, Idle, Counting
  <2>3. CASE Panic(w)
    BY <1>1, <2>3 DEF Panic, Forgotten, Idle, Counting
  <2>4. CASE Exception(w)
    <3>1. call'[w] = SetCursorFrame(0)
      BY <2>4 DEF Exception, Forgotten
    <3> QED BY <3>1 DEF SetCursorFrame, Idle, Counting
  <2> QED BY <2>1, <2>2, <2>3, <2>4
<1> QED BY <1>1, <1>2, NumberKept DEF Counting

\* Only from the skipping of zeros, and between two digits, is anything said.
LEMMA NothingPrinted ==
    ASSUME NEW w, call[w].pc \notin {"skip", "next"}
    PROVE  NumberPrinted(w)
BY DEF NumberPrinted

LEMMA StepPrints ==
    ASSUME NEW w, Writer = {w}, IInv, NumbersInv, Step(w)
    PROVE  NumbersInv' /\ NumberPrinted(w)
<1>1. CASE GetCursor(w) \/ Draw(w) \/ SetCursor(w)
  <2>1. call[w].pc \notin {"skip", "next"}
    BY <1>1 DEF GetCursor, Draw, SetCursor, Select, ReadHigh, ReadLow,
                WriteRegister, DrawNewLine, DrawVisible, DrawBackspace, At
  <2> QED BY <1>1, <2>1, PortsKeepNumber, NothingPrinted
<1>2. CASE StoreDigit(w)
  <2>1. call[w].pc \notin {"skip", "next"}
    BY <1>2 DEF StoreDigit, At
  <2> QED BY <1>2, <2>1, StoreKeepsNumber, NothingPrinted
<1>3. CASE SkipPrefix0(w)
  <2>1. call'[w].pc = "skip"
    BY <1>3, MyFrame DEF IInv, ConsoleTypes, SkipPrefix0, At, Frame
  <2>2. NumberPrinted(w)
    BY <2>1 DEF NumberPrinted
  <2> QED BY <1>3, <2>2, SkipKeepsNumber
<1> QED BY <1>1, <1>2, <1>3, FirstDigitKeepsNumber, NextDigitKeepsNumber
        DEF Step, PutIntStep

LEMMA CallPrints ==
    ASSUME NEW w, Writer = {w}, IInv, NumbersInv,
           \/ \E char : PutChar(w, char)
           \/ \E num \in Numbers : PutInt(w, num)
           \/ \E pos : set_cursor(w, pos)
           \/ Panic(w)
    PROVE  NumbersInv' /\ NumberPrinted(w)
<1>1. call[w].pc \notin {"skip", "next"}
  BY DEF PutChar, PutInt, set_cursor, Panic, At
<1>2. NumbersInv'
  BY OthersStart, PutIntStarts
<1> QED BY <1>1, <1>2, NothingPrinted

LEMMA NextCallPrints ==
    ASSUME NEW w, Writer = {w}, IInv, NumbersInv, NextCall(w)
    PROVE  NumbersInv' /\ NumberPrinted(w)
<1> DEFINE next == Head(program)
<1>1. next \in ConsoleCall
  BY HeadTailProperties DEF IInv, ConsoleTypes, NextCall
<1>2. next.op = "put_int" => next.arg \in Numbers
  BY <1>1 DEF ConsoleCall
<1> HIDE DEF next
<1>3. \/ PutChar(w, next.arg)
      \/ next.op = "put_int" /\ PutInt(w, next.arg)
      \/ set_cursor(w, next.arg)
  BY DEF NextCall, next
<1> QED BY <1>2, <1>3, CallPrints

LEMMA NumbersKept ==
    OneWriter /\ IInv /\ NumbersInv /\ [XNext]_xvars =>
        NumbersInv' /\ \A w \in Writer : call' = call \/ NumberPrinted(w)
<1> SUFFICES ASSUME NEW w, Writer = {w}, IInv, NumbersInv, [XNext]_xvars
             PROVE  NumbersInv' /\ (call' = call \/ NumberPrinted(w))
  BY DEF OneWriter
<1>1. CASE ThreadStep(w)
  BY <1>1, CallPrints, StepPrints DEF ThreadStep, Call
<1>2. CASE Panic(w)
  BY <1>2, CallPrints
<1>3. CASE Exception(w)
  <2>1. call'[w].pc = "set_high"
    BY <1>3 DEF Exception, Forgotten, SetCursorFrame, Idle
  <2>2. NumberPrinted(w)
    BY <2>1 DEF NumberPrinted
  <2> QED BY <1>3, <2>2, OthersStart
<1>4. CASE GiveUp(w)
  BY <1>4, NextCallPrints, StepPrints DEF GiveUp
<1>5. CASE UNCHANGED xvars
  BY <1>5 DEF xvars, vars, NumbersInv, NumberInv, DigitsFrom, DigitOf
<1> QED BY <1>1, <1>2, <1>3, <1>4, <1>5 DEF XNext

(* put_int hands its number to put_char digit by digit, from the first that *)
(* is not 0 to the last, for every radix and every width, although it works *)
(* in a buffer that earlier numbers, and one that an exception has cut      *)
(* short, have left in any state (print.S:331-418).                         *)
THEOREM NumbersPrinted == OneWriter => (XSpec => NumbersInHex)
<1> SUFFICES ASSUME OneWriter PROVE XSpec => NumbersInHex
  OBVIOUS
<1>1. XInit => NumbersInv
  BY DEF XInit, Init, Idle, NumbersInv, NumberInv
<1>2. IInv /\ NumbersInv /\ [XNext]_xvars => NumbersInv'
  BY NumbersKept
<1>3. IInv /\ NumbersInv /\ [XNext]_xvars =>
         [\A w \in Writer : NumberPrinted(w)]_call
  BY NumbersKept
<1> QED BY <1>1, <1>2, <1>3, CursorIsOne, PTL DEF XSpec, NumbersInHex

-----------------------------------------------------------------------------
(* What the screen shows when put_char has drawn *)

LEMMA PlaceType ==
    ASSUME NEW w, Writer = {w}, IInv
    PROVE  /\ Row \in 0..Rows - 1 /\ Col \in 0..Cols - 1
           /\ Position = Row * Cols + Col
<1>1. Position \in 0..Cells - 1
  BY PositionType
<1> QED BY <1>1, PlaceOf DEF Row, Col

LEMMA TypeShows ==
    ASSUME NEW w, Writer = {w}, IInv, UNCHANGED program, DrawVisible(w)
    PROVE  LET ch == call[w].cl
               Shown(r, c) == IF r = Row /\ c = Col THEN ch
                              ELSE View(text)[r][c]
               last == Row = Rows - 1 /\ Col = Cols - 1
           IN  /\ ch \in Visible \cup {Blank}
               /\ Col < Cols - 1 => Row' = Row /\ Col' = Col + 1
               /\ Col = Cols - 1 =>
                     /\ Row' = IF Row < Rows - 1 THEN Row + 1 ELSE Row
                     /\ Col' = 0
               /\ ~last => \A r \in 0..Rows - 1, c \in 0..Cols - 1 :
                              View(text')[r][c] = Shown(r, c)
               /\ last => \A r \in 0..Rows - 1, c \in 0..Cols - 1 :
                             View(text')[r][c] = IF r < Rows - 1
                                                 THEN Shown(r + 1, c)
                                                 ELSE Blank
<1> DEFINE ch == call[w].cl
           t == View(text)
           p == [t EXCEPT ![Row][Col] = ch]
<1>1. S!Type(ch) /\ ch \in Visible \cup {Blank}
  BY DrawVisibleTypes
<1>2. Row \in 0..Rows - 1 /\ Col \in 0..Cols - 1 /\ Rows - 1 \in Nat
  BY PlaceType, Sizes
<1>3. IF Col < Cols - 1
      THEN View(text') = p /\ Col' = Col + 1 /\ Row' = Row
      ELSE /\ Col' = 0
           /\ IF Row < Rows - 1
              THEN Row' = Row + 1 /\ View(text') = p
              ELSE /\ Row' = Row
                   /\ View(text') = [r \in 0..Rows - 1 |->
                                        IF r < Rows - 1 THEN p[r + 1]
                                        ELSE [c \in 0..Cols - 1 |-> Blank]]
  BY <1>1 DEF S!Type, S!NextLine, View, Row, Col
<1> HIDE DEF ch
<1>4. \A r \in 0..Rows - 1, c \in 0..Cols - 1 :
         p[r][c] = IF r = Row /\ c = Col THEN ch ELSE t[r][c]
  BY <1>2 DEF View
<1> HIDE DEF p
<1>5. CASE Col < Cols - 1 \/ Row < Rows - 1
  <2>1. /\ View(text') = p
        /\ Col < Cols - 1 => Row' = Row /\ Col' = Col + 1
        /\ ~(Col < Cols - 1) => Row' = Row + 1 /\ Col' = 0
    BY <1>3, <1>5
  <2> QED BY <1>1, <1>2, <1>4, <1>5, <2>1, Sizes DEF ch
<1>6. CASE ~(Col < Cols - 1) /\ ~(Row < Rows - 1)
  <2>1. /\ Col' = 0 /\ Row' = Row
        /\ View(text') = [r \in 0..Rows - 1 |->
                             IF r < Rows - 1 THEN p[r + 1]
                             ELSE [c \in 0..Cols - 1 |-> Blank]]
    BY <1>3, <1>6
  <2>2. ASSUME NEW r \in 0..Rows - 1, NEW c \in 0..Cols - 1
        PROVE  View(text')[r][c] =
                  IF r < Rows - 1
                  THEN IF r + 1 = Row /\ c = Col THEN ch ELSE t[r + 1][c]
                  ELSE Blank
    <3>1. r < Rows - 1 => r + 1 \in 0..Rows - 1
      BY <1>2
    <3> HIDE DEF t
    <3> QED BY <1>4, <2>1, <3>1
  <2> QED BY <1>1, <1>2, <1>6, <2>1, <2>2, Sizes DEF ch
<1> QED BY <1>5, <1>6

LEMMA NewLineShows ==
    ASSUME NEW w, Writer = {w}, IInv, UNCHANGED program, DrawNewLine(w)
    PROVE  /\ Col' = 0
           /\ Row' = IF Row < Rows - 1 THEN Row + 1 ELSE Row
           /\ \A r \in 0..Rows - 1, c \in 0..Cols - 1 :
                 View(text')[r][c] = IF Row < Rows - 1 THEN View(text)[r][c]
                                     ELSE IF r < Rows - 1
                                          THEN View(text)[r + 1][c]
                                          ELSE Blank
<1>1. /\ Col' = 0
      /\ IF Row < Rows - 1
         THEN Row' = Row + 1 /\ View(text') = View(text)
         ELSE /\ Row' = Row
              /\ View(text') = [r \in 0..Rows - 1 |->
                                   IF r < Rows - 1 THEN View(text)[r + 1]
                                   ELSE [c \in 0..Cols - 1 |-> Blank]]
  BY DrawNewLineTypes DEF S!NewLine, S!NextLine, View, Row, Col
<1> QED BY <1>1

LEMMA EraseShows ==
    ASSUME NEW w, Writer = {w}, IInv, UNCHANGED program, DrawBackspace(w)
    PROVE  /\ Row > 0 \/ Col > 0
           /\ Row' = IF Col > 0 THEN Row ELSE Row - 1
           /\ Col' = IF Col > 0 THEN Col - 1 ELSE Cols - 1
           /\ \A r \in 0..Rows - 1, c \in 0..Cols - 1 :
                 View(text')[r][c] = IF r = Row' /\ c = Col' THEN Blank
                                     ELSE View(text)[r][c]
<1>1. /\ Row > 0 \/ Col > 0
      /\ Row' = IF Col > 0 THEN Row ELSE Row - 1
      /\ Col' = IF Col > 0 THEN Col - 1 ELSE Cols - 1
      /\ View(text') = [View(text) EXCEPT ![Row'][Col'] = Blank]
  BY DrawBackspaceTypes DEF S!Erase, View, Row, Col
<1>2. Row \in 0..Rows - 1 /\ Col \in 0..Cols - 1
  BY PlaceType
<1>3. Row' \in 0..Rows - 1 /\ Col' \in 0..Cols - 1
  BY <1>1, <1>2, Sizes
<1>4. \A r \in 0..Rows - 1, c \in 0..Cols - 1 :
         [View(text) EXCEPT ![Row'][Col'] = Blank][r][c] =
            IF r = Row' /\ c = Col' THEN Blank ELSE View(text)[r][c]
  BY <1>3 DEF View
<1> QED BY <1>1, <1>4

\* What is drawn leaves nothing behind the position.
LEMMA DrawKeepsBlank ==
    ASSUME NEW w, Writer = {w}, IInv, UNCHANGED program, Draw(w),
           BlankBehind(Rows)
    PROVE  BlankBehind(Rows)'
<1>1. Row \in 0..Rows - 1 /\ Col \in 0..Cols - 1 /\ Rows \in Nat /\ Cols \in Nat
  BY PlaceType, Sizes
<1> SUFFICES ASSUME NEW r \in 0..Rows - 1, NEW c \in 0..Cols - 1,
                    r > Row' \/ (r = Row' /\ c >= Col')
             PROVE  View(text')[r][c] = Blank
  BY DEF BlankBehind
<1>2. \A x \in 0..Rows - 1, y \in 0..Cols - 1 :
         x > Row \/ (x = Row /\ y >= Col) => View(text)[x][y] = Blank
  BY DEF BlankBehind
<1>3. r < Rows - 1 => r + 1 \in 0..Rows - 1
  BY <1>1
<1>4. CASE DrawNewLine(w)
  BY <1>1, <1>2, <1>3, <1>4, NewLineShows
<1>5. CASE DrawVisible(w)
  BY <1>1, <1>2, <1>3, <1>5, TypeShows
<1>6. CASE DrawBackspace(w)
  BY <1>1, <1>2, <1>6, EraseShows
<1> QED BY <1>4, <1>5, <1>6 DEF Draw

\* Nor does anything else that does not move the position
LEMMA PositionKept ==
    ASSUME UNCHANGED text, Position' = Position
    PROVE  /\ Row' = Row /\ Col' = Col
           /\ \A rows : BlankBehind(rows)' <=> BlankBehind(rows)
BY DEF Row, Col, BlankBehind, View

-----------------------------------------------------------------------------
(* The calls of whoever gives up, and the lines that they write *)

Char(ch) == [op |-> "put_char", arg |-> ch]

LEMMA PanicIs ==
    ASSUME NEW line
    PROVE  LET s == panic_spin(line)
           IN  /\ Len(s) = 13
               /\ \A i \in {1, 2, 3, 5, 7, 9, 11, 13} : s[i] = Char(LF)
               /\ s[4] = Char(Begin) /\ s[6] = Char(Name) /\ s[10] = Char(Name)
               /\ s[8] = [op |-> "put_int", arg |-> line] /\ s[12] = Char(End)
BY DEF panic_spin, put_str, Number, Char

\* The calls of the handler, s, up to the name, and behind it
Beginning(s) ==
    /\ Blanked \in Nat
    /\ \A i \in 1..Blanked : s[i] = Char(Blank)
    /\ s[Blanked + 1] = [op |-> "set_cursor", arg |-> 0]
    /\ s[Blanked + 2] = Char(Begin) /\ s[Blanked + 3] = Char(LF)
    /\ s[Blanked + 4] = [op |-> "set_cursor", arg |-> Cols + Indent]
    /\ s[Blanked + 5] = Char(Name) /\ s[Blanked + 6] = Char(LF)

Address(s, address) ==
    /\ Len(s) = Blanked + 10
    /\ s[Blanked + 7] = [op |-> "put_int", arg |-> address]
    /\ s[Blanked + 8] = Char(LF) /\ s[Blanked + 9] = Char(End)
    /\ s[Blanked + 10] = Char(LF)

NoAddress(s) ==
    /\ Len(s) = Blanked + 8
    /\ s[Blanked + 7] = Char(End) /\ s[Blanked + 8] = Char(LF)

LEMMA HandlerIs ==
    ASSUME NEW vector, NEW address
    PROVE  LET s == default_intr_handler(vector, address)
           IN  /\ Beginning(s)
               /\ vector = PageFault => Address(s, address)
               /\ vector # PageFault => NoAddress(s)
<1>1. Blanked \in Nat
  BY ConsoleAssumption, ExceptionsAssumption DEF Blanked
<1> DEFINE blanks == put_str([i \in 1 .. Blanked |-> Blank])
<1>2. /\ Len(blanks) = Blanked
      /\ \A i \in 1..Blanked : blanks[i] = Char(Blank)
      /\ blanks \in Seq({Char(Blank)})
  <2>1. blanks = [i \in 1..Blanked |-> Char(Blank)]
    BY <1>1 DEF put_str, Char
  <2> QED BY <1>1, <2>1
<1> HIDE DEF blanks
<1> QED BY <1>1, <1>2
        DEF default_intr_handler, put_str, Number, Char, SetCursorTo,
            Beginning, Address, NoAddress

LEMMA FirstType ==
    ASSUME NEW num \in Numbers
    PROVE  /\ First(num) \in 0..Digits
           /\ num = 0 <=> First(num) = Digits
<1> DEFINE Set == {i \in 0..Digits - 1 : DigitOf(num, i) # 0}
<1>1. Digits \in Nat \ {0} /\ num \in Nat /\ num \in 0..Weight[Digits] - 1
  BY ConsoleAssumption
<1>2. CASE Set = {}
  <2>1. \A i \in 0..Digits - 1 : DigitOf(num, i) = 0
    BY <1>2
  <2>2. First(num) = Digits
    BY <1>1, <2>1, FirstIs
  <2>3. num = 0
    BY <1>1, <2>1, AllDigitsZero
  <2> QED BY <1>1, <2>2, <2>3
<1>3. CASE Set # {}
  <2>1. PICK place \in Set : \A i \in Set : place <= i
    <3>1. Set \in SUBSET Nat
      BY <1>1
    <3> HIDE DEF Set
    <3> QED BY <1>3, <3>1, LeastPlace
  <2>2. place \in 0..Digits /\ place < Digits /\ DigitOf(num, place) # 0
    BY <1>1, <2>1
  <2>3. \A i \in 0..place - 1 : DigitOf(num, i) = 0
    <3> SUFFICES ASSUME NEW i \in 0..place - 1, DigitOf(num, i) # 0
                 PROVE  FALSE
      OBVIOUS
    <3>1. i \in Set /\ i < place
      BY <1>1, <2>2
    <3> QED BY <2>1, <2>2, <3>1
  <2>4. First(num) = place
    BY <1>1, <2>2, <2>3, FirstIs
  <2>5. num # 0
    BY <1>1, <2>2, DigitOfType
  <2> QED BY <1>1, <2>2, <2>4, <2>5
<1> QED BY <1>2, <1>3

LEMMA NumeralIs ==
    ASSUME NEW num \in Numbers
    PROVE  LET s == Numeral(num)
           IN  /\ Len(s) = IF num = 0 THEN 1 ELSE Digits - First(num)
               /\ Len(s) \in 1..Cols - 1
               /\ \A i \in 1..Len(s) :
                     /\ s[i] = IF num = 0 THEN 0
                               ELSE DigitOf(num, First(num) + i - 1)
                     /\ s[i] \in Visible
<1>1. /\ First(num) \in 0..Digits /\ (num = 0 <=> First(num) = Digits)
      /\ Digits \in Nat \ {0} /\ Cols \in Nat /\ Digits < Cols /\ num \in Nat
      /\ 0 \in Visible /\ 0..Radix - 1 \subseteq Visible
  BY FirstType, ConsoleAssumption, ExceptionsAssumption
<1>2. CASE num = 0
  <2>1. Numeral(num) = <<0>>
    BY <1>2 DEF Numeral
  <2>2. Len(Numeral(num)) = 1 /\ Numeral(num)[1] = 0
    BY <2>1
  <2>3. 1 \in 1..Cols - 1 /\ \A i \in 1..1 : i = 1
    BY <1>1
  <2> QED BY <1>1, <1>2, <2>2, <2>3
<1>3. CASE num # 0
  <2> DEFINE n == Digits - First(num)
  <2>1. Numeral(num) = [i \in 1..n |-> DigitOf(num, First(num) + i - 1)]
    BY <1>3 DEF Numeral
  <2>2. n \in 1..Digits
    BY <1>1, <1>3
  <2>3. \A i \in 1..n : DigitOf(num, First(num) + i - 1) \in Visible
    <3> SUFFICES ASSUME NEW i \in 1..n
                 PROVE  DigitOf(num, First(num) + i - 1) \in Visible
      OBVIOUS
    <3>1. First(num) + i - 1 \in 0..Digits - 1
      BY <1>1, <1>3
    <3> QED BY <1>1, <3>1, DigitOfType
  <2> HIDE DEF n
  <2>4. Len(Numeral(num)) = n
    BY <2>1, <2>2
  <2> QED BY <1>1, <1>3, <2>1, <2>2, <2>3, <2>4 DEF n
<1> QED BY <1>2, <1>3

\* Who gives up has a reason and a number.
Reason ==
    message.why \in Vectors \cup {"panic"} /\ message.number \in Numbers

\* A line of one character
IsLine(k, ch) == Len(Lines[k]) = 1 /\ Lines[k][1] = ch

LEMMA PanicLines ==
    ASSUME message.why = "panic"
    PROVE  /\ Len(Lines) = 5 /\ Lines[3] = Numeral(message.number)
           /\ IsLine(1, Begin) /\ IsLine(2, Name) /\ IsLine(4, Name)
           /\ IsLine(5, End)
<1> DEFINE number == Numeral(message.number)
<1> HIDE DEF number
<1>1. Lines = << <<Begin>>, <<Name>>, number, <<Name>>, <<End>> >>
  BY DEF Lines, number
<1> QED BY <1>1 DEF number, IsLine

\* The two lines that the handler always writes
NameLine ==
    /\ IsLine(1, Begin)
    /\ Len(Lines[2]) = Indent + 1 /\ Lines[2][Indent + 1] = Name
    /\ \A i \in 1..Indent : Lines[2][i] = Blank

LEMMA PageFaultLines ==
    ASSUME message.why # "panic", message.why = PageFault
    PROVE  /\ Len(Lines) = 4 /\ Lines[3] = Numeral(message.number)
           /\ NameLine /\ IsLine(4, End)
<1>1. Indent \in Nat
  BY ConsoleAssumption, ExceptionsAssumption
<1> DEFINE indented == [i \in 1 .. Indent |-> Blank] \o <<Name>>
           number == Numeral(message.number)
<1>2. /\ Len(indented) = Indent + 1 /\ indented[Indent + 1] = Name
      /\ \A i \in 1..Indent : indented[i] = Blank
  BY <1>1
<1> HIDE DEF indented, number
<1>3. Lines = << <<Begin>>, indented >> \o <<number>> \o << <<End>> >>
  BY DEF Lines, number, indented
<1>4. /\ Len(Lines) = 4 /\ Lines[1] = <<Begin>> /\ Lines[2] = indented
      /\ Lines[3] = number /\ Lines[4] = <<End>>
  BY <1>3
<1> QED BY <1>2, <1>4 DEF number, IsLine, NameLine

LEMMA OtherLines ==
    ASSUME message.why # "panic", message.why # PageFault
    PROVE  Len(Lines) = 3 /\ NameLine /\ IsLine(3, End)
<1>1. Indent \in Nat
  BY ConsoleAssumption, ExceptionsAssumption
<1> DEFINE indented == [i \in 1 .. Indent |-> Blank] \o <<Name>>
<1>2. /\ Len(indented) = Indent + 1 /\ indented[Indent + 1] = Name
      /\ \A i \in 1..Indent : indented[i] = Blank
  BY <1>1
<1> HIDE DEF indented
<1>3. Lines = << <<Begin>>, indented >> \o <<>> \o << <<End>> >>
  BY DEF Lines, indented
<1>4. /\ Len(Lines) = 3 /\ Lines[1] = <<Begin>> /\ Lines[2] = indented
      /\ Lines[3] = <<End>>
  BY <1>3
<1> QED BY <1>2, <1>4 DEF IsLine, NameLine

LEMMA MessageSame ==
    ASSUME UNCHANGED message
    PROVE  UNCHANGED <<Lines, Program, Places, Before, Reason>>
BY DEF Lines, Program, Places, Before, Reason

Goes(i, k, n) == Places[i][1] = k /\ Places[i][2] = n

Width == Len(Numeral(message.number))

LEMMA PanicPlaces ==
    ASSUME message.why = "panic"
    PROVE  /\ Len(Places) = 13 /\ Goes(1, 0, 0) /\ Goes(2, 0, 0)
           /\ Goes(3, 0, 0) /\ Goes(4, 0, 1) /\ Goes(5, 1, 0)
           /\ Goes(6, 1, 1) /\ Goes(7, 2, 0) /\ Goes(8, 2, Width)
           /\ Goes(9, 3, 0) /\ Goes(10, 3, 1) /\ Goes(11, 4, 0)
           /\ Goes(12, 4, 1) /\ Goes(13, 5, 0)
<1>1. Places = << <<0, 0>>, <<0, 0>>, <<0, 0>>, <<0, 1>>,
                  <<1, 0>>, <<1, 1>>, <<2, 0>>, <<2, Width>>,
                  <<3, 0>>, <<3, 1>>, <<4, 0>>, <<4, 1>>, <<5, 0>> >>
  BY DEF Places, Width
<1>2. Len(Places) = 13 /\ Goes(1, 0, 0) /\ Goes(2, 0, 0) /\ Goes(3, 0, 0)
  BY <1>1 DEF Goes
<1>3. Goes(4, 0, 1) /\ Goes(5, 1, 0) /\ Goes(6, 1, 1) /\ Goes(7, 2, 0)
  BY <1>1 DEF Goes
<1>4. Goes(8, 2, Width) /\ Goes(9, 3, 0) /\ Goes(10, 3, 1)
  BY <1>1 DEF Goes
<1>5. Goes(11, 4, 0) /\ Goes(12, 4, 1) /\ Goes(13, 5, 0)
  BY <1>1 DEF Goes
<1> QED BY <1>2, <1>3, <1>4, <1>5

HandlerPlaces ==
    /\ Goes(1, 0, 0) /\ Goes(2, 0, 1) /\ Goes(3, 1, 0) /\ Goes(4, 1, Indent)
    /\ Goes(5, 1, Indent + 1) /\ Goes(6, 2, 0)

LEMMA PageFaultPlaces ==
    ASSUME message.why # "panic", message.why = PageFault
    PROVE  /\ HandlerPlaces /\ Len(Places) = 10
           /\ Goes(7, 2, Width) /\ Goes(8, 3, 0) /\ Goes(9, 3, 1)
           /\ Goes(10, 4, 0)
<1>1. Places = << <<0, 0>>, <<0, 1>>, <<1, 0>>, <<1, Indent>>,
                  <<1, Indent + 1>>, <<2, 0>> >>
               \o << <<2, Width>>, <<3, 0>>, <<3, 1>>, <<4, 0>> >>
  BY DEF Places, Width
<1>2. Len(Places) = 10 /\ Goes(1, 0, 0) /\ Goes(2, 0, 1) /\ Goes(3, 1, 0)
  BY <1>1 DEF Goes
<1>3. Goes(4, 1, Indent) /\ Goes(5, 1, Indent + 1) /\ Goes(6, 2, 0)
  BY <1>1 DEF Goes
<1>4. Goes(7, 2, Width) /\ Goes(8, 3, 0) /\ Goes(9, 3, 1) /\ Goes(10, 4, 0)
  BY <1>1 DEF Goes
<1> QED BY <1>2, <1>3, <1>4 DEF HandlerPlaces

LEMMA OtherPlaces ==
    ASSUME message.why # "panic", message.why # PageFault
    PROVE  /\ HandlerPlaces /\ Len(Places) = 8
           /\ Goes(7, 2, 1) /\ Goes(8, 3, 0)
<1>1. Places = << <<0, 0>>, <<0, 1>>, <<1, 0>>, <<1, Indent>>,
                  <<1, Indent + 1>>, <<2, 0>> >>
               \o << <<2, 1>>, <<3, 0>> >>
  BY DEF Places
<1>2. Len(Places) = 8 /\ Goes(1, 0, 0) /\ Goes(2, 0, 1) /\ Goes(3, 1, 0)
  BY <1>1 DEF Goes
<1>3. Goes(4, 1, Indent) /\ Goes(5, 1, Indent + 1) /\ Goes(6, 2, 0)
  BY <1>1 DEF Goes
<1>4. Goes(7, 2, 1) /\ Goes(8, 3, 0)
  BY <1>1 DEF Goes
<1> QED BY <1>2, <1>3, <1>4 DEF HandlerPlaces

\* The i-th of the calls that write the lines
Then(i) == Program[Before + i]

LEMMA PanicCalls ==
    ASSUME message.why = "panic"
    PROVE  /\ Before = 0 /\ Len(Program) = 13
           /\ Then(1) = Char(LF) /\ Then(2) = Char(LF) /\ Then(3) = Char(LF)
           /\ Then(4) = Char(Begin) /\ Then(5) = Char(LF)
           /\ Then(6) = Char(Name) /\ Then(7) = Char(LF)
           /\ Then(8) = [op |-> "put_int", arg |-> message.number]
           /\ Then(9) = Char(LF) /\ Then(10) = Char(Name)
           /\ Then(11) = Char(LF) /\ Then(12) = Char(End)
           /\ Then(13) = Char(LF)
<1> DEFINE s == panic_spin(message.number)
<1>1. Program = s /\ Before = 0
  BY DEF Program, Before
<1>2. /\ Len(s) = 13
      /\ s[1] = Char(LF) /\ s[2] = Char(LF) /\ s[3] = Char(LF)
      /\ s[4] = Char(Begin) /\ s[5] = Char(LF) /\ s[6] = Char(Name)
      /\ s[7] = Char(LF) /\ s[8] = [op |-> "put_int", arg |-> message.number]
      /\ s[9] = Char(LF) /\ s[10] = Char(Name) /\ s[11] = Char(LF)
      /\ s[12] = Char(End) /\ s[13] = Char(LF)
  BY PanicIs
<1> HIDE DEF s
<1> QED BY <1>1, <1>2 DEF Then

HandlerCalls ==
    /\ Before = Blanked /\ Blanked \in Nat
    /\ \A i \in 1..Blanked : Program[i] = Char(Blank)
    /\ Then(1) = [op |-> "set_cursor", arg |-> 0]
    /\ Then(2) = Char(Begin) /\ Then(3) = Char(LF)
    /\ Then(4) = [op |-> "set_cursor", arg |-> Cols + Indent]
    /\ Then(5) = Char(Name) /\ Then(6) = Char(LF)

LEMMA HandlerCallsAre ==
    ASSUME message.why # "panic"
    PROVE  HandlerCalls
<1>1. /\ Program = default_intr_handler(message.why, message.number)
      /\ Before = Blanked
  BY DEF Program, Before
<1>2. Beginning(Program)
  BY <1>1, HandlerIs
<1> QED BY <1>1, <1>2 DEF Then, HandlerCalls, Beginning

LEMMA PageFaultCalls ==
    ASSUME message.why # "panic", message.why = PageFault
    PROVE  /\ Len(Program) = Before + 10
           /\ Then(7) = [op |-> "put_int", arg |-> message.number]
           /\ Then(8) = Char(LF) /\ Then(9) = Char(End) /\ Then(10) = Char(LF)
<1>1. /\ Program = default_intr_handler(message.why, message.number)
      /\ Before = Blanked
  BY DEF Program, Before
<1>2. Address(Program, message.number)
  BY <1>1, HandlerIs
<1> QED BY <1>1, <1>2 DEF Then, Address

LEMMA OtherCalls ==
    ASSUME message.why # "panic", message.why # PageFault
    PROVE  /\ Len(Program) = Before + 8
           /\ Then(7) = Char(End) /\ Then(8) = Char(LF)
<1>1. /\ Program = default_intr_handler(message.why, message.number)
      /\ Before = Blanked
  BY DEF Program, Before
<1>2. NoAddress(Program)
  BY <1>1, HandlerIs
<1> QED BY <1>1, <1>2 DEF Then, NoAddress

\* What a call adds to the lines when k of them and n characters of the next
\* are written, so that then there are l and m
Adds(next, k, n, l, m) ==
    /\ k \in Nat /\ k < Len(Lines)
    /\ \/ /\ n \in 0..Cols - 2 /\ n < Len(Lines[k + 1]) /\ l = k /\ m = n + 1
          /\ Lines[k + 1][n + 1] \in Visible
          /\ next = Char(Lines[k + 1][n + 1])
       \/ next = Char(LF) /\ n = Len(Lines[k + 1]) /\ l = k + 1 /\ m = 0
       \/ /\ message.why # "panic" /\ k = 1 /\ n = 0 /\ l = 1 /\ m = Indent
          /\ next = [op |-> "set_cursor", arg |-> Cols + Indent]
       \/ /\ next = [op |-> "put_int", arg |-> message.number]
          /\ Lines[k + 1] = Numeral(message.number)
          /\ n = 0 /\ l = k /\ m = Width

\* The first calls of those that write the lines
Starts(next, i) ==
    /\ Goes(i, 0, 0)
    /\ IF message.why = "panic" THEN next = Char(LF)
       ELSE i = 1 /\ next = [op |-> "set_cursor", arg |-> 0]

Fits(i) ==
    \/ Starts(Then(i), i)
    \/ /\ i > 1
       /\ Adds(Then(i), Places[i - 1][1], Places[i - 1][2],
               Places[i][1], Places[i][2])

LEMMA FitsBy ==
    ASSUME NEW k, NEW n, NEW l, NEW m, NEW i \in Nat, NEW h \in Nat, i = h + 1,
           h > 0, Goes(h, k, n), Goes(i, l, m), Adds(Then(i), k, n, l, m)
    PROVE  Fits(i)
<1>1. i - 1 = h /\ i > 1
  OBVIOUS
<1> QED BY <1>1 DEF Fits, Goes

LEMMA AddsOne ==
    ASSUME NEW k \in Nat, NEW l, l = k + 1, NEW ch \in Visible,
           k < Len(Lines), IsLine(l, ch)
    PROVE  Adds(Char(ch), k, 0, k, 1) /\ Adds(Char(LF), k, 1, l, 0)
<1>1. 0 \in 0..Cols - 2
  BY ConsoleAssumption, ExceptionsAssumption
<1>2. 0 < 1 /\ 0 + 1 = 1
  OBVIOUS
<1> QED BY <1>1, <1>2 DEF Adds, IsLine

LEMMA AddsNumber ==
    ASSUME NEW k \in Nat, NEW l, l = k + 1, k < Len(Lines),
           Lines[l] = Numeral(message.number)
    PROVE  /\ Adds([op |-> "put_int", arg |-> message.number], k, 0, k, Width)
           /\ Adds(Char(LF), k, Width, l, 0)
BY DEF Adds, Width

LEMMA PanicFits ==
    ASSUME message.why = "panic"
    PROVE  \A i \in 1..Len(Places) : Fits(i)
<1>1. {Begin, Name, End} \subseteq Visible
  BY ExceptionsAssumption
<1>2. Fits(1) /\ Fits(2) /\ Fits(3)
  BY PanicCalls, PanicPlaces DEF Starts, Fits
<1>3. Adds(Then(4), 0, 0, 0, 1) /\ Adds(Then(5), 0, 1, 1, 0)
  <2>1. 0 + 1 = 1 /\ 0 < 5 /\ 0 \in Nat
    OBVIOUS
  <2> QED BY <1>1, <2>1, PanicCalls, PanicLines, AddsOne
<1>4. Adds(Then(6), 1, 0, 1, 1) /\ Adds(Then(7), 1, 1, 2, 0)
  <2>1. 1 + 1 = 2 /\ 1 < 5 /\ 1 \in Nat
    OBVIOUS
  <2> QED BY <1>1, <2>1, PanicCalls, PanicLines, AddsOne
<1>5. Adds(Then(8), 2, 0, 2, Width) /\ Adds(Then(9), 2, Width, 3, 0)
  <2>1. 2 + 1 = 3 /\ 2 < 5
    OBVIOUS
  <2> QED BY <2>1, PanicCalls, PanicLines, AddsNumber
<1>6. Adds(Then(10), 3, 0, 3, 1) /\ Adds(Then(11), 3, 1, 4, 0)
  <2>1. 3 + 1 = 4 /\ 3 < 5 /\ 3 \in Nat
    OBVIOUS
  <2> QED BY <1>1, <2>1, PanicCalls, PanicLines, AddsOne
<1>7. Adds(Then(12), 4, 0, 4, 1) /\ Adds(Then(13), 4, 1, 5, 0)
  <2>1. 4 + 1 = 5 /\ 4 < 5 /\ 4 \in Nat
    OBVIOUS
  <2> QED BY <1>1, <2>1, PanicCalls, PanicLines, AddsOne
<1>8. Fits(4) /\ Fits(5) /\ Fits(6) /\ Fits(7)
  BY <1>3, <1>4, PanicPlaces, FitsBy
<1>9. Fits(8) /\ Fits(9) /\ Fits(10)
  BY <1>5, <1>6, PanicPlaces, FitsBy
<1>10. Fits(11) /\ Fits(12) /\ Fits(13)
  BY <1>6, <1>7, PanicPlaces, FitsBy
<1>11. \A i \in 1..13 : \/ i = 1 \/ i = 2 \/ i = 3 \/ i = 4 \/ i = 5 \/ i = 6
                        \/ i = 7 \/ i = 8 \/ i = 9 \/ i = 10 \/ i = 11
                        \/ i = 12 \/ i = 13
  OBVIOUS
<1> QED BY <1>2, <1>8, <1>9, <1>10, <1>11, PanicPlaces

\* The calls up to the end of the name
LEMMA NameFits ==
    ASSUME HandlerCalls, HandlerPlaces, NameLine, message.why # "panic",
           Len(Lines) >= 3
    PROVE  Fits(1) /\ Fits(2) /\ Fits(3) /\ Fits(4) /\ Fits(5) /\ Fits(6)
<1>1. {Begin, Name, End} \subseteq Visible
  BY ExceptionsAssumption
<1>2. /\ Then(1) = [op |-> "set_cursor", arg |-> 0]
      /\ Then(2) = Char(Begin) /\ Then(3) = Char(LF)
      /\ Then(4) = [op |-> "set_cursor", arg |-> Cols + Indent]
      /\ Then(5) = Char(Name) /\ Then(6) = Char(LF)
  BY DEF HandlerCalls
<1>3. /\ Goes(1, 0, 0) /\ Goes(2, 0, 1) /\ Goes(3, 1, 0) /\ Goes(4, 1, Indent)
      /\ Goes(5, 1, Indent + 1) /\ Goes(6, 2, 0)
  BY DEF HandlerPlaces
<1>4. Fits(1)
  BY <1>2, <1>3 DEF Starts, Fits
<1>5. Adds(Then(2), 0, 0, 0, 1) /\ Adds(Then(3), 0, 1, 1, 0)
  BY <1>1, <1>2, AddsOne DEF NameLine
<1>6. /\ Adds(Then(4), 1, 0, 1, Indent)
      /\ Adds(Then(5), 1, Indent, 1, Indent + 1)
      /\ Adds(Then(6), 1, Indent + 1, 2, 0)
  <2>1. 1 < Len(Lines) /\ 1 + 1 = 2 /\ 1 \in Nat
    OBVIOUS
  <2>2. Indent \in 0..Cols - 2 /\ Indent < Indent + 1
    BY ConsoleAssumption, ExceptionsAssumption
  <2>3. Len(Lines[2]) = Indent + 1 /\ Lines[2][Indent + 1] = Name
    BY DEF NameLine
  <2> QED BY <1>1, <1>2, <2>1, <2>2, <2>3 DEF Adds
<1>7. Fits(2) /\ Fits(3) /\ Fits(4)
  BY <1>3, <1>5, <1>6, FitsBy
<1>8. Fits(5) /\ Fits(6)
  BY <1>3, <1>6, FitsBy
<1> QED BY <1>4, <1>7, <1>8

LEMMA PageFaultFits ==
    ASSUME message.why # "panic", message.why = PageFault
    PROVE  \A i \in 1..Len(Places) : Fits(i)
<1>1. {Begin, Name, End} \subseteq Visible
  BY ExceptionsAssumption
<1>2. Len(Lines) = 4 /\ HandlerPlaces /\ NameLine
  BY PageFaultLines, PageFaultPlaces
<1>3. Fits(1) /\ Fits(2) /\ Fits(3) /\ Fits(4) /\ Fits(5) /\ Fits(6)
  BY <1>2, NameFits, HandlerCallsAre
<1>4. Adds(Then(7), 2, 0, 2, Width) /\ Adds(Then(8), 2, Width, 3, 0)
  <2>1. 2 + 1 = 3 /\ 2 < 4
    OBVIOUS
  <2> QED BY <2>1, PageFaultCalls, PageFaultLines, AddsNumber
<1>5. Adds(Then(9), 3, 0, 3, 1) /\ Adds(Then(10), 3, 1, 4, 0)
  <2>1. 3 + 1 = 4 /\ 3 < 4 /\ 3 \in Nat
    OBVIOUS
  <2> QED BY <1>1, <2>1, PageFaultCalls, PageFaultLines, AddsOne
<1>6. Goes(6, 2, 0)
  BY <1>2 DEF HandlerPlaces
<1>7. Fits(7) /\ Fits(8) /\ Fits(9) /\ Fits(10)
  BY <1>4, <1>5, <1>6, PageFaultPlaces, FitsBy
<1>8. \A i \in 1..10 : \/ i = 1 \/ i = 2 \/ i = 3 \/ i = 4 \/ i = 5 \/ i = 6
                       \/ i = 7 \/ i = 8 \/ i = 9 \/ i = 10
  OBVIOUS
<1> QED BY <1>3, <1>7, <1>8, PageFaultPlaces

LEMMA OtherFits ==
    ASSUME message.why # "panic", message.why # PageFault
    PROVE  \A i \in 1..Len(Places) : Fits(i)
<1>1. {Begin, Name, End} \subseteq Visible
  BY ExceptionsAssumption
<1>2. Len(Lines) = 3 /\ HandlerPlaces /\ NameLine
  BY OtherLines, OtherPlaces
<1>3. Fits(1) /\ Fits(2) /\ Fits(3) /\ Fits(4) /\ Fits(5) /\ Fits(6)
  BY <1>2, NameFits, HandlerCallsAre
<1>4. Adds(Then(7), 2, 0, 2, 1) /\ Adds(Then(8), 2, 1, 3, 0)
  <2>1. 2 + 1 = 3 /\ 2 < 3 /\ 2 \in Nat
    OBVIOUS
  <2> QED BY <1>1, <2>1, OtherCalls, OtherLines, AddsOne
<1>5. Goes(6, 2, 0)
  BY <1>2 DEF HandlerPlaces
<1>6. Fits(7) /\ Fits(8)
  BY <1>4, <1>5, OtherPlaces, FitsBy
<1>7. \A i \in 1..8 : \/ i = 1 \/ i = 2 \/ i = 3 \/ i = 4 \/ i = 5 \/ i = 6
                      \/ i = 7 \/ i = 8
  OBVIOUS
<1> QED BY <1>3, <1>6, <1>7, OtherPlaces

\* How many calls there are, and where the last one leaves the cursor
ProgramFits ==
    /\ Before \in Nat /\ Len(Places) \in Nat \ {0}
    /\ Len(Program) = Before + Len(Places)
    /\ \A i \in 1..Len(Places) : Fits(i)
    /\ Goes(Len(Places), Len(Lines), 0)
    /\ Len(Lines) \in 3..5

LEMMA CallsFit == ProgramFits
<1>1. CASE message.why = "panic"
  <2>1. Before \in Nat
    BY <1>1, PanicCalls
  <2>2. /\ Len(Places) \in Nat \ {0} /\ Len(Program) = Before + Len(Places)
        /\ Goes(Len(Places), Len(Lines), 0) /\ Len(Lines) \in 3..5
    <3>1. /\ Len(Places) = 13 /\ Len(Lines) = 5 /\ Goes(13, 5, 0)
          /\ Len(Program) = Before + 13
      BY <1>1, <2>1, PanicCalls, PanicPlaces, PanicLines
    <3>2. Goes(Len(Places), Len(Lines), 0)
      BY <3>1, Zenon
    <3> QED BY <3>1, <3>2
  <2> QED BY <1>1, <2>1, <2>2, PanicFits DEF ProgramFits
<1>2. CASE message.why # "panic" /\ message.why = PageFault
  <2>1. Before \in Nat
    BY <1>2, HandlerCallsAre DEF HandlerCalls
  <2>2. /\ Len(Places) \in Nat \ {0} /\ Len(Program) = Before + Len(Places)
        /\ Goes(Len(Places), Len(Lines), 0) /\ Len(Lines) \in 3..5
    <3>1. /\ Len(Places) = 10 /\ Len(Lines) = 4 /\ Goes(10, 4, 0)
          /\ Len(Program) = Before + 10
      BY <1>2, <2>1, PageFaultCalls, PageFaultPlaces, PageFaultLines
    <3>2. Goes(Len(Places), Len(Lines), 0)
      BY <3>1, Zenon
    <3> QED BY <3>1, <3>2
  <2> QED BY <1>2, <2>1, <2>2, PageFaultFits DEF ProgramFits
<1>3. CASE message.why # "panic" /\ message.why # PageFault
  <2>1. Before \in Nat
    BY <1>3, HandlerCallsAre DEF HandlerCalls
  <2>2. /\ Len(Places) \in Nat \ {0} /\ Len(Program) = Before + Len(Places)
        /\ Goes(Len(Places), Len(Lines), 0) /\ Len(Lines) \in 3..5
    <3>1. /\ Len(Places) = 8 /\ Len(Lines) = 3 /\ Goes(8, 3, 0)
          /\ Len(Program) = Before + 8
      BY <1>3, <2>1, OtherCalls, OtherPlaces, OtherLines
    <3>2. Goes(Len(Places), Len(Lines), 0)
      BY <3>1, Zenon
    <3> QED BY <3>1, <3>2
  <2> QED BY <1>3, <2>1, <2>2, OtherFits DEF ProgramFits
<1> QED BY <1>1, <1>2, <1>3

-----------------------------------------------------------------------------
(* What is drawn is what is to be written *)

WrittenAt(top, k, n) ==
    /\ message.why # "panic" => top = 0
    /\ Row = top + k /\ Col = n
    /\ \A i \in 1 .. k, c \in 0 .. Cols - 1 :
          View(text)[top + i - 1][c] =
             IF c < Len(Lines[i]) THEN Lines[i][c + 1] ELSE Blank
    /\ \A c \in 0 .. n - 1 : View(text)[Row][c] = Lines[k + 1][c + 1]
    /\ BlankBehind(IF message.why = "panic" THEN Rows ELSE MessageRows)

LEMMA WrittenIs ==
    ASSUME NEW k, NEW n
    PROVE  Written(k, n) <=> \E top \in 0 .. Rows - 1 : WrittenAt(top, k, n)
BY DEF Written, WrittenAt

\* The rows where the message may come
Depth == IF message.why = "panic" THEN Rows ELSE MessageRows

LEMMA DepthIs ==
    /\ Depth \in 0..Rows
    /\ message.why = "panic" => Depth = Rows /\ Len(Lines) = 5 /\ Rows > 5
    /\ message.why # "panic" => /\ Depth = MessageRows /\ Len(Lines) <= Depth
                                /\ Depth < Rows
<1>1. Rows \in Nat /\ MessageRows \in 4..Rows - 1 /\ Rows > 5
  BY ConsoleAssumption, ExceptionsAssumption
<1>2. message.why # "panic" => Len(Lines) = 3 \/ Len(Lines) = 4
  BY PageFaultLines, OtherLines
<1>3. message.why = "panic" => Len(Lines) = 5
  BY PanicLines
<1>4. CASE message.why = "panic"
  <2>1. Depth = Rows
    BY <1>4 DEF Depth
  <2> QED BY <1>1, <1>3, <1>4, <2>1
<1>5. CASE message.why # "panic"
  <2>1. Depth = MessageRows
    BY <1>5 DEF Depth
  <2>2. Depth \in 0..Rows /\ Depth < Rows /\ 3 <= Depth /\ 4 <= Depth
    BY <1>1, <2>1
  <2>3. Len(Lines) <= Depth
    BY <1>2, <1>5, <2>2
  <2> QED BY <1>5, <2>1, <2>2, <2>3
<1> QED BY <1>4, <1>5

LEMMA WrittenType ==
    ASSUME NEW w, Writer = {w}, IInv, UNCHANGED <<program, message>>,
           DrawVisible(w), NEW k \in Nat, NEW n \in 0..Cols - 2,
           k < Len(Lines), call[w].cl = Lines[k + 1][n + 1], Written(k, n)
    PROVE  Written(k, n + 1)'
<1>1. PICK top \in 0..Rows - 1 : WrittenAt(top, k, n)
  BY WrittenIs
<1> DEFINE ch == Lines[k + 1][n + 1]
           depth == Depth
<1>2. Row = top + k /\ Col = n /\ (message.why # "panic" => top = 0)
  BY <1>1 DEF WrittenAt
<1>3. Rows \in Nat /\ Cols \in Nat /\ Row \in 0..Rows - 1 /\ Col \in 0..Cols - 1
  BY PlaceType, Sizes
<1>4. /\ Row' = Row /\ Col' = n + 1
      /\ \A r \in 0..Rows - 1, c \in 0..Cols - 1 :
            View(text')[r][c] = IF r = Row /\ c = n THEN ch
                                ELSE View(text)[r][c]
  <2>1. Col < Cols - 1
    BY <1>2, <1>3
  <2>2. ~(Row = Rows - 1 /\ Col = Cols - 1)
    BY <1>3, <2>1
  <2> QED BY <1>2, <2>1, <2>2, TypeShows
<1>5. Lines' = Lines /\ message' = message
  BY MessageSame
<1> HIDE DEF ch
<1>6. ASSUME NEW i \in 1..k, NEW c \in 0..Cols - 1
      PROVE  View(text')[top + i - 1][c] =
                IF c < Len(Lines[i]) THEN Lines[i][c + 1] ELSE Blank
  <2>1. top + i - 1 \in 0..Rows - 1 /\ top + i - 1 # Row
    BY <1>2, <1>3
  <2>2. View(text)[top + i - 1][c] =
           IF c < Len(Lines[i]) THEN Lines[i][c + 1] ELSE Blank
    BY <1>1 DEF WrittenAt
  <2> QED BY <1>4, <2>1, <2>2
<1>7. ASSUME NEW c \in 0..(n + 1) - 1
      PROVE  View(text')[Row][c] = Lines[k + 1][c + 1]
  <2>1. c \in 0..Cols - 1 /\ (c # n => c \in 0..n - 1)
    BY <1>3
  <2>2. c # n => View(text)[Row][c] = Lines[k + 1][c + 1]
    BY <1>1, <2>1 DEF WrittenAt
  <2> QED BY <1>3, <1>4, <2>1, <2>2 DEF ch
<1>8. BlankBehind(Depth)'
  <2>1. BlankBehind(depth) /\ depth \in 0..Rows /\ Depth' = depth
    BY <1>1, <1>5, DepthIs DEF WrittenAt, Depth
  <2> HIDE DEF depth
  <2>2. ASSUME NEW r \in 0..depth - 1, NEW c \in 0..Cols - 1,
               r > Row' \/ (r = Row' /\ c >= Col')
        PROVE  View(text')[r][c] = Blank
    <3>1. r \in 0..Rows - 1 /\ ~(r = Row /\ c = n)
      BY <1>3, <1>4, <2>1, <2>2
    <3>2. View(text)[r][c] = Blank
      BY <1>2, <1>3, <1>4, <2>1, <2>2 DEF BlankBehind
    <3> QED BY <1>4, <3>1, <3>2
  <2> QED BY <2>1, <2>2 DEF BlankBehind
<1>9. WrittenAt(top, k, n + 1)'
  BY <1>2, <1>4, <1>5, <1>6, <1>7, <1>8 DEF WrittenAt, Depth
<1>10. Written(k, n + 1)' <=> \E x \in 0 .. Rows - 1 : WrittenAt(x, k, n + 1)'
  BY DEF Written, WrittenAt
<1> QED BY <1>9, <1>10

LEMMA WrittenLine ==
    ASSUME NEW w, Writer = {w}, IInv, UNCHANGED <<program, message>>,
           DrawNewLine(w), NEW k \in Nat, k < Len(Lines),
           NEW n, n = Len(Lines[k + 1]), Written(k, n)
    PROVE  Written(k + 1, 0)'
<1>1. PICK top \in 0..Rows - 1 : WrittenAt(top, k, n)
  BY WrittenIs
<1>2. Row = top + k /\ Col = n /\ (message.why # "panic" => top = 0)
  BY <1>1 DEF WrittenAt
<1>3. Rows \in Nat /\ Cols \in Nat /\ Row \in 0..Rows - 1 /\ Col \in 0..Cols - 1
  BY PlaceType, Sizes
<1>4. Lines' = Lines /\ message' = message
  BY MessageSame
<1> DEFINE depth == Depth
<1>5. BlankBehind(depth) /\ depth \in 0..Rows /\ Depth' = depth /\ Row < depth
  BY <1>1, <1>2, <1>3, <1>4, DepthIs DEF WrittenAt, Depth
<1>6. Row = Rows - 1 => top > 0 /\ depth = Rows /\ message.why = "panic"
  BY <1>2, <1>3, <1>5, DepthIs
<1> HIDE DEF depth
<1>7. ASSUME NEW i \in 1..k + 1, NEW c \in 0..Cols - 1
      PROVE  View(text)[top + i - 1][c] =
                IF c < Len(Lines[i]) THEN Lines[i][c + 1] ELSE Blank
  <2>1. CASE i \in 1..k
    BY <1>1, <2>1 DEF WrittenAt
  <2>2. CASE i = k + 1
    <3>1. top + i - 1 = Row
      BY <1>2, <1>3, <2>2
    <3>2. c < n => View(text)[Row][c] = Lines[k + 1][c + 1]
      <4>1. c < n => c \in 0..n - 1
        BY <1>2, <1>3
      <4> QED BY <1>1, <4>1 DEF WrittenAt
    <3>3. ~(c < n) => View(text)[Row][c] = Blank
      BY <1>2, <1>3, <1>5 DEF BlankBehind
    <3> QED BY <2>2, <3>1, <3>2, <3>3
  <2> QED BY <2>1, <2>2
<1>8. CASE Row < Rows - 1
  <2>1. /\ Row' = Row + 1 /\ Col' = 0
        /\ \A r \in 0..Rows - 1, c \in 0..Cols - 1 :
              View(text')[r][c] = View(text)[r][c]
    BY <1>8, NewLineShows
  <2>2. ASSUME NEW i \in 1..k + 1, NEW c \in 0..Cols - 1
        PROVE  View(text')[top + i - 1][c] =
                  IF c < Len(Lines[i]) THEN Lines[i][c + 1] ELSE Blank
    <3>1. top + i - 1 \in 0..Rows - 1
      BY <1>2, <1>3
    <3> QED BY <1>7, <2>1, <3>1
  <2>3. BlankBehind(Depth)'
    <3>1. ASSUME NEW r \in 0..depth - 1, NEW c \in 0..Cols - 1,
                 r > Row' \/ (r = Row' /\ c >= Col')
          PROVE  View(text')[r][c] = Blank
      <4>1. r \in 0..Rows - 1 /\ r > Row
        BY <1>3, <1>5, <2>1, <3>1
      <4>2. View(text)[r][c] = Blank
        BY <1>5, <4>1 DEF BlankBehind
      <4> QED BY <2>1, <4>1, <4>2
    <3> QED BY <1>5, <3>1 DEF BlankBehind
  <2>4. \A c \in 0..0 - 1 : FALSE
    OBVIOUS
  <2>5. Row' = top + (k + 1)
    BY <1>2, <1>3, <2>1
  <2>6. WrittenAt(top, k + 1, 0)'
    BY <1>2, <1>4, <2>1, <2>2, <2>3, <2>4, <2>5 DEF WrittenAt, Depth
  <2>7. Written(k + 1, 0)' <=> \E x \in 0 .. Rows - 1 : WrittenAt(x, k + 1, 0)'
    BY DEF Written, WrittenAt
  <2> QED BY <2>6, <2>7
<1>9. CASE Row = Rows - 1
  <2> DEFINE up == top - 1
  <2>0. up \in 0..Rows - 1
    BY <1>3, <1>6, <1>9
  <2>1. /\ Row' = Row /\ Col' = 0
        /\ \A r \in 0..Rows - 1, c \in 0..Cols - 1 :
              View(text')[r][c] = IF r < Rows - 1 THEN View(text)[r + 1][c]
                                  ELSE Blank
    <3>1. ~(Row < Rows - 1)
      BY <1>3, <1>9
    <3> QED BY <3>1, NewLineShows
  <2>2. ASSUME NEW i \in 1..k + 1, NEW c \in 0..Cols - 1
        PROVE  View(text')[up + i - 1][c] =
                  IF c < Len(Lines[i]) THEN Lines[i][c + 1] ELSE Blank
    <3>1. /\ up + i - 1 \in 0..Rows - 1 /\ up + i - 1 < Rows - 1
          /\ (up + i - 1) + 1 = top + i - 1
      BY <1>2, <1>3, <1>6, <1>9
    <3> DEFINE r == up + i - 1
    <3>2. View(text')[r][c] = View(text)[r + 1][c] /\ r + 1 = top + i - 1
      <4> HIDE DEF up
      <4>1. r \in 0..Rows - 1 /\ r < Rows - 1 /\ r + 1 = top + i - 1
        BY <3>1
      <4> HIDE DEF r
      <4> QED BY <2>1, <4>1
    <3> HIDE DEF r
    <3>3. View(text')[r][c] =
             IF c < Len(Lines[i]) THEN Lines[i][c + 1] ELSE Blank
      BY <1>7, <3>2
    <3> QED BY <3>3 DEF r
  <2>3. BlankBehind(Depth)'
    <3>1. ASSUME NEW r \in 0..depth - 1, NEW c \in 0..Cols - 1,
                 r > Row' \/ (r = Row' /\ c >= Col')
          PROVE  View(text')[r][c] = Blank
      <4>1. r = Rows - 1 /\ r \in 0..Rows - 1 /\ ~(r < Rows - 1)
        BY <1>3, <1>5, <1>9, <2>1, <3>1
      <4> QED BY <2>1, <4>1
    <3>2. PICK rows : rows = depth
      OBVIOUS
    <3>3. BlankBehind(rows)'
      BY <3>1, <3>2 DEF BlankBehind
    <3>4. Depth' = rows
      BY <1>5, <3>2
    <3> QED BY <3>3, <3>4 DEF BlankBehind
  <2>4. \A c \in 0..0 - 1 : FALSE
    OBVIOUS
  <2>5. Row' = up + (k + 1) /\ message.why = "panic"
    <3>1. message.why = "panic"
      BY <1>6, <1>9
    <3>2. Row' = top + k /\ top \in Nat /\ k \in Nat
      BY <1>2, <2>1
    <3>3. up = top - 1
      OBVIOUS
    <3> HIDE DEF up
    <3> QED BY ONLY <3>1, <3>2, <3>3
  <2> HIDE DEF up
  <2>6. WrittenAt(up, k + 1, 0)'
    BY <1>4, <2>1, <2>2, <2>3, <2>4, <2>5 DEF WrittenAt, Depth
  <2>7. Written(k + 1, 0)' <=> \E x \in 0 .. Rows - 1 : WrittenAt(x, k + 1, 0)'
    BY DEF Written, WrittenAt
  <2> QED BY <2>0, <2>6, <2>7
<1> QED BY <1>3, <1>8, <1>9

\* panic_spin begins on a line of its own.
LEMMA WrittenStart ==
    ASSUME NEW w, Writer = {w}, IInv, UNCHANGED <<program, message>>,
           DrawNewLine(w), message.why = "panic", BlankBehind(Rows)
    PROVE  Written(0, 0)'
<1>1. BlankBehind(Rows)' /\ IInv'
  BY DrawKeepsBlank, DrawNewLineIs DEF Draw
<1>2. Col' = 0 /\ Row' \in 0..Rows - 1
  BY NewLineShows, PlaceType, Sizes
<1>3. PICK top \in 0..Rows - 1 : top = Row'
  BY <1>2
<1>4. top = top + 0
  OBVIOUS
<1>5. /\ \A i \in 1..0 : FALSE
      /\ \A c \in 0..0 - 1 : FALSE
  OBVIOUS
<1>6. WrittenAt(top, 0, 0)'
  BY <1>1, <1>2, <1>3, <1>4, <1>5 DEF WrittenAt
<1>7. Written(0, 0)' <=> \E x \in 0 .. Rows - 1 : WrittenAt(x, 0, 0)'
  BY DEF Written, WrittenAt
<1> QED BY <1>6, <1>7

-----------------------------------------------------------------------------
(* What the screen shows between two calls *)

LEMMA BlankedIs ==
    /\ Blanked \in 0..Cells - Cols
    /\ Blanked \div Cols = MessageRows /\ Blanked % Cols = 0
    /\ MessageRows \in 0..Rows - 1 /\ 0 \in 0..Cols - 1
    /\ (Cols + Indent) \div Cols = 1 /\ (Cols + Indent) % Cols = Indent
    /\ Indent \in 0..Cols - 1 /\ 0 \div Cols = 0 /\ 0 % Cols = 0
<1>1. /\ MessageRows \in 0..Rows - 1 /\ MessageRows < Rows
      /\ Indent \in 0..Cols - 1 /\ 0 \in 0..Cols - 1
      /\ Rows \in Nat /\ Cols \in Nat \ {0} /\ 1 \in 0..Rows - 1
  BY ConsoleAssumption, ExceptionsAssumption
<1>2. /\ (MessageRows * Cols + 0) \div Cols = MessageRows
      /\ (MessageRows * Cols + 0) % Cols = 0
      /\ MessageRows * Cols + 0 \in 0..Cells - 1
  BY <1>1, CellAt
<1>3. (1 * Cols + Indent) \div Cols = 1 /\ (1 * Cols + Indent) % Cols = Indent
  BY <1>1, CellAt
<1>4. MessageRows * Cols + Cols <= Rows * Cols
  BY ONLY <1>1, Products
<1>5. Blanked \in Nat /\ Blanked + 0 = Blanked /\ Blanked + Cols <= Cells
  <2> DEFINE x == MessageRows * Cols
  <2>1. x + 0 \in 0..Cells - 1 /\ x \in Nat
    BY <1>1, <1>2
  <2> HIDE DEF x
  <2>2. x \in Nat /\ x + 0 = x
    BY <2>1
  <2> QED BY <1>4, <2>2 DEF x, Blanked, Cells
<1>6. 0 \div Cols = 0 /\ 0 % Cols = 0
  BY <1>1
<1>7. Cells \in Nat
  BY Sizes
<1>8. Blanked \in 0..Cells - Cols
  BY <1>1, <1>5, <1>7
<1>9. Blanked \div Cols = MessageRows /\ Blanked % Cols = 0
  BY <1>2, <1>5 DEF Blanked
<1>10. 1 * Cols = Cols
  BY <1>1
<1> QED BY <1>1, <1>3, <1>6, <1>8, <1>9, <1>10

\* The handler's blanks
LEMMA BlankingGoesOn ==
    ASSUME NEW w, Writer = {w}, IInv, UNCHANGED program, DrawVisible(w),
           call[w].cl = Blank, NEW m \in Nat, m < Blanked,
           Position = m, BlankBefore
    PROVE  Position' = m + 1 /\ BlankBefore'
<1>1. /\ Rows \in Nat /\ Cols \in Nat
      /\ Row \in 0..Rows - 1 /\ Col \in 0..Cols - 1
      /\ Cells \in Nat /\ Blanked \in 0..Cells - Cols /\ Cols > 0
  <2>1. Cols \in Nat \ {0}
    BY ConsoleAssumption
  <2>2. Blanked \in 0..Cells - Cols
    BY BlankedIs
  <2>3. Row \in 0..Rows - 1 /\ Col \in 0..Cols - 1
    BY PlaceType
  <2>4. Rows \in Nat /\ Cells \in Nat
    BY Sizes
  <2> QED BY <2>1, <2>2, <2>3, <2>4
<1>2. Position + 1 < Cells /\ Position < Cells - Cols
  BY <1>1
<1>3. Position' = m + 1
  BY <1>2, DrawVisibleIs, DrawnPosition
<1>4. Row < Rows - 1
  <2>1. Position = Row * Cols + Col
    BY PlaceType
  <2>2. Row = Rows - 1 => Row * Cols + Col >= Cells - Cols
    BY <1>1, CellAt
  <2> DEFINE x == Row * Cols + Col
  <2>3. x < Cells - Cols /\ x \in Nat
    BY <1>1, <1>2, <2>1
  <2> HIDE DEF x
  <2> QED BY <1>1, <2>2, <2>3 DEF x
<1>5. /\ \A r \in 0..Rows - 1, c \in 0..Cols - 1 :
            View(text')[r][c] = IF r = Row /\ c = Col THEN Blank
                                ELSE View(text)[r][c]
      /\ Col < Cols - 1 => Row' = Row /\ Col' = Col + 1
      /\ Col = Cols - 1 => Row' = Row + 1 /\ Col' = 0
  <2>1. ~(Row = Rows - 1 /\ Col = Cols - 1)
    BY <1>1, <1>4
  <2> QED BY <1>4, <2>1, TypeShows
<1>6. ASSUME NEW r \in 0..Rows - 1, NEW c \in 0..Cols - 1,
             r < Row' \/ (r = Row' /\ c < Col')
      PROVE  View(text')[r][c] = Blank
  <2>1. (r = Row /\ c = Col) \/ r < Row \/ (r = Row /\ c < Col)
    BY <1>1, <1>5, <1>6
  <2>2. r < Row \/ (r = Row /\ c < Col) => View(text)[r][c] = Blank
    BY DEF BlankBefore
  <2> QED BY <1>5, <2>1, <2>2
<1> QED BY <1>3, <1>6 DEF BlankBefore

\* When they are done the handler goes back to the top.
LEMMA WrittenFromTop ==
    ASSUME UNCHANGED <<text, message>>, message.why # "panic",
           Position = Blanked, BlankBefore, Position' = 0
    PROVE  Written(0, 0)'
<1>1. /\ Row = MessageRows /\ Col = 0 /\ Row' = 0 /\ Col' = 0
      /\ MessageRows \in 0..Rows - 1 /\ Rows \in Nat
  BY BlankedIs, Sizes DEF Row, Col
<1>2. BlankBehind(MessageRows)'
  <2> SUFFICES ASSUME NEW r \in 0..MessageRows - 1, NEW c \in 0..Cols - 1
               PROVE  View(text)[r][c] = Blank
    BY DEF BlankBehind, View
  <2>1. r \in 0..Rows - 1 /\ r < Row
    BY <1>1
  <2> QED BY <2>1 DEF BlankBefore
<1>3. PICK top \in 0..Rows - 1 : top = 0
  BY <1>1
<1>4. /\ \A i \in 1..0 : FALSE
      /\ \A c \in 0..0 - 1 : FALSE
      /\ Row' = top + 0 /\ message'.why # "panic"
  BY <1>1, <1>3
<1>5. WrittenAt(top, 0, 0)'
  BY <1>1, <1>2, <1>3, <1>4 DEF WrittenAt
<1>6. Written(0, 0)' <=> \E x \in 0 .. Rows - 1 : WrittenAt(x, 0, 0)'
  BY DEF Written, WrittenAt
<1> QED BY <1>5, <1>6

\* The name is written behind blanks that are there already.
LEMMA WrittenIndent ==
    ASSUME UNCHANGED <<text, message>>, message.why # "panic", Written(1, 0),
           Position' = Cols + Indent
    PROVE  Written(1, Indent)'
<1>1. PICK top \in 0..Rows - 1 : WrittenAt(top, 1, 0)
  BY WrittenIs
<1>2. /\ top = 0 /\ Row = 1 /\ Col = 0 /\ Row' = 1 /\ Col' = Indent
      /\ MessageRows \in 4..Rows - 1 /\ Rows \in Nat /\ Cols \in Nat
      /\ Indent \in 0..Cols - 1
  BY <1>1, BlankedIs, Sizes, ExceptionsAssumption DEF WrittenAt, Row, Col
<1>3. Lines' = Lines /\ message' = message
  BY MessageSame
<1>4. NameLine
  BY PageFaultLines, OtherLines
<1>5. BlankBehind(MessageRows)
  BY <1>1 DEF WrittenAt
<1>6. ASSUME NEW c \in 0..Indent - 1
      PROVE  View(text)[1][c] = Lines[1 + 1][c + 1]
  <2>1. c \in 0..Cols - 1 /\ 1 \in 0..MessageRows - 1 /\ c >= Col /\ Row = 1
        /\ c + 1 \in 1..Indent /\ 1 + 1 = 2
    BY <1>2
  <2>2. View(text)[1][c] = Blank
    BY <1>5, <2>1 DEF BlankBehind
  <2> QED BY <1>4, <2>1, <2>2 DEF NameLine
<1>7. BlankBehind(MessageRows)'
  <2> SUFFICES ASSUME NEW r \in 0..MessageRows - 1, NEW c \in 0..Cols - 1,
                      r > Row' \/ (r = Row' /\ c >= Col')
               PROVE  View(text)[r][c] = Blank
    BY DEF BlankBehind, View
  <2>1. r > Row \/ (r = Row /\ c >= Col)
    BY <1>2
  <2> QED BY <1>5, <2>1 DEF BlankBehind
<1>8. \A i \in 1 .. 1, c \in 0 .. Cols - 1 :
         View(text)[top + i - 1][c] =
            IF c < Len(Lines[i]) THEN Lines[i][c + 1] ELSE Blank
  BY <1>1 DEF WrittenAt
<1>9. View(text') = View(text) /\ Row' = top + 1 /\ message'.why # "panic"
  BY <1>2 DEF View
<1>10. WrittenAt(top, 1, Indent)'
  BY <1>2, <1>3, <1>6, <1>7, <1>8, <1>9 DEF WrittenAt
<1>11. Written(1, Indent)' <=> \E x \in 0 .. Rows - 1 : WrittenAt(x, 1, Indent)'
  BY DEF Written, WrittenAt
<1> QED BY <1>10, <1>11

LEMMA StageIs ==
    ASSUME NEW m \in Nat, NEW i \in Nat \ {0}, NEW k, NEW n, Before \in Nat,
           m = Before + i, Goes(i, k, n)
    PROVE  Stage(m) <=> Written(k, n)
<1>1. m > Before /\ m - Before = i
  OBVIOUS
<1> QED BY <1>1 DEF Stage, Goes

LEMMA StageComes ==
    ASSUME UNCHANGED message, NEW m \in Nat, NEW i \in Nat \ {0},
           NEW k, NEW n, Before \in Nat, m = Before + i, Goes(i, k, n),
           Written(k, n)'
    PROVE  Stage(m)'
<1>1. m > Before /\ m - Before = i /\ Places[i][1] = k /\ Places[i][2] = n
  BY DEF Goes
<1>2. Places' = Places /\ Before' = Before
  BY MessageSame
<1>3. m > Before' /\ Places'[m - Before'][1] = k /\ Places'[m - Before'][2] = n
  BY <1>1, <1>2
<1> QED BY <1>3 DEF Stage, Written

LEMMA StageKept ==
    ASSUME UNCHANGED <<text, message>>, Position' = Position
    PROVE  /\ \A m : Stage(m)' <=> Stage(m)
           /\ \A k, n : Written(k, n)' <=> Written(k, n)
<1>1. /\ Row' = Row /\ Col' = Col /\ View(text') = View(text)
      /\ \A rows : BlankBehind(rows)' <=> BlankBehind(rows)
  BY PositionKept DEF View
<1>2. /\ Lines' = Lines /\ Places' = Places /\ Before' = Before
      /\ message' = message
  BY MessageSame
<1>3. BlankBefore' <=> BlankBefore
  BY <1>1 DEF BlankBefore
<1>4. \A k, n : Written(k, n)' <=> Written(k, n)
  BY <1>1, <1>2 DEF Written
<1>5. \A m : Stage(m)' <=> Stage(m)
  BY <1>1, <1>2, <1>3, <1>4 DEF Stage
<1> QED BY <1>4, <1>5

\* While panic_spin is at work, too, nothing is behind the cursor.
LEMMA PanicBlank ==
    ASSUME message.why = "panic", NEW m, Stage(m)
    PROVE  BlankBehind(Rows)
BY DEF Stage, Written

-----------------------------------------------------------------------------
(* What a character that put_char draws does *)

LEMMA CharIs ==
    ASSUME NEW a, NEW b, NEW op, NEW arg
    PROVE  /\ Char(a) = Char(b) => a = b
           /\ op # "put_char" => Char(a) # [op |-> op, arg |-> arg]
<1>1. Char(a).op = "put_char" /\ Char(a).arg = a /\ Char(b).arg = b
  BY DEF Char
<1>2. [op |-> op, arg |-> arg].op = op
  OBVIOUS
<1> QED BY <1>1, <1>2

LEMMA DrawWhat ==
    ASSUME NEW w, Draw(w)
    PROVE  /\ call[w].cl = LF => DrawNewLine(w)
           /\ call[w].cl \in Visible \cup {Blank} => DrawVisible(w)
<1>1. /\ LF \notin Visible \cup {Blank} /\ BS \notin Visible \cup {Blank}
      /\ LF # BS
  BY ConsoleAssumption
<1>2. CASE DrawNewLine(w)
  <2>1. call[w].cl = LF
    BY <1>2 DEF DrawNewLine
  <2> QED BY <1>1, <1>2, <2>1
<1>3. CASE DrawVisible(w)
  <2>1. call[w].cl \in Visible \cup {Blank}
    BY <1>3 DEF DrawVisible
  <2> QED BY <1>1, <1>3, <2>1
<1>4. CASE DrawBackspace(w)
  <2>1. call[w].cl = BS
    BY <1>4 DEF DrawBackspace
  <2> QED BY <1>1, <2>1
<1> QED BY <1>2, <1>3, <1>4 DEF Draw

\* Among the blanks
LEMMA BlankDrawn ==
    ASSUME NEW w, Writer = {w}, IInv, UNCHANGED <<program, message>>, Draw(w),
           NEW m \in Nat, m < Before, Program[m + 1] = Char(call[w].cl),
           Stage(m)
    PROVE  Stage(m + 1)'
<1>1. Before \in Nat /\ Before' = Before /\ message' = message
  BY CallsFit, MessageSame DEF ProgramFits
<1>2. message.why # "panic"
  BY <1>1 DEF Before
<1>3. Before = Blanked /\ Program[m + 1] = Char(Blank)
  <2>1. m + 1 \in 1..Before
    BY <1>1
  <2> QED BY <1>2, <2>1, HandlerCallsAre DEF HandlerCalls
<1>4. call[w].cl = Blank
  BY <1>3, CharIs
<1>5. DrawVisible(w)
  BY <1>4, DrawWhat
<1>6. ~(m > Before) /\ ~(m + 1 > Before)
  BY <1>1
<1>7. Position = m /\ BlankBefore
  BY <1>2, <1>6 DEF Stage
<1>8. Position' = m + 1 /\ BlankBefore'
  BY <1>3, <1>4, <1>5, <1>7, BlankingGoesOn
<1> QED BY <1>1, <1>2, <1>6, <1>8 DEF Stage

\* Among the lines
LEMMA LineDrawn ==
    ASSUME NEW w, Writer = {w}, IInv, UNCHANGED <<program, message>>, Draw(w),
           NEW i \in 1..Len(Places), Then(i) = Char(call[w].cl),
           NEW m \in Nat, m + 1 = Before + i, Stage(m)
    PROVE  Stage(m + 1)'
<1>1. Before \in Nat /\ Fits(i) /\ i \in Nat \ {0} /\ m + 1 \in Nat
  BY CallsFit DEF ProgramFits
<1>2. \A l, j : Goes(i, l, j) /\ Written(l, j)' => Stage(m + 1)'
  BY <1>1, StageComes
<1>3. CASE Starts(Then(i), i)
  <2>1. message.why = "panic" /\ Then(i) = Char(LF)
    BY <1>3, CharIs DEF Starts
  <2>2. DrawNewLine(w)
    BY <2>1, CharIs, DrawWhat
  <2>3. Written(0, 0)'
    BY <2>1, <2>2, PanicBlank, WrittenStart
  <2>4. Goes(i, 0, 0)
    BY <1>3 DEF Starts
  <2> QED BY <1>2, <2>3, <2>4
<1>4. CASE i > 1 /\ Adds(Then(i), Places[i - 1][1], Places[i - 1][2],
                         Places[i][1], Places[i][2])
  <2> DEFINE h == i - 1
  <2>0. PICK k, n, l, j : /\ k = Places[h][1] /\ n = Places[h][2]
                         /\ l = Places[i][1] /\ j = Places[i][2]
    OBVIOUS
  <2>1. h \in Nat \ {0} /\ m = Before + h
    <3>1. i > 1
      BY <1>4
    <3> QED BY <1>1, <3>1
  <2>2. Goes(h, k, n) /\ Goes(i, l, j)
    BY <2>0 DEF Goes
  <2>3. Adds(Then(i), k, n, l, j)
    BY <1>4, <2>0
  <2> HIDE DEF h
  <2>4. Written(k, n)
    BY <1>1, <2>1, <2>2, StageIs
  <2>5. k \in Nat /\ k < Len(Lines)
    BY <2>3 DEF Adds
  <2>6. CASE /\ n \in 0..Cols - 2 /\ n < Len(Lines[k + 1]) /\ l = k /\ j = n + 1
             /\ Lines[k + 1][n + 1] \in Visible
             /\ Then(i) = Char(Lines[k + 1][n + 1])
    <3>1. call[w].cl = Lines[k + 1][n + 1] /\ DrawVisible(w)
      BY <2>6, CharIs, DrawWhat
    <3>2. Written(k, n + 1)'
      BY <2>4, <2>5, <2>6, <3>1, WrittenType
    <3> QED BY <1>2, <2>2, <2>6, <3>2
  <2>7. CASE Then(i) = Char(LF) /\ n = Len(Lines[k + 1]) /\ l = k + 1 /\ j = 0
    <3>1. DrawNewLine(w)
      BY <2>7, CharIs, DrawWhat
    <3>2. Written(k + 1, 0)'
      BY <2>4, <2>5, <2>7, <3>1, WrittenLine
    <3> QED BY <1>2, <2>2, <2>7, <3>2
  <2>8. \/ \E arg : Then(i) = [op |-> "set_cursor", arg |-> arg]
        \/ \E arg : Then(i) = [op |-> "put_int", arg |-> arg]
        => FALSE
    BY CharIs
  <2> QED BY <2>3, <2>6, <2>7, <2>8 DEF Adds
<1> QED BY <1>1, <1>3, <1>4 DEF Fits

LEMMA DrawCalled ==
    ASSUME NEW w, Writer = {w}, IInv, UNCHANGED <<program, message>>, Draw(w),
           NEW m \in Nat, m < Len(Program), Program[m + 1] = Char(call[w].cl),
           Stage(m)
    PROVE  Stage(m + 1)'
<1>1. /\ Before \in Nat /\ Len(Places) \in Nat
      /\ Len(Program) = Before + Len(Places)
  BY CallsFit DEF ProgramFits
<1>2. CASE m < Before
  BY <1>2, BlankDrawn
<1>3. CASE ~(m < Before)
  <2> DEFINE i == m + 1 - Before
  <2>1. i \in 1..Len(Places) /\ m + 1 = Before + i /\ m + 1 > Before
    BY <1>1, <1>3
  <2>2. Then(i) = Char(call[w].cl)
    BY <2>1 DEF Then
  <2> HIDE DEF i
  <2> QED BY <2>1, <2>2, LineDrawn
<1> QED BY <1>2, <1>3

\* A call of set_cursor
LEMMA CursorMoved ==
    ASSUME UNCHANGED <<text, message>>, NEW m \in Nat, m < Len(Program),
           NEW pos, Program[m + 1] = [op |-> "set_cursor", arg |-> pos],
           Stage(m), Position' = pos
    PROVE  Stage(m + 1)'
<1>1. /\ Before \in Nat /\ Len(Places) \in Nat
      /\ Len(Program) = Before + Len(Places)
  BY CallsFit DEF ProgramFits
<1>3. ~(m < Before)
  <2> SUFFICES ASSUME m < Before PROVE FALSE
    OBVIOUS
  <2>0. message.why # "panic"
    BY <1>1 DEF Before
  <2>1. m + 1 \in 1..Before
    BY <1>1
  <2>2. Program[m + 1] = Char(Blank)
    BY <2>0, <2>1, HandlerCallsAre DEF HandlerCalls
  <2> QED BY <2>2, CharIs
<1> DEFINE i == m + 1 - Before
<1>4. i \in 1..Len(Places) /\ m + 1 = Before + i /\ m + 1 > Before
  BY <1>1, <1>3
<1>5. Then(i) = [op |-> "set_cursor", arg |-> pos] /\ Fits(i)
  BY <1>4, CallsFit DEF Then, ProgramFits
<1> HIDE DEF i
<1>6. \A l, j : Goes(i, l, j) /\ Written(l, j)' => Stage(m + 1)'
  <2>1. m + 1 \in Nat /\ i \in Nat \ {0}
    BY <1>1, <1>4
  <2> QED BY <1>1, <1>4, <2>1, StageComes
<1>7. CASE Starts(Then(i), i)
  <2>1. /\ message.why # "panic" /\ i = 1
        /\ Then(i) = [op |-> "set_cursor", arg |-> 0]
    BY <1>5, <1>7, CharIs DEF Starts
  <2>2. pos = 0 /\ m = Before /\ ~(m > Before) /\ Before = Blanked
    <3>1. [op |-> "set_cursor", arg |-> pos].arg = pos
      OBVIOUS
    <3>2. [op |-> "set_cursor", arg |-> 0].arg = 0
      OBVIOUS
    <3>3. m = Before
      BY <1>1, <1>4, <2>1
    <3> QED BY <1>1, <1>5, <2>1, <3>1, <3>2, <3>3, HandlerCallsAre
            DEF HandlerCalls
  <2>3. Position = Blanked /\ BlankBefore
    BY <2>1, <2>2 DEF Stage
  <2>4. Written(0, 0)'
    BY <2>1, <2>2, <2>3, WrittenFromTop
  <2>5. Goes(i, 0, 0)
    BY <1>7 DEF Starts
  <2> QED BY <1>6, <2>4, <2>5
<1>8. CASE i > 1 /\ Adds(Then(i), Places[i - 1][1], Places[i - 1][2],
                         Places[i][1], Places[i][2])
  <2> DEFINE h == i - 1
  <2>0. PICK k, n, l, j : /\ k = Places[h][1] /\ n = Places[h][2]
                         /\ l = Places[i][1] /\ j = Places[i][2]
    OBVIOUS
  <2>1. h \in Nat \ {0} /\ m = Before + h
    BY <1>1, <1>4, <1>8
  <2>2. Goes(h, k, n) /\ Goes(i, l, j)
    BY <2>0 DEF Goes
  <2>3. Adds(Then(i), k, n, l, j)
    BY <1>8, <2>0
  <2> HIDE DEF h
  <2>4. Written(k, n)
    BY <1>1, <2>1, <2>2, StageIs
  <2>5. /\ \A ch : Then(i) # Char(ch)
        /\ \A arg : Then(i) # [op |-> "put_int", arg |-> arg]
        /\ \A arg : Then(i) = [op |-> "set_cursor", arg |-> arg] => arg = pos
    <3>1. Then(i).op = "set_cursor" /\ Then(i).arg = pos
      BY <1>5
    <3>2. \A arg : /\ [op |-> "put_int", arg |-> arg].op = "put_int"
                   /\ [op |-> "set_cursor", arg |-> arg].arg = arg
      OBVIOUS
    <3> QED BY <1>5, <3>1, <3>2, CharIs
  <2>6. /\ message.why # "panic" /\ k = 1 /\ n = 0 /\ l = 1 /\ j = Indent
        /\ pos = Cols + Indent
    BY <2>3, <2>5 DEF Adds
  <2>7. Written(1, Indent)'
    BY <2>4, <2>6, WrittenIndent
  <2> QED BY <1>6, <2>2, <2>6, <2>7
<1> QED BY <1>5, <1>7, <1>8 DEF Fits

\* Where put_int prints
LEMMA NumberCalled ==
    ASSUME NEW m \in Nat, m < Len(Program), NEW num,
           Program[m + 1] = [op |-> "put_int", arg |-> num]
    PROVE  LET k == Places[m + 1 - Before][1]
           IN  /\ m + 1 > Before /\ num = message.number
               /\ k \in Nat /\ k < Len(Lines)
               /\ Stage(m) => Written(k, 0)
               /\ Lines[k + 1] = Numeral(num)
               /\ Places[m + 1 - Before][2] = Len(Numeral(num))
<1>1. /\ Before \in Nat /\ Len(Places) \in Nat
      /\ Len(Program) = Before + Len(Places)
  BY CallsFit DEF ProgramFits
<1>2. ~(m < Before)
  <2> SUFFICES ASSUME m < Before PROVE FALSE
    OBVIOUS
  <2>0. message.why # "panic"
    BY <1>1 DEF Before
  <2>1. m + 1 \in 1..Before
    BY <1>1
  <2>2. Program[m + 1] = Char(Blank)
    BY <2>0, <2>1, HandlerCallsAre DEF HandlerCalls
  <2> QED BY <2>2, CharIs
<1> DEFINE i == m + 1 - Before
<1>3. i \in 1..Len(Places) /\ m + 1 = Before + i /\ m + 1 > Before
  BY <1>1, <1>2
<1>4. Then(i) = [op |-> "put_int", arg |-> num] /\ Fits(i)
  BY <1>3, CallsFit DEF Then, ProgramFits
<1> HIDE DEF i
<1>5. /\ \A ch : Then(i) # Char(ch)
      /\ \A arg : Then(i) # [op |-> "set_cursor", arg |-> arg]
      /\ \A arg : Then(i) = [op |-> "put_int", arg |-> arg] => arg = num
  <2>1. Then(i).op = "put_int" /\ Then(i).arg = num
    BY <1>4
  <2>2. \A arg : /\ [op |-> "set_cursor", arg |-> arg].op = "set_cursor"
                 /\ [op |-> "put_int", arg |-> arg].arg = arg
    OBVIOUS
  <2> QED BY <1>4, <2>1, <2>2, CharIs
<1>6. ~Starts(Then(i), i)
  BY <1>5 DEF Starts
<1>7. i > 1 /\ Adds(Then(i), Places[i - 1][1], Places[i - 1][2],
                    Places[i][1], Places[i][2])
  BY <1>4, <1>6 DEF Fits
<1> DEFINE h == i - 1
           k == Places[h][1]
           n == Places[h][2]
           l == Places[i][1]
           j == Places[i][2]
<1>8. h \in Nat \ {0} /\ m = Before + h
  <2>1. i > 1
    BY <1>7
  <2> QED BY <1>1, <1>3, <2>1
<1>9. Goes(h, k, n)
  BY DEF Goes
<1>10. Adds(Then(i), k, n, l, j)
  BY <1>7
<1> HIDE DEF h, k, n, l, j
<1>11. Stage(m) => Written(k, n)
  BY <1>1, <1>8, <1>9, StageIs
<1>12. /\ k \in Nat /\ k < Len(Lines) /\ num = message.number
       /\ Lines[k + 1] = Numeral(message.number)
       /\ n = 0 /\ l = k /\ j = Width
  BY <1>5, <1>10 DEF Adds
<1> QED BY <1>3, <1>11, <1>12 DEF i, l, j, Width

-----------------------------------------------------------------------------
(* What the frame promises behind a step, for each of the places it may be at *)

Same(c, d) == d.cl = c.cl /\ d.back = c.back /\ d.num = c.num /\ d.edi = c.edi

LEMMA StageThen ==
    ASSUME NEW m, Made' = m
    PROVE  /\ Stage(m)' => Stage(Made)'
           /\ \A h : m - 1 = h /\ Stage(h)' => Stage(Made - 1)'
BY DEF Stage, Written

LEMMA AtACall ==
    ASSUME NEW w, NEW m, Made' = m, Stage(m)', call'[w].back = "idle",
           call'[w].pc \notin Reading
    PROVE  CallInv(call[w])'
BY StageThen DEF CallInv

LEMMA AtACharacter ==
    ASSUME NEW w, NEW h \in Nat, Made' = h + 1, Stage(h)',
           call'[w].back = "idle", call'[w].pc \in Reading,
           Program'[h + 1] = Char(call'[w].cl)
    PROVE  CallInv(call[w])'
<1>1. PICK m : m = h + 1
  OBVIOUS
<1>2. Made' > 0 /\ m - 1 = h /\ Made' = m /\ call'[w].back # "next"
  BY <1>1
<1>3. Stage(Made - 1)'
  BY <1>2, StageThen
<1>4. Program'[Made'] = [op |-> "put_char", arg |-> call'[w].cl]
  BY DEF Char
<1> QED BY <1>2, <1>3, <1>4 DEF CallInv, Reading

LEMMA AtANumber ==
    ASSUME NEW w, NEW h \in Nat, Made' = h + 1, Stage(h)',
           call'[w].back = "next", call'[w].pc \in {"store", "skip"},
           Program'[h + 1] = [op |-> "put_int", arg |-> call'[w].num]
    PROVE  CallInv(call[w])'
<1>1. PICK m : m = h + 1
  OBVIOUS
<1>2. Made' > 0 /\ m - 1 = h /\ Made' = m
  BY <1>1
<1>3. Stage(Made - 1)'
  BY <1>2, StageThen
<1> QED BY <1>2, <1>3 DEF CallInv

LEMMA WrittenThen ==
    ASSUME NEW w, NEW k, NEW n, Written(k, n)', DigitsDrawn(call[w])' = n,
           Places'[Made' - Before'][1] = k
    PROVE  Written(Places[Made - Before][1], DigitsDrawn(call[w]))'
BY DEF Written

LEMMA AtADigit ==
    ASSUME NEW w, NEW m \in Nat \ {0}, Made' = m,
           call'[w].back = "next",
           call'[w].pc \notin {"idle", "store", "skip"},
           Program'[m] = [op |-> "put_int", arg |-> call'[w].num],
           NEW n, DigitsDrawn(call[w])' = n,
           n \in 0 .. Len(Numeral(call'[w].num)),
           NEW k, Places'[m - Before'][1] = k, Written(k, n)',
           call'[w].pc \in Reading =>
              /\ n < Len(Numeral(call'[w].num))
              /\ call'[w].cl = Numeral(call'[w].num)[n + 1]
    PROVE  CallInv(call[w])'
<1>1. Made' > 0 /\ Places'[Made' - Before'][1] = k
  OBVIOUS
<1>2. Written(Places[Made - Before][1], DigitsDrawn(call[w]))'
  BY <1>1, WrittenThen
<1>3. Numeral(call[w].num)' = Numeral(call'[w].num)
  BY DEF Numeral, DigitOf, First
<1> QED BY <1>1, <1>2, <1>3 DEF CallInv

\* What it promises before, of a number
LEMMA DigitPlace ==
    ASSUME NEW w, CallInv(call[w]), call[w].back = "next", MessageTypes,
           Made \in 0..Len(Program)
    PROVE  /\ Made \in Nat \ {0} /\ Made > Before
           /\ Program[Made] = [op |-> "put_int", arg |-> call[w].num]
           /\ \A k : k = Places[Made - Before][1] =>
                 /\ k \in Nat /\ k < Len(Lines)
                 /\ Lines[k + 1] = Numeral(call[w].num)
                 /\ Stage(Made - 1) => Written(k, 0)
           /\ Places[Made - Before][2] = Len(Numeral(call[w].num))
<1> DEFINE h == Made - 1
<1>1. /\ Made > 0
      /\ Program[Made] = [op |-> "put_int", arg |-> call[w].num]
  BY DEF CallInv
<1>2. Made \in Nat \ {0} /\ h \in Nat /\ h + 1 = Made /\ h < Len(Program)
  BY <1>1
<1> HIDE DEF h
<1>3. LET k == Places[h + 1 - Before][1]
      IN  /\ h + 1 > Before
          /\ k \in Nat /\ k < Len(Lines)
          /\ Stage(h) => Written(k, 0)
          /\ Lines[k + 1] = Numeral(call[w].num)
          /\ Places[h + 1 - Before][2] = Len(Numeral(call[w].num))
  <2>1. Program[h + 1] = [op |-> "put_int", arg |-> call[w].num]
    BY <1>1, <1>2
  <2> QED BY <1>2, <2>1, NumberCalled
<1>4. LET k == Places[Made - Before][1]
      IN  /\ Made > Before
          /\ k \in Nat /\ k < Len(Lines)
          /\ Stage(h) => Written(k, 0)
          /\ Lines[k + 1] = Numeral(call[w].num)
          /\ Places[Made - Before][2] = Len(Numeral(call[w].num))
  <2>1. Before \in Nat
    BY CallsFit DEF ProgramFits
  <2>2. PICK i : i = Made - Before
    OBVIOUS
  <2>3. h + 1 - Before = i /\ (h + 1 > Before => Made > Before)
    BY <1>2, <2>1, <2>2
  <2> QED BY <1>3, <2>2, <2>3
<1> QED BY <1>1, <1>2, <1>4 DEF h

-----------------------------------------------------------------------------
(* Accesses to the ports *)

LEMMA MadeType ==
    ASSUME MessageTypes, program \in Seq(ConsoleCall)
    PROVE  Made \in 0..Len(Program) /\ Len(Program) \in Nat /\ Reason
<1>1. Len(program) \in Nat
  OBVIOUS
<1>2. Len(Program) \in Nat
  BY CallsFit DEF ProgramFits
<1> QED BY <1>1, <1>2 DEF MessageTypes, Made, Reason

LEMMA StepTypes ==
    ASSUME UNCHANGED <<program, message>>, MessageTypes
    PROVE  /\ MessageTypes' /\ Made' = Made /\ Program' = Program
           /\ Places' = Places /\ Before' = Before /\ Lines' = Lines
BY MessageSame DEF MessageTypes, Made

LEMMA GetCursorFrame ==
    ASSUME NEW w, Writer = {w}, IInv, GetCursor(w)
    PROVE  /\ call[w].pc \in Reading /\ call'[w].pc \in Reading
           /\ Same(call[w], call'[w])
<1>1. call[w] \in Frame /\ w \in DOMAIN call
  BY MyFrame DEF IInv, ConsoleTypes
<1> QED BY <1>1 DEF GetCursor, Select, ReadHigh, ReadLow, At, Goto, Reading,
                    Frame, Same

LEMMA SetCursorFrameKept ==
    ASSUME NEW w, Writer = {w}, IInv, SetCursor(w)
    PROVE  /\ call[w].pc \in Writing
           /\ call'[w].pc \notin Reading \cup {"store", "skip"}
           /\ call'[w].back = call[w].back
           /\ call[w].back = "next" => /\ call'[w].num = call[w].num
                                       /\ call'[w].edi = call[w].edi
                                       /\ call'[w].pc # "idle"
<1>1. call[w] \in Frame /\ w \in DOMAIN call
  BY MyFrame DEF IInv, ConsoleTypes
<1>2. CASE WriteRegister(w, "write_low", call[w].bx % Base, Return(w))
  <2>1. CASE call[w].back = "idle"
    <3>1. call'[w] = Idle /\ call[w].pc = "write_low"
      BY <1>1, <1>2, <2>1 DEF WriteRegister, Return, At
    <3> QED BY <2>1, <3>1 DEF Idle, Reading, Writing
  <2>2. CASE call[w].back = "next"
    <3>1. /\ call[w].pc = "write_low"
          /\ call'[w] = [Idle EXCEPT !.pc = "next", !.back = "next",
                                     !.num = call[w].num, !.edi = call[w].edi]
      BY <1>1, <1>2, <2>2 DEF WriteRegister, Return, At
    <3> QED BY <2>2, <3>1 DEF Idle, Reading, Writing
  <2> QED BY <1>1, <2>1, <2>2 DEF Frame
<1>3. CASE \/ Select(w, "set_high", "high", "write_high")
           \/ WriteRegister(w, "write_high", call[w].bx \div Base,
                            Goto(w, "set_low"))
           \/ Select(w, "set_low", "low", "write_low")
  BY <1>1, <1>3 DEF Select, WriteRegister, At, Goto, Reading, Writing, Frame
<1> QED BY <1>2, <1>3 DEF SetCursor

LEMMA GetCursorKeepsMessage ==
    ASSUME NEW w, Writer = {w}, IInv, UNCHANGED <<program, message>>,
           MessageTypes, CallInv(call[w]), GetCursor(w)
    PROVE  CallInv(call[w])'
<1>1. Made \in 0..Len(Program) /\ Len(Program) \in Nat
  BY MadeType DEF IInv, ConsoleTypes
<1>2. /\ \A m : Stage(m)' <=> Stage(m)
      /\ \A k, n : Written(k, n)' <=> Written(k, n)
  BY PortsStutter, StageKept
<1>3. /\ Made' = Made /\ Program' = Program /\ Places' = Places
      /\ Before' = Before
  BY StepTypes
<1>4. /\ call[w].pc \in Reading /\ call'[w].pc \in Reading
      /\ Same(call[w], call'[w]) /\ call[w] \in Frame
  BY GetCursorFrame, MyFrame DEF IInv, ConsoleTypes
<1>5. PICK h : h = Made - 1
  OBVIOUS
<1>6. CASE call[w].back = "idle"
  <2>1. /\ Made > 0 /\ Stage(Made - 1)
        /\ Program[Made] = [op |-> "put_char", arg |-> call[w].cl]
    BY <1>4, <1>6 DEF CallInv
  <2>2. h \in Nat /\ Made' = h + 1 /\ Stage(h)'
    BY <1>1, <1>2, <1>3, <1>5, <2>1
  <2>3. Program'[h + 1] = Char(call'[w].cl)
    BY <1>3, <1>4, <2>1, <2>2 DEF Same, Char
  <2> QED BY <1>4, <1>6, <2>2, <2>3, AtACharacter DEF Same
<1>7. CASE call[w].back = "next"
  <2>0. PICK m : m = Made
    OBVIOUS
  <2>1. /\ m \in Nat \ {0} /\ Made' = m
        /\ Program[m] = [op |-> "put_int", arg |-> call[w].num]
    BY <1>1, <1>3, <1>7, <2>0, DigitPlace
  <2>2. PICK k, n : k = Places[Made - Before][1] /\ n = DigitsDrawn(call[w])
    OBVIOUS
  <2>3. /\ call[w].pc \notin {"store", "skip"}
        /\ call'[w].pc \notin {"idle", "store", "skip"}
    BY <1>4 DEF Reading
  <2>4. /\ n \in 0 .. Len(Numeral(call[w].num)) /\ Written(k, n)
        /\ n < Len(Numeral(call[w].num))
        /\ call[w].cl = Numeral(call[w].num)[n + 1]
    BY <1>4, <1>7, <2>2, <2>3 DEF CallInv
  <2>5. DigitsDrawn(call[w])' = n
    BY <1>4, <2>2 DEF DigitsDrawn, Same, First, DigitOf
  <2>6. /\ call'[w].num = call[w].num /\ call'[w].cl = call[w].cl
        /\ call'[w].back = "next"
    BY <1>4, <1>7 DEF Same
  <2>7. /\ Program'[m] = [op |-> "put_int", arg |-> call'[w].num]
        /\ Places'[m - Before'][1] = k /\ Written(k, n)'
    BY <1>2, <1>3, <2>0, <2>1, <2>2, <2>4, <2>6
  <2>8. /\ n \in 0 .. Len(Numeral(call'[w].num))
        /\ n < Len(Numeral(call'[w].num))
        /\ call'[w].cl = Numeral(call'[w].num)[n + 1]
    BY <2>4, <2>6
  <2> QED BY <2>1, <2>3, <2>5, <2>6, <2>7, <2>8, AtADigit
<1> QED BY <1>4, <1>6, <1>7 DEF Frame

LEMMA SetCursorKeepsMessage ==
    ASSUME NEW w, Writer = {w}, IInv, UNCHANGED <<program, message>>,
           MessageTypes, CallInv(call[w]), SetCursor(w)
    PROVE  CallInv(call[w])'
<1>1. Made \in 0..Len(Program) /\ Len(Program) \in Nat
  BY MadeType DEF IInv, ConsoleTypes
<1>2. /\ \A m : Stage(m)' <=> Stage(m)
      /\ \A k, n : Written(k, n)' <=> Written(k, n)
  BY PortsStutter, StageKept
<1>3. /\ Made' = Made /\ Program' = Program /\ Places' = Places
      /\ Before' = Before
  BY StepTypes
<1>4. /\ call[w].pc \in Writing /\ call[w] \in Frame
      /\ call'[w].pc \notin Reading \cup {"store", "skip"}
      /\ call'[w].back = call[w].back
      /\ call[w].back = "next" => /\ call'[w].num = call[w].num
                                  /\ call'[w].edi = call[w].edi
                                  /\ call'[w].pc # "idle"
  BY SetCursorFrameKept, MyFrame DEF IInv, ConsoleTypes
<1>5. call[w].pc \notin Reading \cup {"store", "skip"}
  BY <1>4 DEF Reading, Writing
<1>6. PICK m : m = Made
  OBVIOUS
<1>7. CASE call[w].back = "idle"
  <2>1. Stage(m)' /\ Made' = m
    BY <1>2, <1>3, <1>5, <1>6, <1>7 DEF CallInv
  <2> QED BY <1>4, <1>7, <2>1, AtACall
<1>8. CASE call[w].back = "next"
  <2>2. /\ m \in Nat \ {0} /\ Made' = m
        /\ Program[m] = [op |-> "put_int", arg |-> call[w].num]
    BY <1>1, <1>3, <1>6, <1>8, DigitPlace
  <2>3. PICK k, n : k = Places[Made - Before][1] /\ n = DigitsDrawn(call[w])
    OBVIOUS
  <2>4. n \in 0 .. Len(Numeral(call[w].num)) /\ Written(k, n)
    BY <1>5, <1>8, <2>3 DEF CallInv
  <2>5. DigitsDrawn(call[w])' = n
    BY <1>4, <1>5, <1>8, <2>3 DEF DigitsDrawn, First, DigitOf
  <2>6. /\ Program'[m] = [op |-> "put_int", arg |-> call'[w].num]
        /\ Places'[m - Before'][1] = k /\ Written(k, n)'
    BY <1>2, <1>3, <1>4, <1>6, <1>8, <2>2, <2>3, <2>4
  <2>7. /\ n \in 0 .. Len(Numeral(call'[w].num))
        /\ call'[w].pc \notin Reading /\ call'[w].back = "next"
        /\ call'[w].pc \notin {"idle", "store", "skip"}
    BY <1>4, <1>8, <2>4
  <2> QED BY <2>2, <2>5, <2>6, <2>7, AtADigit
<1> QED BY <1>4, <1>7, <1>8 DEF Frame

\* The number that is printed is the one of the message.
LEMMA NumberIsTheMessages ==
    ASSUME MessageTypes, NEW num, NEW m \in Nat \ {0}, m = Made,
           Made \in 0..Len(Program),
           Program[m] = [op |-> "put_int", arg |-> num]
    PROVE  num \in Numbers
<1>1. PICK h \in Nat : h + 1 = m /\ h < Len(Program)
  <2>1. m - 1 \in Nat /\ (m - 1) + 1 = m /\ m - 1 < Len(Program)
    BY CallsFit DEF ProgramFits
  <2> QED BY <2>1
<1>2. num = message.number
  BY <1>1, NumberCalled
<1> QED BY <1>2 DEF MessageTypes

-----------------------------------------------------------------------------
(* Drawing *)

LEMMA DrawFrame ==
    ASSUME NEW w, Writer = {w}, IInv, UNCHANGED program, Draw(w)
    PROVE  /\ call[w].pc = "draw" /\ call'[w].pc = "set_high"
           /\ Same(call[w], call'[w]) /\ UNCHANGED put_int_buffer
<1>1. call[w] \in Frame /\ w \in DOMAIN call
  BY MyFrame DEF IInv, ConsoleTypes
<1>2. call[w].pc = "draw" /\ call'[w].pc = "set_high"
  BY DrawNewLineIs, DrawVisibleIs, DrawBackspaceIs DEF Draw
<1>3. ~SegmentFault
  BY <1>2 DEF SegmentFault
<1>4. /\ UNCHANGED put_int_buffer
      /\ \E b : call' = [call EXCEPT ![w].bx = b, ![w].pc = "set_high"]
  BY <1>3 DEF Draw, DrawNewLine, DrawVisible, DrawBackspace, Finish
<1>5. PICK b : call' = [call EXCEPT ![w].bx = b, ![w].pc = "set_high"]
  BY <1>4
<1> QED BY <1>1, <1>2, <1>4, <1>5 DEF Frame, Same

LEMMA DrawKeepsMessage ==
    ASSUME NEW w, Writer = {w}, IInv, UNCHANGED <<program, message>>,
           MessageTypes, CallInv(call[w]), Draw(w)
    PROVE  CallInv(call[w])'
<1>1. Made \in 0..Len(Program) /\ Len(Program) \in Nat /\ Reason
  BY MadeType DEF IInv, ConsoleTypes
<1>2. /\ Made' = Made /\ Program' = Program /\ Places' = Places
      /\ Before' = Before
  BY StepTypes
<1>3. /\ call[w].pc = "draw" /\ call'[w].pc = "set_high"
      /\ Same(call[w], call'[w]) /\ call[w] \in Frame
  BY DrawFrame, MyFrame DEF IInv, ConsoleTypes
<1>4. /\ call[w].pc \in Reading /\ call'[w].pc \notin Reading
      /\ call'[w].pc \notin {"idle", "store", "skip"}
  BY <1>3 DEF Reading
<1>5. PICK m : m = Made
  OBVIOUS
<1>6. CASE call[w].back = "idle"
  <2>1. /\ Made > 0 /\ Stage(Made - 1)
        /\ Program[Made] = [op |-> "put_char", arg |-> call[w].cl]
    BY <1>4, <1>6 DEF CallInv
  <2>2. PICK h : h = Made - 1
    OBVIOUS
  <2>3. h \in Nat /\ h < Len(Program) /\ h + 1 = Made /\ Stage(h)
    BY <1>1, <2>1, <2>2
  <2>4. Program[h + 1] = Char(call[w].cl)
    BY <2>1, <2>3 DEF Char
  <2>5. Stage(h + 1)'
    BY <2>3, <2>4, DrawCalled
  <2>6. h + 1 = m
    BY <1>5, <2>3
  <2>7. Stage(m)' /\ Made' = m
    BY <1>2, <1>5, <2>5, <2>6
  <2> QED BY <1>3, <1>4, <1>6, <2>7, AtACall DEF Same
<1>7. CASE call[w].back = "next"
  <2>1. PICK k, n : k = Places[Made - Before][1] /\ n = DigitsDrawn(call[w])
    OBVIOUS
  <2>2. /\ m \in Nat \ {0} /\ Made' = m
        /\ Program[m] = [op |-> "put_int", arg |-> call[w].num]
        /\ k \in Nat /\ k < Len(Lines) /\ Lines[k + 1] = Numeral(call[w].num)
    BY <1>1, <1>2, <1>5, <1>7, <2>1, DigitPlace
  <2>3. /\ n \in 0 .. Len(Numeral(call[w].num)) /\ Written(k, n)
        /\ n < Len(Numeral(call[w].num))
        /\ call[w].cl = Numeral(call[w].num)[n + 1]
    <3>1. call[w].pc \notin {"store", "skip"}
      BY <1>3
    <3> QED BY <1>4, <1>7, <2>1, <3>1 DEF CallInv
  <2>4. call[w].num \in Numbers
    BY <1>1, <1>2, <2>2, <1>5, NumberIsTheMessages
  <2>5. /\ n \in 0..Cols - 2 /\ call[w].cl \in Visible
        /\ n + 1 \in 0 .. Len(Numeral(call[w].num))
    <3> DEFINE len == Len(Numeral(call[w].num))
    <3>1. len \in 1..Cols - 1 /\ Cols \in Nat
      BY <2>4, NumeralIs, Sizes
    <3>2. \A i \in 1..len : Numeral(call[w].num)[i] \in Visible
      BY <2>4, NumeralIs
    <3>3. n \in 0..len /\ n < len
      BY <2>3
    <3> HIDE DEF len
    <3>4. n + 1 \in 1..len /\ n \in 0..Cols - 2
      BY <3>1, <3>3
    <3> QED BY <2>3, <3>1, <3>2, <3>4 DEF len
  <2>6. DrawVisible(w) /\ call[w].cl = Lines[k + 1][n + 1]
    BY <2>2, <2>3, <2>5, DrawWhat
  <2>7. Written(k, n + 1)'
    BY <2>2, <2>3, <2>5, <2>6, WrittenType
  <2>8. PICK j : j = n + 1
    OBVIOUS
  <2>9. DigitsDrawn(call[w])' = j
    <3>1. /\ call[w].edi \in Int /\ call'[w].edi = call[w].edi
          /\ call'[w].num = call[w].num
      BY <1>3, FrameFields DEF Same
    <3>2. First(call[w].num) \in Int
      <4>1. First(call[w].num) \in 0..Digits
        BY <2>4, FirstType
      <4> QED BY <4>1, ConsoleAssumption
    <3>3. n = call[w].edi - First(call[w].num) + 0
      BY <1>4, <2>1 DEF DigitsDrawn
    <3>4. DigitsDrawn(call[w])' = call[w].edi - First(call[w].num) + 1
      BY <1>4, <3>1 DEF DigitsDrawn, First, DigitOf
    <3> QED BY <2>8, <3>1, <3>2, <3>3, <3>4
  <2>10. /\ Written(k, j)' /\ j \in 0 .. Len(Numeral(call'[w].num))
         /\ Program'[m] = [op |-> "put_int", arg |-> call'[w].num]
         /\ Places'[m - Before'][1] = k /\ call'[w].back = "next"
    BY <1>2, <1>3, <1>5, <1>7, <2>1, <2>2, <2>5, <2>7, <2>8 DEF Same
  <2> QED BY <1>4, <2>2, <2>9, <2>10, AtADigit
<1> QED BY <1>3, <1>6, <1>7 DEF Frame

-----------------------------------------------------------------------------
(* The digits of put_int *)

LEMMA CountKeepsMessage ==
    ASSUME NEW w, Writer = {w}, IInv, NumbersInv,
           UNCHANGED <<program, message>>,
           MessageTypes, CallInv(call[w]), StoreDigit(w) \/ SkipPrefix0(w)
    PROVE  CallInv(call[w])'
<1>1. Made \in 0..Len(Program) /\ Len(Program) \in Nat
  BY MadeType DEF IInv, ConsoleTypes
<1>2. \A m : Stage(m)' <=> Stage(m)
  BY DigitsStutter, StageKept DEF PutIntStep
<1>3. Made' = Made /\ Program' = Program
  BY StepTypes
<1>4. call[w] \in Frame /\ w \in DOMAIN call /\ call[w].pc \in {"store", "skip"}
  BY MyFrame DEF IInv, ConsoleTypes, StoreDigit, SkipPrefix0, At
<1>5. call[w].back = "next"
  BY <1>4 DEF NumbersInv, NumberInv
<1>6. /\ call'[w].back = "next" /\ call'[w].num = call[w].num
      /\ call'[w].pc \in {"store", "skip"}
  <2>1. CASE StoreDigit(w)
    BY <1>4, <1>5, <2>1 DEF StoreDigit, Frame
  <2>2. CASE SkipPrefix0(w)
    BY <1>4, <1>5, <2>2 DEF SkipPrefix0, Frame
  <2> QED BY <2>1, <2>2
<1>7. /\ Made > 0 /\ Stage(Made - 1)
      /\ Program[Made] = [op |-> "put_int", arg |-> call[w].num]
  BY <1>4, <1>5 DEF CallInv
<1>8. PICK h : h = Made - 1
  OBVIOUS
<1>9. h \in Nat /\ h + 1 = Made
  BY <1>1, <1>7, <1>8
<1>10. /\ Made' = h + 1 /\ Stage(h)'
       /\ Program'[h + 1] = [op |-> "put_int", arg |-> call'[w].num]
  BY <1>2, <1>3, <1>6, <1>7, <1>8, <1>9
<1> QED BY <1>6, <1>9, <1>10, AtANumber

\* What put_int has to do between two characters
LEMMA BetweenDigits ==
    ASSUME NEW w, Writer = {w}, IInv, NumbersInv,
           call[w].pc \in {"skip", "next"}
    PROVE  LET c == call[w]
           IN  /\ c \in Frame /\ w \in DOMAIN call /\ c.back = "next"
               /\ c.num \in Numbers /\ c.num \in Nat /\ c.edi \in 0..Digits
               /\ First(c.num) \in 0..Digits /\ Digits \in Nat \ {0}
               /\ c.num = 0 => First(c.num) = Digits
               /\ c.pc = "next" /\ c.num = 0 => c.edi = Digits
               /\ DigitsFrom(0, c.num)
<1>1. call[w] \in Frame /\ w \in DOMAIN call /\ Digits \in Nat \ {0}
  BY MyFrame, ConsoleAssumption DEF IInv, ConsoleTypes
<1>2. NumberInv(call[w])
  BY DEF NumbersInv
<1>3. call[w].back = "next" /\ call[w].num \in Numbers
  BY <1>2 DEF NumberInv
<1>4. DigitsFrom(0, call[w].num)
  BY <1>2, <1>3 DEF NumberInv
<1>5. call[w].pc = "next" /\ call[w].num = 0 => call[w].edi = Digits
  BY <1>2, <1>3 DEF NumberInv
<1>6. /\ First(call[w].num) \in 0..Digits
      /\ call[w].num = 0 => First(call[w].num) = Digits
  BY <1>3, FirstType
<1> QED BY <1>1, <1>3, <1>4, <1>5, <1>6, FrameFields

LEMMA FirstDigitKeepsMessage ==
    ASSUME NEW w, Writer = {w}, IInv, NumbersInv,
           UNCHANGED <<program, message>>,
           MessageTypes, CallInv(call[w]), FirstDigit(w)
    PROVE  CallInv(call[w])'
<1> DEFINE num == call[w].num
<1>1. Made \in 0..Len(Program) /\ Len(Program) \in Nat
  BY MadeType DEF IInv, ConsoleTypes
<1>2. \A k, n : Written(k, n)' <=> Written(k, n)
  BY DigitsStutter, StageKept DEF PutIntStep
<1>3. /\ Made' = Made /\ Program' = Program /\ Places' = Places
      /\ Before' = Before
  BY StepTypes
<1>4. call[w].pc = "skip"
  BY DEF FirstDigit, At
<1>5. /\ call[w] \in Frame /\ w \in DOMAIN call /\ call[w].back = "next"
      /\ num \in Numbers /\ num \in Nat
      /\ First(num) \in 0..Digits /\ Digits \in Nat \ {0}
  BY <1>4, BetweenDigits
<1>6. /\ call'[w].pc = "get_high" /\ call'[w].back = "next"
      /\ call'[w].num = num
  BY <1>5 DEF FirstDigit, EnterPutChar, Frame
<1>7. /\ call'[w].edi = First(num)
      /\ call'[w].cl = IF num = 0 THEN 0 ELSE DigitOf(num, First(num))
  <2>1. NumberPrinted(w)
    BY FirstDigitKeepsNumber
  <2> QED BY <1>4, <1>6, <2>1 DEF NumberPrinted
<1>8. PICK m, k : m = Made /\ k = Places[Made - Before][1]
  OBVIOUS
<1>9. /\ m \in Nat \ {0} /\ Made' = m /\ Written(k, 0)
      /\ Program[m] = [op |-> "put_int", arg |-> num]
  <2>1. Stage(Made - 1)
    BY <1>4, <1>5 DEF CallInv
  <2> QED BY <1>1, <1>3, <1>5, <1>8, <2>1, DigitPlace
<1>10. call'[w].pc \in Reading /\ call'[w].pc \notin {"idle", "store", "skip"}
  BY <1>6 DEF Reading
<1>11. DigitsDrawn(call[w])' = 0
  <2>1. DigitsDrawn(call[w])' = First(num) - First(num) + 0
    BY <1>6, <1>7, <1>10 DEF DigitsDrawn, First, DigitOf
  <2> QED BY <1>5, <2>1
<1> HIDE DEF num
<1>12. /\ 0 < Len(Numeral(num)) /\ Len(Numeral(num)) \in Nat
       /\ Numeral(num)[0 + 1] = call'[w].cl
  <2>1. Len(Numeral(num)) \in 1..Cols - 1 /\ Cols \in Nat
    BY <1>5, NumeralIs, Sizes
  <2>2. Numeral(num)[1] = IF num = 0 THEN 0
                          ELSE DigitOf(num, First(num) + 1 - 1)
    BY <1>5, <2>1, NumeralIs
  <2>3. First(num) + 1 - 1 = First(num) /\ 0 + 1 = 1
    BY <1>5
  <2> QED BY <1>7, <2>1, <2>2, <2>3
<1>13. /\ Written(k, 0)' /\ 0 \in 0 .. Len(Numeral(call'[w].num))
       /\ Program'[m] = [op |-> "put_int", arg |-> call'[w].num]
       /\ Places'[m - Before'][1] = k
  BY <1>2, <1>3, <1>6, <1>8, <1>9, <1>12
<1>14. /\ 0 < Len(Numeral(call'[w].num))
       /\ call'[w].cl = Numeral(call'[w].num)[0 + 1]
  BY <1>6, <1>12
<1> QED BY <1>6, <1>9, <1>10, <1>11, <1>13, <1>14, AtADigit

LEMMA NextDigitKeepsMessage ==
    ASSUME NEW w, Writer = {w}, IInv, NumbersInv,
           UNCHANGED <<program, message>>,
           MessageTypes, CallInv(call[w]), NextDigit(w)
    PROVE  CallInv(call[w])'
<1> DEFINE num == call[w].num
           len == Len(Numeral(num))
           edi == call[w].edi
<1>1. Made \in 0..Len(Program) /\ Len(Program) \in Nat
  BY MadeType DEF IInv, ConsoleTypes
<1>2. \A k, n : Written(k, n)' <=> Written(k, n)
  BY DigitsStutter, StageKept DEF PutIntStep
<1>3. /\ Made' = Made /\ Program' = Program /\ Places' = Places
      /\ Before' = Before
  BY StepTypes
<1>4. call[w].pc = "next"
  BY DEF NextDigit, At
<1>5. /\ call[w] \in Frame /\ w \in DOMAIN call /\ call[w].back = "next"
      /\ num \in Numbers /\ num \in Nat /\ edi \in 0..Digits
      /\ First(num) \in 0..Digits /\ Digits \in Nat \ {0}
      /\ num = 0 => First(num) = Digits /\ edi = Digits
      /\ DigitsFrom(0, num)
  BY <1>4, BetweenDigits
<1>6. PICK m, k, n : /\ m = Made /\ k = Places[Made - Before][1]
                     /\ n = DigitsDrawn(call[w])
  OBVIOUS
<1>7. n = edi - First(num) + 1
  BY <1>4, <1>6 DEF DigitsDrawn, Reading
<1>8. n \in 0 .. len /\ Written(k, n)
  BY <1>4, <1>5, <1>6 DEF CallInv
<1>9. /\ m \in Nat \ {0} /\ Made' = m /\ m > Before
      /\ Program[m] = [op |-> "put_int", arg |-> num]
      /\ Places[m - Before][2] = len
  BY <1>1, <1>3, <1>5, <1>6, DigitPlace
<1>10. len = IF num = 0 THEN 1 ELSE Digits - First(num)
  BY <1>5, NumeralIs
<1>11. CASE edi + 1 < Digits
  <2>1. /\ call'[w].pc = "get_high" /\ call'[w].back = "next"
        /\ call'[w].num = num /\ call'[w].edi = edi + 1
        /\ call'[w].cl = put_int_buffer[edi + 1]
    <3>1. /\ call[w] \in Frame /\ w \in DOMAIN call
          /\ call[w].back = "next"
      BY <1>5
    <3> QED BY <1>11, <3>1 DEF NextDigit, EnterPutChar, Frame
  <2>2. call'[w].pc \in Reading /\ call'[w].pc \notin {"idle", "store", "skip"}
    BY <2>1 DEF Reading
  <2>3. DigitsDrawn(call[w])' = (edi + 1) - First(num) + 0
    BY <2>1, <2>2 DEF DigitsDrawn, First, DigitOf
  <2>4. call'[w].cl = DigitOf(num, edi + 1)
    <3>1. edi + 1 \in 0..Digits - 1
      BY <1>5, <1>11
    <3> QED BY <1>5, <2>1, <3>1 DEF DigitsFrom
  <2> HIDE DEF num, len, edi
  <2>5. num # 0
    BY <1>5, <1>11
  <2>6. DigitsDrawn(call[w])' = n
    BY <1>5, <1>7, <2>3
  <2>7. n < len /\ n + 1 \in 1..len /\ First(num) + (n + 1) - 1 = edi + 1
    BY <1>5, <1>7, <1>8, <1>10, <1>11, <2>5
  <2>8. Numeral(num)[n + 1] = call'[w].cl
    <3>1. PICK i : i = n + 1
      OBVIOUS
    <3>2. i \in 1..Len(Numeral(num)) /\ First(num) + i - 1 = edi + 1
      BY <2>7, <3>1 DEF len
    <3>3. Numeral(num)[i] = DigitOf(num, First(num) + i - 1)
      BY <1>5, <2>5, <3>2, NumeralIs
    <3> QED BY <2>4, <3>1, <3>2, <3>3
  <2>9. /\ Written(k, n)' /\ n \in 0 .. Len(Numeral(call'[w].num))
        /\ Program'[m] = [op |-> "put_int", arg |-> call'[w].num]
        /\ Places'[m - Before'][1] = k
    BY <1>2, <1>3, <1>6, <1>8, <1>9, <2>1 DEF len
  <2>10. /\ n < Len(Numeral(call'[w].num))
         /\ call'[w].cl = Numeral(call'[w].num)[n + 1]
    BY <2>1, <2>7, <2>8 DEF len
  <2> QED BY <1>9, <2>1, <2>2, <2>6, <2>9, <2>10, AtADigit
<1>12. CASE ~(edi + 1 < Digits)
  <2>1. call'[w] = Idle
    BY <1>5, <1>12 DEF NextDigit
  <2>2. call'[w].back = "idle" /\ call'[w].pc \notin Reading
    BY <2>1 DEF Idle, Reading
  <2> HIDE DEF num, len, edi
  <2>3. n = len
    <3>1. CASE num = 0
      BY <1>5, <1>7, <1>10, <3>1
    <3>2. CASE num # 0
      BY <1>5, <1>7, <1>8, <1>10, <1>12, <3>2
    <3> QED BY <3>1, <3>2
  <2>4. PICK i : i = m - Before
    OBVIOUS
  <2>5. i \in Nat \ {0} /\ m = Before + i /\ Before \in Nat /\ m \in Nat
    <3>1. Before \in Nat
      BY CallsFit DEF ProgramFits
    <3> QED BY <1>9, <2>4, <3>1
  <2>6. Goes(i, k, n) /\ Written(k, n)'
    BY <1>2, <1>6, <1>8, <1>9, <2>3, <2>4 DEF Goes
  <2>7. Stage(m)'
    BY <2>5, <2>6, StageComes
  <2> QED BY <1>9, <2>2, <2>7, AtACall
<1> QED BY <1>11, <1>12

\* Whoever gives up and takes a step of the call it makes
LEMMA StepKeepsMessage ==
    ASSUME NEW w, Writer = {w}, IInv, NumbersInv,
           UNCHANGED <<program, message>>,
           MessageTypes, CallInv(call[w]), Step(w)
    PROVE  MessageTypes' /\ CallInv(call[w])'
<1>1. MessageTypes'
  BY StepTypes
<1> QED BY <1>1, GetCursorKeepsMessage, DrawKeepsMessage, SetCursorKeepsMessage,
           CountKeepsMessage, FirstDigitKeepsMessage, NextDigitKeepsMessage
        DEF Step, PutIntStep

-----------------------------------------------------------------------------
(* The next call *)

LEMMA NextCallTypes ==
    ASSUME IInv, MessageTypes, program # <<>>, program' = Tail(program),
           UNCHANGED message
    PROVE  /\ MessageTypes' /\ Program' = Program /\ Made' = Made + 1
           /\ Made \in Nat /\ Made < Len(Program)
           /\ Program[Made + 1] = Head(program) /\ Head(program) \in ConsoleCall
           /\ Len(Program) \in Nat
<1>1. /\ program \in Seq(ConsoleCall) /\ Len(program) \in Nat \ {0}
      /\ program' \in Seq(ConsoleCall) /\ Len(program') = Len(program) - 1
      /\ \A i \in 1..Len(program) - 1 : program'[i] = program[i + 1]
      /\ Head(program) = program[1] /\ Head(program) \in ConsoleCall
  BY DEF IInv, ConsoleTypes
<1>2. Program' = Program
  BY MessageSame
<1>3. /\ Len(Program) \in Nat /\ Made \in 0..Len(Program)
      /\ Len(program) <= Len(Program) /\ Made = Len(Program) - Len(program)
  BY <1>1, MadeType DEF MessageTypes, Made
<1>4. /\ Made' = Made + 1 /\ Made \in Nat /\ Made < Len(Program)
      /\ Len(program') <= Len(Program)
  <2>1. Made' = Len(Program) - Len(program')
    BY <1>2 DEF Made
  <2> QED BY <1>1, <1>3, <2>1
<1>5. \A i \in 1..Len(program) : program[i] = Program[Made + i]
  BY DEF MessageTypes
<1>6. Program[Made + 1] = Head(program)
  BY <1>1, <1>5
<1>7. ASSUME NEW i \in 1..Len(program') PROVE program'[i] = Program'[Made' + i]
  <2>1. i + 1 \in 1..Len(program) /\ i \in 1..Len(program) - 1
    BY <1>1
  <2>2. program'[i] = Program[Made + (i + 1)]
    BY <1>1, <1>5, <2>1
  <2>3. Made + (i + 1) = Made' + i
    BY <1>3, <1>4, <2>1
  <2> QED BY <1>2, <2>2, <2>3
<1> QED BY <1>1, <1>2, <1>3, <1>4, <1>6, <1>7 DEF MessageTypes

LEMMA NextCallKeepsMessage ==
    ASSUME NEW w, Writer = {w}, IInv, NumbersInv, MessageTypes,
           CallInv(call[w]), NextCall(w)
    PROVE  MessageTypes' /\ CallInv(call[w])'
<1> DEFINE next == Head(program)
<1>1. /\ MessageTypes' /\ Program' = Program /\ Made' = Made + 1
      /\ Made \in Nat /\ Made < Len(Program) /\ Program[Made + 1] = next
      /\ next \in ConsoleCall /\ Len(Program) \in Nat
  BY NextCallTypes DEF NextCall
<1>2. PICK h, m : h = Made /\ m = h + 1
  OBVIOUS
<1>3. /\ h \in Nat /\ Made' = h + 1 /\ Made' = m /\ h < Len(Program)
      /\ Program[h + 1] = next /\ m = h + 1 /\ UNCHANGED message
  BY <1>1, <1>2 DEF NextCall
<1>4. w \in DOMAIN call
  BY DEF IInv, ConsoleTypes
<1>5. /\ next.op = "put_char" => next = Char(next.arg)
      /\ next.op = "put_int" => next = [op |-> "put_int", arg |-> next.arg]
      /\ next.op = "set_cursor" =>
            next = [op |-> "set_cursor", arg |-> next.arg]
  BY <1>1 DEF ConsoleCall, Char
<1> HIDE DEF next
<1>6. call[w].pc = "idle" => Stage(h)
  <2> SUFFICES ASSUME call[w].pc = "idle" PROVE Stage(h)
    OBVIOUS
  <2>1. call[w].back = "idle" /\ call[w].pc \notin Reading
    BY DEF CallInv, Reading
  <2> QED BY <1>2, <2>1 DEF CallInv
<1>7. CASE next.op = "put_char" /\ PutChar(w, next.arg)
  <2>1. /\ call[w].pc = "idle" /\ call'[w].pc = "get_high"
        /\ call'[w].back = "idle" /\ call'[w].cl = next.arg
    BY <1>4, <1>7 DEF PutChar, At, EnterPutChar, Idle
  <2>2. Stage(h)'
    BY <1>3, <1>6, <1>7, <2>1, EntryStutters, StageKept
  <2>3. call'[w].pc \in Reading /\ Program'[h + 1] = Char(call'[w].cl)
    BY <1>1, <1>3, <1>5, <1>7, <2>1 DEF Reading
  <2> QED BY <1>1, <1>3, <2>1, <2>2, <2>3, AtACharacter
<1>8. CASE next.op = "put_int" /\ PutInt(w, next.arg)
  <2>1. /\ call[w].pc = "idle" /\ call'[w].pc = "store"
        /\ call'[w].back = "next" /\ call'[w].num = next.arg
    BY <1>4, <1>8 DEF PutInt, At, Idle
  <2>2. Stage(h)'
    BY <1>3, <1>6, <1>8, <2>1, EntryStutters, StageKept
  <2>3. Program'[h + 1] = [op |-> "put_int", arg |-> call'[w].num]
    BY <1>1, <1>3, <1>5, <1>8, <2>1
  <2> QED BY <1>1, <1>3, <2>1, <2>2, <2>3, AtANumber
<1>9. CASE next.op = "set_cursor" /\ set_cursor(w, next.arg)
  <2>1. /\ call[w].pc = "idle" /\ call'[w].pc = "set_high"
        /\ call'[w].back = "idle"
    BY <1>4, <1>9 DEF set_cursor, At, SetCursorFrame, Idle
  <2>2. next.arg \in Targets
    BY <1>1, <1>9 DEF ConsoleCall
  <2>3. PICK pos : pos = next.arg
    OBVIOUS
  <2>4. UNCHANGED text /\ Position' = pos
    BY <1>9, <2>2, <2>3, SetCursorMoves
  <2>5. Stage(h + 1)'
    BY <1>3, <1>5, <1>6, <1>9, <2>1, <2>3, <2>4, CursorMoved
  <2>6. Stage(m)'
    BY <1>3, <2>5
  <2>7. call'[w].pc \notin Reading
    BY <2>1 DEF Reading
  <2> QED BY <1>1, <1>3, <2>1, <2>6, <2>7, AtACall
<1> QED BY <1>7, <1>8, <1>9 DEF NextCall, next

-----------------------------------------------------------------------------
(* Before anybody gives up, and when somebody does *)

LEMMA ThreadKeepsBlank ==
    ASSUME NEW w, Writer = {w}, IInv, BlankBehind(Rows), UNCHANGED program,
           Call(w) \/ Step(w)
    PROVE  BlankBehind(Rows)'
<1>1. ASSUME UNCHANGED text, Position' = Position PROVE BlankBehind(Rows)'
  <2>1. PICK rows : rows = Rows
    OBVIOUS
  <2>2. BlankBehind(rows)' <=> BlankBehind(rows)
    BY <1>1, PositionKept
  <2> QED BY <2>1, <2>2 DEF BlankBehind
<1>2. CASE Call(w)
  BY <1>1, <1>2, EntryStutters DEF Call
<1>3. CASE GetCursor(w) \/ SetCursor(w)
  BY <1>1, <1>3, PortsStutter
<1>4. CASE Draw(w)
  BY <1>4, DrawKeepsBlank
<1>5. CASE PutIntStep(w)
  BY <1>1, <1>5, DigitsStutter
<1> QED BY <1>2, <1>3, <1>4, <1>5 DEF Step

\* A failed ASSERT begins its message behind what the thread has written.
LEMMA PanicBegins ==
    ASSUME NEW w, Writer = {w}, IInv, BlankBehind(Rows), Panic(w)
    PROVE  message' # Silent /\ MessageTypes' /\ CallInv(call[w])'
<1>1. PICK line \in Numbers :
         /\ program' = panic_spin(line)
         /\ message' = [by |-> w, why |-> "panic", number |-> line]
  BY DEF Panic
<1>2. /\ message'.by = w /\ message'.why = "panic" /\ message'.number = line
      /\ call'[w] = Idle /\ UNCHANGED text
  BY <1>1 DEF Panic, Forgotten
<1>3. Program' = program' /\ Len(program') = 13 /\ Before' = 0
  BY <1>1, <1>2, PanicIs DEF Program, Before
<1>4. Made' = 0
  BY <1>3 DEF Made
<1>5. MessageTypes'
  <2>1. \A i \in 1..Len(program') : program'[i] = Program'[Made' + i]
    BY <1>3, <1>4
  <2>2. Len(program') <= Len(Program')
    BY <1>3
  <2> QED BY <1>2, <2>1, <2>2 DEF MessageTypes
<1>6. message' # Silent
  <2>1. Silent.by = "nobody"
    BY DEF Silent
  <2> QED BY <1>2, <2>1, ExceptionsAssumption
<1>7. Stage(0)'
  <2>1. Position' = Position
    BY GiveUpMoves
  <2>2. PICK rows : rows = Rows
    OBVIOUS
  <2>3. BlankBehind(rows)' <=> BlankBehind(rows)
    BY <1>2, <2>1, PositionKept
  <2>4. BlankBehind(Rows)'
    BY <2>2, <2>3 DEF BlankBehind
  <2>5. ~(0 > Before')
    BY <1>3
  <2> QED BY <1>2, <2>4, <2>5 DEF Stage
<1>8. call'[w].back = "idle" /\ call'[w].pc \notin Reading
  BY <1>2 DEF Idle, Reading
<1> QED BY <1>4, <1>5, <1>6, <1>7, <1>8, AtACall

\* An exception begins at the top, with set_cursor.
LEMMA ExceptionBegins ==
    ASSUME NEW w, Writer = {w}, IInv, Exception(w)
    PROVE  message' # Silent /\ MessageTypes' /\ CallInv(call[w])'
<1>1. PICK vector \in Vectors, address \in Numbers :
         /\ program' = default_intr_handler(vector, address)
         /\ message' = [by |-> w, why |-> vector, number |-> address]
  BY DEF Exception
<1>2. /\ message'.by = w /\ message'.why = vector /\ message'.number = address
      /\ call'[w] = SetCursorFrame(0) /\ UNCHANGED text
  BY <1>1 DEF Exception, Forgotten
<1>3. vector # "panic"
  BY ExceptionsAssumption
<1>4. Program' = program' /\ Before' = Blanked
  BY <1>1, <1>2, <1>3 DEF Program, Before
<1>5. Len(program') \in Nat /\ Blanked \in Nat
  <2>1. program' \in Seq(ConsoleCall)
    BY <1>1, HandlerType
  <2>2. Blanked \in Nat
    BY HandlerIs DEF Beginning
  <2> QED BY <2>1, <2>2
<1>6. Made' = 0
  BY <1>4, <1>5 DEF Made
<1>7. MessageTypes'
  <2>1. \A i \in 1..Len(program') : program'[i] = Program'[Made' + i]
    BY <1>4, <1>5, <1>6
  <2>2. Len(program') <= Len(Program')
    BY <1>4, <1>5
  <2> QED BY <1>2, <2>1, <2>2 DEF MessageTypes
<1>8. message' # Silent
  <2>1. Silent.by = "nobody"
    BY DEF Silent
  <2> QED BY <1>2, <2>1, ExceptionsAssumption
<1>9. Stage(0)'
  <2>1. Position' = 0
    BY GiveUpMoves
  <2>2. Row' = 0 /\ Col' = 0
    BY <2>1, BlankedIs DEF Row, Col
  <2>3. BlankBefore'
    <3>1. \A r \in 0..Rows - 1, c \in 0..Cols - 1 : ~(r < 0) /\ ~(c < 0)
      BY Sizes
    <3> QED BY <2>2, <3>1 DEF BlankBefore
  <2>4. ~(0 > Before')
    BY <1>4, <1>5
  <2> QED BY <1>2, <1>3, <2>1, <2>3, <2>4 DEF Stage
<1>10. call'[w].back = "idle" /\ call'[w].pc \notin Reading
  BY <1>2 DEF SetCursorFrame, Idle, Reading
<1> QED BY <1>6, <1>7, <1>8, <1>9, <1>10, AtACall

-----------------------------------------------------------------------------
(* The message stays *)

\* Where nothing changes, the frame stays what it is.
LEMMA CallStays ==
    ASSUME NEW w, MessageTypes, MessageTypes', CallInv(call[w]),
           UNCHANGED <<text, message, program, call>>, Position' = Position
    PROVE  CallInv(call[w])'
<1>1. /\ \A m : Stage(m)' <=> Stage(m)
      /\ \A k, n : Written(k, n)' <=> Written(k, n)
  BY StageKept
<1>2. Program' = Program /\ Places' = Places /\ Before' = Before
  BY MessageSame
<1>3. Made' = Made
  BY <1>2 DEF Made
<1>4. PICK m, h : m = Made /\ h = Made - 1
  OBVIOUS
<1>5. PICK k : k = Places[m - Before][1]
  OBVIOUS
<1>6. PICK n : n = DigitsDrawn(call[w])
  OBVIOUS
<1>7. DigitsDrawn(call[w])' = n
  BY <1>6 DEF DigitsDrawn
<1>8. /\ Made' = m /\ Made' - 1 = h /\ Places'[m - Before'][1] = k
  BY <1>2, <1>3, <1>4, <1>5
<1> QED BY <1>1, <1>2, <1>3, <1>4, <1>5, <1>6, <1>7, <1>8 DEF CallInv

LEMMA MessageKept ==
    OneWriter /\ IInv /\ NumbersInv /\ MessageInv /\ [XNext]_xvars =>
        MessageInv'
<1> SUFFICES ASSUME NEW w, Writer = {w}, IInv, NumbersInv, MessageInv,
                    [XNext]_xvars
             PROVE  MessageInv'
  BY DEF OneWriter
<1>1. CASE ThreadStep(w)
  <2>1. message = Silent /\ UNCHANGED <<program, message>>
    BY <1>1 DEF ThreadStep
  <2>2. BlankBehind(Rows)'
    BY <1>1, <2>1, ThreadKeepsBlank DEF ThreadStep, MessageInv
  <2> QED BY <2>1, <2>2 DEF MessageInv, Silent
<1>2. CASE Panic(w)
  <2>1. BlankBehind(Rows)
    BY <1>2 DEF Panic, MessageInv
  <2>2. message' # Silent /\ MessageTypes' /\ CallInv(call[w])'
    BY <1>2, <2>1, PanicBegins
  <2> QED BY <2>2 DEF MessageInv, Silent
<1>3. CASE Exception(w)
  <2>1. message' # Silent /\ MessageTypes' /\ CallInv(call[w])'
    BY <1>3, ExceptionBegins
  <2> QED BY <2>1 DEF MessageInv, Silent
<1>4. CASE GiveUp(w)
  <2>1. message # Silent
    <3>1. message.by = w /\ Silent.by = "nobody"
      BY <1>4 DEF GiveUp, Silent
    <3> QED BY <3>1, ExceptionsAssumption
  <2>2. MessageTypes /\ CallInv(call[w]) /\ UNCHANGED message
    BY <1>4, <2>1 DEF MessageInv, GiveUp, NextCall
  <2>3. MessageTypes' /\ CallInv(call[w])'
    BY <1>4, <2>2, NextCallKeepsMessage, StepKeepsMessage DEF GiveUp
  <2> QED BY <2>1, <2>2, <2>3 DEF MessageInv, Silent
<1>5. CASE UNCHANGED xvars
  <2>1. /\ UNCHANGED <<text, message, program, call>> /\ Position' = Position
    BY <1>5 DEF xvars, vars, Position, Drawn, Cursor
  <2>2. /\ \A m : Stage(m)' <=> Stage(m)
        /\ \A k, n : Written(k, n)' <=> Written(k, n)
    BY <2>1, StageKept
  <2>3. CASE message = Silent
    <3>1. PICK rows : rows = Rows
      OBVIOUS
    <3>2. BlankBehind(rows)' <=> BlankBehind(rows)
      BY <2>1, PositionKept
    <3>3. BlankBehind(Rows)'
      BY <2>3, <3>1, <3>2 DEF BlankBehind, MessageInv
    <3> QED BY <2>1, <2>3, <3>3 DEF MessageInv, Silent
  <2>4. CASE message # Silent
    <3>1. MessageTypes /\ CallInv(call[w])
      BY <2>4 DEF MessageInv
    <3>2. /\ MessageTypes' /\ Made' = Made /\ Program' = Program
          /\ Places' = Places /\ Before' = Before
      BY <2>1, <3>1, StepTypes
    <3>3. CallInv(call[w])'
      BY <2>1, <2>2, <3>1, <3>2, CallStays
    <3> QED BY <2>1, <2>4, <3>2, <3>3 DEF MessageInv, Silent
  <2> QED BY <2>3, <2>4
<1> QED BY <1>1, <1>2, <1>3, <1>4, <1>5 DEF XNext


-----------------------------------------------------------------------------
(* Before the first call, and behind the last *)

LEMMA InitBlank == OneWriter /\ XInit => MessageInv
<1> SUFFICES ASSUME NEW w, Writer = {w}, XInit PROVE MessageInv
  BY DEF OneWriter
<1>1. PICK pos \in 0..Cells - 1, old \in Visible \cup {Blank} :
         /\ reg = [r \in {"high", "low"} |->
                      IF r = "high" THEN pos \div Base ELSE pos % Base]
         /\ text = [i \in 0..VideoCells - 1 |->
                       IF i < pos /\ i % 2 = 0 THEN old ELSE Blank]
  BY DEF XInit, Init
<1>2. Cursor = pos
  <2>1. pos \in 0..Word - 1
    BY Sizes
  <2>2. pos = (pos \div Base) * Base + (pos % Base)
    BY <2>1, BytesOf
  <2> QED BY <1>1, <2>2 DEF Cursor
<1>3. Position = pos
  <2>1. call[w].pc = "idle"
    BY DEF XInit, Init, Idle
  <2> QED BY <1>2, <2>1, PositionIs DEF Writing
<1>4. pos = Row * Cols + Col /\ Row \in 0..Rows - 1 /\ Col \in 0..Cols - 1
  BY <1>3, PlaceOf DEF Row, Col
<1>5. ASSUME NEW r \in 0..Rows - 1, NEW c \in 0..Cols - 1,
             r > Row \/ (r = Row /\ c >= Col)
      PROVE  View(text)[r][c] = Blank
  <2>1. PICK row, col, i : row = Row /\ col = Col /\ i = r * Cols + c
    OBVIOUS
  <2>2. /\ i \in 0..VideoCells - 1 /\ View(text)[r][c] = text[i]
        /\ row \in Nat /\ col \in 0..Cols - 1 /\ pos = row * Cols + col
        /\ Cols \in Nat \ {0} /\ r \in Nat
        /\ r > row \/ (r = row /\ c >= col)
    <3>1. i \in 0..VideoCells - 1 /\ View(text)[r][c] = text[i]
      BY <2>1, CellAt, ViewIs
    <3>2. row \in Nat /\ col \in 0..Cols - 1 /\ pos = row * Cols + col
      BY <1>4, <2>1
    <3>3. r > row \/ (r = row /\ c >= col)
      BY <1>5, <2>1
    <3>4. Cols \in Nat \ {0} /\ r \in Nat
      BY Sizes
    <3> QED BY <3>1, <3>2, <3>3, <3>4
  <2>3. i >= pos
    <3>1. CASE r > row
      <4>1. row * Cols + Cols <= r * Cols /\ row * Cols \in Nat
            /\ r * Cols \in Nat
        BY ONLY <2>2, <3>1, Products
      <4> QED BY <2>1, <2>2, <4>1
    <3>2. CASE r = row /\ c >= col
      <4>1. row * Cols \in Nat
        BY ONLY <2>2, Products
      <4> QED BY <2>1, <2>2, <3>2, <4>1
    <3> QED BY <2>2, <3>1, <3>2
  <2>4. ~(i < pos)
    BY <2>2, <2>3
  <2> QED BY <1>1, <2>2, <2>4
<1>6. BlankBehind(Rows)
  BY <1>5 DEF BlankBehind
<1> QED BY <1>6 DEF MessageInv, XInit

\* Behind the last call all lines are written.
LEMMA AllWritten ==
    ASSUME NEW w, Writer = {w}, IInv, MessageInv, Halted
    PROVE  /\ message.why \in Vectors \cup {"panic"}
           /\ message.number \in Numbers
           /\ call[w].pc = "idle" /\ Written(Len(Lines), 0)
           /\ Len(Lines) \in 3..5
<1>1. MessageTypes /\ CallInv(call[w])
  BY DEF Halted, MessageInv
<1>2. message.by = w /\ call[w].pc = "idle" /\ program = <<>>
  BY <1>1 DEF Halted, MessageTypes
<1>3. PICK m, i, k : m = Made /\ i = Len(Places) /\ k = Len(Lines)
  OBVIOUS
<1>4. /\ i \in Nat \ {0} /\ Before \in Nat /\ Len(Program) = Before + i
      /\ Goes(i, k, 0) /\ k \in 3..5
  BY <1>3, CallsFit DEF ProgramFits
<1>5. m = Before + i /\ m \in Nat
  BY <1>2, <1>3, <1>4 DEF Made
<1>6. Stage(m)
  <2>1. call[w].back = "idle" /\ call[w].pc \notin Reading
    BY <1>1, <1>2 DEF CallInv, Reading
  <2> QED BY <1>1, <1>3, <2>1 DEF CallInv
<1>7. Written(k, 0)
  BY <1>4, <1>5, <1>6, StageIs
<1> QED BY <1>1, <1>2, <1>3, <1>4, <1>7 DEF MessageTypes

LEMMA LinesSeq == DOMAIN Lines = 1..Len(Lines)
<1>1. CASE message.why = "panic"
  <2> DEFINE number == Numeral(message.number)
  <2> HIDE DEF number
  <2>1. Lines = << <<Begin>>, <<Name>>, number, <<Name>>, <<End>> >>
    BY <1>1 DEF Lines, number
  <2> QED BY <2>1
<1>2. CASE message.why # "panic"
  <2> DEFINE indented == [i \in 1 .. Indent |-> Blank] \o <<Name>>
             number == Numeral(message.number)
  <2> HIDE DEF indented, number
  <2>1. Lines = << <<Begin>>, indented >>
                 \o (IF message.why = PageFault THEN <<number>> ELSE <<>>)
                 \o << <<End>> >>
    BY <1>2 DEF Lines, indented, number
  <2> QED BY <2>1
<1> QED BY <1>1, <1>2

\* What is written is what is shown.
LEMMA WrittenShown ==
    ASSUME NEW w, Writer = {w}, IInv, MessageInv, Halted
    PROVE  /\ TopRow \in 0 .. Rows - 1 - Len(Lines)
           /\ Cursor = (TopRow + Len(Lines)) * Cols
           /\ \A i \in DOMAIN Lines : Shows(TopRow + i - 1, Lines[i])
           /\ message.why # "panic" =>
                 \A row \in Len(Lines) .. MessageRows - 1 : Shows(row, <<>>)
<1>1. /\ call[w].pc = "idle" /\ Written(Len(Lines), 0)
      /\ Len(Lines) \in 3..5
  BY AllWritten
<1>2. PICK top \in 0..Rows - 1 : WrittenAt(top, Len(Lines), 0)
  BY <1>1, WrittenIs
<1>3. PICK k : k = Len(Lines)
  OBVIOUS
<1>4. /\ k \in 3..5 /\ top \in Nat /\ Row = top + k /\ Col = 0
      /\ message.why # "panic" => top = 0
      /\ Rows \in Nat /\ Cols \in Nat \ {0} /\ Row \in 0..Rows - 1
      /\ Position = Row * Cols + Col
  <2>1. Row = top + k /\ Col = 0 /\ (message.why # "panic" => top = 0)
    BY <1>2, <1>3 DEF WrittenAt
  <2>2. Row \in 0..Rows - 1 /\ Position = Row * Cols + Col
    BY PlaceType
  <2>3. Rows \in Nat /\ Cols \in Nat \ {0} /\ top \in Nat
    BY Sizes
  <2> QED BY <1>1, <1>3, <2>1, <2>2, <2>3
<1>5. Cursor = (top + k) * Cols
  <2>1. Cursor = Position
    BY <1>1, PositionIs DEF Writing
  <2>2. (top + k) * Cols + 0 = (top + k) * Cols
    <3>1. (top + k) * Cols \in Nat
      BY <1>4, Products
    <3> QED BY <3>1
  <2> QED BY <1>4, <2>1, <2>2
<1>6. TopRow = top
  <2>1. CASE message.why = "panic"
    <3>1. Cursor \div Cols = top + k
      BY <1>1, <1>4, PositionIs DEF Writing, Row
    <3>2. TopRow = (top + k) - k
      BY <1>3, <2>1, <3>1 DEF TopRow
    <3> QED BY <1>4, <3>2
  <2>2. CASE message.why # "panic"
    BY <1>4, <2>2 DEF TopRow
  <2> QED BY <2>1, <2>2
<1>7. top \in 0..Rows - 1 - k
  BY <1>4
<1>8. ASSUME NEW i \in DOMAIN Lines PROVE Shows(top + i - 1, Lines[i])
  <2>1. i \in 1..k
    BY <1>3, LinesSeq
  <2>2. PICK r : r = top + i - 1
    OBVIOUS
  <2>3. r \in 0..Rows - 1
    BY <1>4, <2>1, <2>2
  <2>4. \A c \in 0..Cols - 1 :
           View(text)[r][c] =
              IF c < Len(Lines[i]) THEN Lines[i][c + 1] ELSE Blank
    BY <1>2, <1>3, <2>1, <2>2 DEF WrittenAt
  <2>5. Shows(r, Lines[i])
    BY <2>3, <2>4, ViewIs DEF Shows
  <2> QED BY <2>2, <2>5
<1>9. ASSUME message.why # "panic", NEW row \in k .. MessageRows - 1
      PROVE  Shows(row, <<>>)
  <2>1. MessageRows \in 4..Rows - 1 /\ top = 0
    BY <1>4, <1>9, ExceptionsAssumption
  <2>2. /\ row \in 0..MessageRows - 1 /\ row \in 0..Rows - 1
        /\ row > Row \/ row = Row
    BY <1>4, <1>9, <2>1
  <2>3. BlankBehind(MessageRows)
    BY <1>2, <1>9 DEF WrittenAt
  <2>4. \A c \in 0..Cols - 1 : c >= Col
    BY <1>4
  <2>5. \A c \in 0..Cols - 1 : View(text)[row][c] = Blank
    BY <2>2, <2>3, <2>4 DEF BlankBehind
  <2>6. \A c \in 0..Cols - 1 : text[row * Cols + c] = Blank
    BY <2>2, <2>5, ViewIs
  <2>7. \A c \in 0..Cols - 1 : ~(c < Len(<<>>))
    BY Sizes
  <2> QED BY <2>6, <2>7 DEF Shows
<1> QED BY <1>3, <1>5, <1>6, <1>7, <1>8, <1>9

(* When the kernel has given up, its message stands on the screen, whole    *)
(* and alone in its lines: wherever in put_char, put_int or set_cursor the  *)
(* exception has struck, whatever the threads have written before, and      *)
(* however far the ASSERT's lines have made the screen roll                 *)
(* (interrupt.c:394-432, debug.c:19-45).                                    *)
THEOREM MessageStays == OneWriter => (XSpec => []MessageShown)
<1> SUFFICES ASSUME OneWriter PROVE XSpec => []MessageShown
  OBVIOUS
<1>1. XInit => NumbersInv
  BY DEF XInit, Init, Idle, NumbersInv, NumberInv
<1>2. IInv /\ NumbersInv /\ [XNext]_xvars => NumbersInv'
  BY NumbersKept
<1>3. XInit => MessageInv
  BY InitBlank
<1>4. IInv /\ NumbersInv /\ MessageInv /\ [XNext]_xvars => MessageInv'
  BY MessageKept
<1>5. IInv /\ MessageInv => MessageShown
  <2> SUFFICES ASSUME NEW w, Writer = {w}, IInv, MessageInv, Halted
               PROVE  MessageShown
    BY DEF OneWriter, MessageShown
  <2> QED BY WrittenShown DEF MessageShown
<1> QED BY <1>1, <1>2, <1>3, <1>4, <1>5, CursorIsOne, PTL DEF XSpec
=============================================================================
