------------------------------ MODULE ConsoleInv ------------------------------
(***************************************************************************)
(* The inductive invariant of the console with one writer, which any       *)
(* exception may interrupt for good: what put_char, put_int and set_cursor *)
(* have worked out between two accesses to the ports.                      *)
(***************************************************************************)
EXTENDS Exceptions

OneWriter == \E w : Writer = {w}

Character == Visible \cup {Blank, LF, BS}

Frame == [pc : Points, cl : Character, bx : 0..Word - 1, ah : 0..Base - 1,
          back : {"idle", "next"}, num : Nat, eax : Nat, edi : 0..Digits]

\* The handler and panic_spin erase nothing.
ConsoleCall ==
    [op : {"put_char"}, arg : Visible \cup {Blank, LF}]
    \cup [op : {"put_int"}, arg : Numbers]
    \cup [op : {"set_cursor"}, arg : Targets]

ConsoleTypes ==
    /\ index \in {"high", "low"}
    /\ reg \in [{"high", "low"} -> 0..Base - 1]
    /\ text \in [0..VideoCells - 1 -> Visible \cup {Blank}]
    /\ call \in [Writer -> Frame]
    /\ put_int_buffer \in [0..Digits - 1 -> 0..Radix - 1]
    /\ fault = FALSE
    /\ program \in Seq(ConsoleCall)

\* Between the first access that reads the cursor and the drawing, and from
\* there to the last access that writes it
Reading == {"get_high", "read_high", "get_low", "read_low", "draw"}
Writing == {"set_high", "write_high", "set_low", "write_low"}

\* The frame c of the writer: only while it writes the cursor may the two
\* registers, together, be a position that is not on the screen.
FrameInv(c) ==
    /\ c.pc \notin Writing => Cursor < Cells
    /\ c.pc \in Writing => c.bx < Cells
    /\ c.pc \in {"read_high", "write_high"} => index = "high"
    /\ c.pc \in {"read_low", "write_low"} => index = "low"
    /\ c.pc \in {"get_low", "read_low"} => c.ah = reg["high"]
    /\ c.pc = "draw" => c.bx = Cursor
    /\ c.pc \in {"set_low", "write_low"} => reg["high"] = c.bx \div Base
    /\ c.pc \in Reading /\ c.cl = BS => Cursor > 0
    /\ c.pc = "store" => c.edi < Digits

IInv == ConsoleTypes /\ \A w \in Writer : FrameInv(call[w])

-----------------------------------------------------------------------------
(* Numbers *)

\* The digits of num are in the buffer, from a place on.
DigitsFrom(place, num) ==
    \A i \in place .. Digits - 1 : put_int_buffer[i] = DigitOf(num, i)

\* What put_int has done of its number: EAX holds the digits that are still to
\* be stored, EDI is behind the zeros that have been skipped; between two
\* digits, and while put_char prints one, all of them stay in the buffer.
NumberInv(c) ==
    /\ c.pc \in {"store", "skip", "next"} => c.back = "next"
    /\ c.back = "next" => c.num \in Numbers
    /\ c.pc = "store" => /\ c.eax = c.num \div Weight[Digits - 1 - c.edi]
                         /\ DigitsFrom(c.edi + 1, c.num)
    /\ c.pc = "skip" => /\ DigitsFrom(0, c.num)
                        /\ \A i \in 0 .. c.edi - 1 : DigitOf(c.num, i) = 0
    /\ c.back = "next" /\ c.pc \notin {"store", "skip"} =>
          /\ DigitsFrom(0, c.num)
          /\ c.num = 0 => c.edi = Digits

NumbersInv == \A w \in Writer : NumberInv(call[w])

-----------------------------------------------------------------------------
(* The message *)

\* The lines that text memory t shows
View(t) == [r \in 0..Rows - 1 |-> [c \in 0..Cols - 1 |-> t[r * Cols + c]]]

Row == Position \div Cols
Col == Position % Cols

BlankBehind(rows) ==
    \A r \in 0 .. rows - 1, c \in 0 .. Cols - 1 :
        r > Row \/ (r = Row /\ c >= Col) => View(text)[r][c] = Blank

BlankBefore ==
    \A r \in 0 .. Rows - 1, c \in 0 .. Cols - 1 :
        r < Row \/ (r = Row /\ c < Col) => View(text)[r][c] = Blank

\* All that whoever gives up calls
Program ==
    IF message.why = "panic" THEN panic_spin(message.number)
    ELSE default_intr_handler(message.why, message.number)

Made == Len(Program) - Len(program)

\* Calls of the handler before those that write the lines
Before == IF message.why = "panic" THEN 0 ELSE Blanked

\* Where each of the other calls leaves the cursor: behind so many lines, and
\* so many characters of the next
Places ==
    LET Width == Len(Numeral(message.number)) IN
    IF message.why = "panic"
    THEN << <<0, 0>>, <<0, 0>>, <<0, 0>>, <<0, 1>>, <<1, 0>>, <<1, 1>>,
            <<2, 0>>, <<2, Width>>, <<3, 0>>, <<3, 1>>, <<4, 0>>, <<4, 1>>,
            <<5, 0>> >>
    ELSE << <<0, 0>>, <<0, 1>>, <<1, 0>>, <<1, Indent>>, <<1, Indent + 1>>,
            <<2, 0>> >>
         \o (IF message.why = PageFault
             THEN << <<2, Width>>, <<3, 0>>, <<3, 1>>, <<4, 0>> >>
             ELSE << <<2, 1>>, <<3, 0>> >>)

\* k lines and n characters of the next are written, and nothing else is in
\* the rows where the message is still to come.
Written(k, n) ==
    \E top \in 0 .. Rows - 1 :
        /\ message.why # "panic" => top = 0
        /\ Row = top + k /\ Col = n
        /\ \A i \in 1 .. k, c \in 0 .. Cols - 1 :
              View(text)[top + i - 1][c] =
                 IF c < Len(Lines[i]) THEN Lines[i][c + 1] ELSE Blank
        /\ \A c \in 0 .. n - 1 : View(text)[Row][c] = Lines[k + 1][c + 1]
        /\ BlankBehind(IF message.why = "panic" THEN Rows ELSE MessageRows)

\* What the screen shows behind m calls
Stage(m) ==
    IF m > Before THEN Written(Places[m - Before][1], Places[m - Before][2])
    ELSE IF message.why = "panic" THEN BlankBehind(Rows)
    ELSE Position = m /\ BlankBefore

\* The digits of the number that are drawn when put_char draws, or has drawn,
\* the one in the frame c
DigitsDrawn(c) == c.edi - First(c.num) + (IF c.pc \in Reading THEN 0 ELSE 1)

\* The frame c of whoever gives up
CallInv(c) ==
    /\ c.pc = "idle" => c.back = "idle"
    /\ c.back = "idle" /\ c.pc \notin Reading => Stage(Made)
    /\ c.back = "idle" /\ c.pc \in Reading =>
          /\ Made > 0 /\ Program[Made] = [op |-> "put_char", arg |-> c.cl]
          /\ Stage(Made - 1)
    /\ c.back = "next" =>
          /\ Made > 0 /\ Program[Made] = [op |-> "put_int", arg |-> c.num]
          /\ IF c.pc \in {"store", "skip"} THEN Stage(Made - 1)
             ELSE /\ DigitsDrawn(c) \in 0 .. Len(Numeral(c.num))
                  /\ Written(Places[Made - Before][1], DigitsDrawn(c))
                  /\ c.pc \in Reading =>
                        /\ DigitsDrawn(c) < Len(Numeral(c.num))
                        /\ c.cl = Numeral(c.num)[DigitsDrawn(c) + 1]

MessageTypes ==
    /\ message.by \in Writer /\ message.why \in Vectors \cup {"panic"}
    /\ message.number \in Numbers
    /\ Len(program) <= Len(Program)
    /\ \A i \in 1 .. Len(program) : program[i] = Program[Made + i]

\* Before anybody gives up nothing is behind the cursor.
MessageInv ==
    /\ message = Silent => BlankBehind(Rows)
    /\ message # Silent =>
          /\ MessageTypes
          /\ \A w \in Writer : CallInv(call[w])
=============================================================================
