------------------------------- MODULE Console -------------------------------
(***************************************************************************)
(* lib/kernel/print.S: the cursor is read from and written to the CRT      *)
(* controller through an index port and a data port, a byte at a time, and *)
(* the character goes straight to the text memory.  One step per access to *)
(* a port or to the digits of put_int; the drawing between reading and     *)
(* writing the cursor is one step.  Attributes are left out: put_char      *)
(* always writes 0x07.                                                     *)
(*                                                                         *)
(* put_str calls put_char for one character after the other; its pointer,  *)
(* in EBX, is the caller's place in its row of calls.                      *)
(***************************************************************************)
EXTENDS Integers

CONSTANTS
    Rows, Cols,     \* 25 and 80 in the code
    Base,           \* 256: values of a byte; BX holds Base * Base values
    VideoCells,     \* characters in the segment GS selects: 0x8000 / 2
    Visible, Blank, \* characters; a blank is 0x20
    LF,             \* 0x0a, and 0x0d, which is treated alike
    BS,             \* 0x08
    Control,        \* those of LF and BS that are printed
    Radix, Digits,  \* put_int: 16, and 8 of them in 32 bits
    Numbers,        \* those that put_int is asked for
    Targets,        \* positions that set_cursor is asked for
    Writer          \* threads that print with EFLAGS.IF set

\* What a digit stands for, k places from the right: Radix ^ k
Weight[k \in 0..Digits] == IF k = 0 THEN 1 ELSE Radix * Weight[k - 1]

ASSUME ConsoleAssumption ==
    /\ Rows \in Nat \ {0, 1} /\ Cols \in Nat \ {0}
    /\ Base \in Nat \ {0} /\ Base % 2 = 0
    /\ VideoCells \in Nat
    /\ (Rows + 1) * Cols < VideoCells
    /\ 2 * VideoCells <= Base * Base
    /\ Control \subseteq {LF, BS}
    /\ LF \notin Visible /\ BS \notin Visible /\ Blank \notin Visible
    /\ LF # BS /\ Blank \notin {LF, BS}
    /\ Radix \in Nat \ {0} /\ Digits \in Nat \ {0}
    /\ Numbers \subseteq 0..Weight[Digits] - 1
    /\ Targets \subseteq 0..Rows * Cols - 1
    /\ Numbers # {} => 0..Radix - 1 \subseteq Visible

VARIABLES
    index,          \* the CRT controller register the data port stands for
    reg,            \* cursor location high (0x0e) and low (0x0f) register
    text,           \* the characters of the text memory
    call,           \* how far each writer is: its place, CL, BX, AH, where
                    \* put_char goes back to, put_int's argument, EAX and EDI
    put_int_buffer, \* the digits, each standing for its character
    fault           \* an access behind the end of the segment: #GP

vars == <<index, reg, text, call, put_int_buffer, fault>>

Cells == Rows * Cols
Word == Base * Base
Cursor == reg["high"] * Base + reg["low"]

Idle == [pc |-> "idle", cl |-> LF, bx |-> 0, ah |-> 0, back |-> "idle",
         num |-> 0, eax |-> 0, edi |-> 0]

\* What the loader has printed: it ends at the cursor.
Init ==
    /\ index \in {"high", "low"}
    /\ \E pos \in 0..Cells - 1, old \in Visible \cup {Blank} :
          /\ reg = [r \in {"high", "low"} |->
                       IF r = "high" THEN pos \div Base ELSE pos % Base]
          /\ text = [i \in 0..VideoCells - 1 |->
                        IF i < pos /\ i % 2 = 0 THEN old ELSE Blank]
    /\ call = [w \in Writer |-> Idle]
    /\ put_int_buffer = [i \in 0..Digits - 1 |-> 0]
    /\ fault = FALSE

-----------------------------------------------------------------------------
At(w, point) == ~fault /\ call[w].pc = point

Goto(w, point) == call' = [call EXCEPT ![w].pc = point]

\* Into put_char, from the frame c
EnterPutChar(w, c, char) ==
    call' = [call EXCEPT ![w] = [c EXCEPT !.pc = "get_high", !.cl = char]]

\* popad; ret: back to put_int, or to whoever called
Return(w) ==
    LET c == call[w] IN
    call' = [call EXCEPT ![w] =
                IF c.back = "idle" THEN Idle
                ELSE [Idle EXCEPT !.pc = c.back, !.back = c.back,
                                  !.num = c.num, !.edi = c.edi]]

\* The callers of put_char erase only what they have printed.
PutChar(w, char) ==
    /\ At(w, "idle")
    /\ char = BS => Cursor > 0
    /\ EnterPutChar(w, Idle, char)
    /\ UNCHANGED <<index, reg, text, put_int_buffer, fault>>

\* In set_cursor, whose accesses to the ports are those at the end of put_char
SetCursorFrame(cursor_pos) == [Idle EXCEPT !.pc = "set_high", !.bx = cursor_pos]

set_cursor(w, cursor_pos) ==
    /\ At(w, "idle")
    /\ call' = [call EXCEPT ![w] = SetCursorFrame(cursor_pos)]
    /\ UNCHANGED <<index, reg, text, put_int_buffer, fault>>

\* out 0x03d4, al
Select(w, point, register, next) ==
    /\ At(w, point)
    /\ index' = register
    /\ Goto(w, next)
    /\ UNCHANGED <<reg, text, put_int_buffer, fault>>

\* in al, 0x03d5; mov ah, al
ReadHigh(w) ==
    /\ At(w, "read_high")
    /\ call' = [call EXCEPT ![w].ah = reg[index], ![w].pc = "get_low"]
    /\ UNCHANGED <<index, reg, text, put_int_buffer, fault>>

\* in al, 0x03d5; mov bx, ax
ReadLow(w) ==
    /\ At(w, "read_low")
    /\ call' = [call EXCEPT ![w].bx = call[w].ah * Base + reg[index],
                            ![w].pc = "draw"]
    /\ UNCHANGED <<index, reg, text, put_int_buffer, fault>>

\* out 0x03d5, al
WriteRegister(w, point, byte, then) ==
    /\ At(w, point)
    /\ reg' = [reg EXCEPT ![index] = byte]
    /\ then
    /\ UNCHANGED <<index, text, put_int_buffer, fault>>

-----------------------------------------------------------------------------
(* Drawing *)

\* cmp bx, 2000; jl: a signed comparison of 16 bits
OnScreen(bx) == bx < Cells \/ bx >= Word \div 2

\* shl bx, 1 loses the highest bit; shr bx, 1 does not bring it back.
Cell(bx) == bx % (Word \div 2)

\* .roll_screen
Roll(t) ==
    [i \in DOMAIN t |-> IF i < Cells - Cols THEN t[i + Cols]
                        ELSE IF i < Cells THEN Blank
                        ELSE t[i]]

\* The end of a drawing that leaves text t and would set the cursor to bx
Finish(w, t, bx) ==
    /\ text' = IF OnScreen(bx) THEN t ELSE Roll(t)
    /\ call' = [call EXCEPT ![w].bx = IF OnScreen(bx) THEN bx ELSE Cells - Cols,
                            ![w].pc = "set_high"]
    /\ UNCHANGED <<index, reg, put_int_buffer, fault>>

\* Deliberate error: a new line from the position, not from the line's start.
NewLineStraight(bx) == (bx + Cols) % Word

\* sub bx, dx; add bx, 80
NewLine(bx) == ((bx - (bx % Cols)) + Cols) % Word

DrawNewLine(w) ==
    /\ At(w, "draw")
    /\ call[w].cl = LF
    /\ Finish(w, text, NewLine(call[w].bx))

\* An access behind the segment is a general protection fault, and its
\* handler does not return.
SegmentFault ==
    fault' = TRUE /\ UNCHANGED <<index, reg, text, call, put_int_buffer>>

\* .put_other: on past the last cell it falls into the new-line code.
DrawVisible(w) ==
    LET cell == Cell(call[w].bx)
        next == cell + 1
    IN  /\ At(w, "draw")
        /\ call[w].cl \in Visible \cup {Blank}
        /\ IF cell >= VideoCells
           THEN SegmentFault
           ELSE Finish(w, [text EXCEPT ![cell] = call[w].cl],
                       IF OnScreen(next) THEN next ELSE NewLine(next))

\* .is_backspace
DrawBackspace(w) ==
    LET cell == Cell((call[w].bx - 1) % Word)
    IN  /\ At(w, "draw")
        /\ call[w].cl = BS
        /\ IF cell >= VideoCells
           THEN SegmentFault
           ELSE /\ text' = [text EXCEPT ![cell] = Blank]
                /\ call' = [call EXCEPT ![w].bx = cell, ![w].pc = "set_high"]
                /\ UNCHANGED <<index, reg, put_int_buffer, fault>>

Draw(w) == DrawNewLine(w) \/ DrawVisible(w) \/ DrawBackspace(w)

GetCursor(w) ==
    \/ Select(w, "get_high", "high", "read_high")
    \/ ReadHigh(w)
    \/ Select(w, "get_low", "low", "read_low")
    \/ ReadLow(w)

\* Deliberate error: the low byte is written to the high register.
SetCursorNoSelect(w) ==
    \/ Select(w, "set_high", "high", "write_high")
    \/ WriteRegister(w, "write_high", call[w].bx \div Base,
                     Goto(w, "write_low"))
    \/ WriteRegister(w, "write_low", call[w].bx % Base, Return(w))

SetCursor(w) ==
    \/ Select(w, "set_high", "high", "write_high")
    \/ WriteRegister(w, "write_high", call[w].bx \div Base,
                     Goto(w, "set_low"))
    \/ Select(w, "set_low", "low", "write_low")
    \/ WriteRegister(w, "write_low", call[w].bx % Base, Return(w))

-----------------------------------------------------------------------------
(* put_int *)

PutInt(w, num) ==
    /\ At(w, "idle")
    /\ call' = [call EXCEPT ![w] = [Idle EXCEPT !.pc = "store", !.num = num,
                                                !.eax = num, !.edi = Digits - 1,
                                                !.back = "next"]]
    /\ UNCHANGED <<index, reg, text, put_int_buffer, fault>>

\* .store_single_num: from the last digit to the first
StoreDigit(w) ==
    LET c == call[w] IN
    /\ At(w, "store")
    /\ put_int_buffer' = [put_int_buffer EXCEPT ![c.edi] = c.eax % Radix]
    /\ call' = [call EXCEPT ![w] =
                   [c EXCEPT !.eax = @ \div Radix,
                             !.edi = IF @ > 0 THEN @ - 1 ELSE 0,
                             !.pc = IF c.edi > 0 THEN "store" ELSE "skip"]]
    /\ UNCHANGED <<index, reg, text, fault>>

\* Deliberate error: zeros are not skipped.
IsPrefix0Never(edi) == FALSE

IsPrefix0(edi) == edi < Digits /\ put_int_buffer[edi] = 0

\* .skip_prefix_0, .go_on_skip
SkipPrefix0(w) ==
    /\ At(w, "skip")
    /\ IsPrefix0(call[w].edi)
    /\ call' = [call EXCEPT ![w].edi = @ + 1]
    /\ UNCHANGED <<index, reg, text, put_int_buffer, fault>>

\* The first digit that is printed; of 0 it is the one .all_0 supplies
FirstDigit(w) ==
    LET edi == call[w].edi IN
    /\ At(w, "skip")
    /\ ~IsPrefix0(edi)
    /\ EnterPutChar(w, call[w], IF edi = Digits THEN 0 ELSE put_int_buffer[edi])
    /\ UNCHANGED <<index, reg, text, put_int_buffer, fault>>

\* .put_each_num
NextDigit(w) ==
    LET edi == call[w].edi + 1 IN
    /\ At(w, "next")
    /\ IF edi < Digits
       THEN EnterPutChar(w, [call[w] EXCEPT !.edi = edi], put_int_buffer[edi])
       ELSE call' = [call EXCEPT ![w] = Idle]
    /\ UNCHANGED <<index, reg, text, put_int_buffer, fault>>

PutIntStep(w) ==
    StoreDigit(w) \/ SkipPrefix0(w) \/ FirstDigit(w) \/ NextDigit(w)

-----------------------------------------------------------------------------
\* A writer calls put_char or put_int.
Call(w) ==
    \/ \E char \in Visible \cup Control : PutChar(w, char)
    \/ \E num \in Numbers : PutInt(w, num)

Step(w) == GetCursor(w) \/ Draw(w) \/ SetCursor(w) \/ PutIntStep(w)

Next == \E w \in Writer : Call(w) \/ Step(w)

Spec == Init /\ [][Next]_vars

-----------------------------------------------------------------------------
(* Correctness *)

Points == {"idle", "get_high", "read_high", "get_low", "read_low", "draw",
           "set_high", "write_high", "set_low", "write_low",
           "store", "skip", "next"}

TypeOK ==
    /\ index \in {"high", "low"}
    /\ reg \in [{"high", "low"} -> 0..Base - 1]
    /\ text \in [0..VideoCells - 1 -> Visible \cup {Blank}]
    /\ call \in [Writer -> [pc : Points, cl : Visible \cup {Blank, LF, BS},
                            bx : 0..Word - 1, ah : 0..Base - 1,
                            back : {"idle", "next"},
                            num : Numbers \cup {0},
                            eax : 0..Weight[Digits] - 1, edi : 0..Digits]]
    /\ put_int_buffer \in [0..Digits - 1 -> 0..Radix - 1]
    /\ fault \in BOOLEAN

(* The comment on the cursor: its value is one of the screen's positions,   *)
(* 0 to 1999 (print.S:95-97), whenever put_char has read it or nobody is    *)
(* printing.                                                                *)
CursorInRange ==
    /\ \A w \in Writer : call[w].pc = "draw" => call[w].bx < Cells
    /\ (\A w \in Writer : call[w].pc = "idle") => Cursor < Cells

\* The digit of num at a place, counted from the left
DigitOf(num, place) == (num \div Weight[Digits - 1 - place]) % Radix

\* Where the digits of num without leading zeros begin; Digits for 0
First(num) ==
    CHOOSE place \in 0..Digits :
        /\ \A i \in 0..place - 1 : DigitOf(num, i) = 0
        /\ place < Digits => DigitOf(num, place) # 0

(* What put_int hands to put_char is the number it was asked for: it begins *)
(* with the first digit that is not 0, ends with the last, leaves none out, *)
(* and of 0 prints one digit (print.S:331-418).                             *)
NumberPrinted(w) ==
    LET c == call[w]
        d == call'[w]
    IN  /\ c.pc \in {"skip", "next"} /\ d.pc = "get_high" =>
              /\ d.edi = IF c.pc = "skip" THEN First(c.num) ELSE c.edi + 1
              /\ d.cl = IF c.num = 0 THEN 0 ELSE DigitOf(c.num, d.edi)
        /\ c.pc = "next" /\ d.pc = "idle" => c.edi >= Digits - 1

NumbersInHex == [][\A w \in Writer : NumberPrinted(w)]_call

-----------------------------------------------------------------------------
(* Refinement: put_char takes effect when it draws; until it has written it *)
(* back the position is the one it holds in BX.                             *)

Drawn(w) == call[w].pc \in {"set_high", "write_high", "set_low", "write_low"}

Position ==
    IF \E w \in Writer : Drawn(w)
    THEN call[CHOOSE w \in Writer : Drawn(w)].bx
    ELSE Cursor

S == INSTANCE Screen WITH
        line <- [r \in 0..Rows - 1 |-> [c \in 0..Cols - 1 |->
                    text[r * Cols + c]]],
        row <- Position \div Cols,
        col <- Position % Cols

(* Printing by one thread at a time is printing on a screen of lines that   *)
(* wrap and scroll (print.S:81-280).                                        *)
ImplementsScreen == S!SSpec
=============================================================================
