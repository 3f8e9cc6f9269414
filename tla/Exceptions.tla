------------------------------ MODULE Exceptions ------------------------------
(***************************************************************************)
(* What the kernel prints when it gives up: default_intr_handler of        *)
(* kernel/interrupt.c, wherever in put_char or put_int an exception strikes,*)
(* and panic_spin of kernel/debug.c.  Both are rows of calls of the console*)
(* made with interrupts disabled, and both end in while(1).  A text of the *)
(* code is one character here, and none is longer than its line.           *)
(***************************************************************************)
EXTENDS Console, Sequences

CONSTANTS
    MaxCalls,       \* bound: calls the threads make before
    MessageRows,    \* 4: rows that the handler blanks
    Indent,         \* 8: where in its row the name begins
    PageFault,      \* 14
    Vectors,        \* exceptions that strike
    Begin, Name, End    \* the texts

ASSUME ExceptionsAssumption ==
    /\ MaxCalls \in Nat /\ MessageRows \in 4..Rows - 1 /\ Indent \in 0..Cols - 2
    /\ Rows > 5 \* the five lines of panic_spin and the cursor's
    /\ "panic" \notin Vectors /\ "nobody" \notin Writer
    /\ {Begin, Name, End} \subseteq Visible
    /\ Targets = {0, Cols + Indent}
    /\ Digits < Cols /\ Numbers # {}

VARIABLES
    calls,          \* made by the threads so far
    program,        \* calls left to whoever gives up
    message         \* who gives up, why, and the number that is shown

xvars == <<vars, calls, program, message>>

Silent == [by |-> "nobody", why |-> "panic", number |-> 0]

-----------------------------------------------------------------------------
(* Rows of calls *)

SetCursorTo(pos) == <<[op |-> "set_cursor", arg |-> pos]>>
Number(num) == <<[op |-> "put_int", arg |-> num]>>
put_str(string) ==
    [i \in DOMAIN string |-> [op |-> "put_char", arg |-> string[i]]]

\* Deliberate error: one row less.
BlankedShort == (MessageRows - 1) * Cols

\* while (cursor_pos < 320)
Blanked == MessageRows * Cols

\* default_intr_handler behind its first set_cursor(0)
default_intr_handler(vector, page_fault_vaddr) ==
    put_str([i \in 1 .. Blanked |-> Blank])
    \o SetCursorTo(0) \o put_str(<<Begin, LF>>)
    \o SetCursorTo(Cols + Indent) \o put_str(<<Name>>)
    \o (IF vector = PageFault
        THEN put_str(<<LF>>) \o Number(page_fault_vaddr) ELSE <<>>)
    \o put_str(<<LF, End, LF>>)

\* panic_spin: file, line, function and condition
panic_spin(line) ==
    put_str(<<LF, LF, LF, Begin, LF, Name, LF>>) \o Number(line)
    \o put_str(<<LF, Name, LF, End, LF>>)

-----------------------------------------------------------------------------
XInit ==
    /\ Init
    /\ calls = 0
    /\ program = <<>>
    /\ message = Silent

ThreadStep(w) ==
    /\ message = Silent
    /\ \/ calls < MaxCalls /\ Call(w) /\ calls' = calls + 1
       \/ Step(w) /\ UNCHANGED calls
    /\ UNCHANGED <<program, message>>

\* Calls that are interrupted for good: nobody goes on with them.
Forgotten == [w \in Writer |-> Idle]

\* An ASSERT of the thread fails, between its calls of the console.
Panic(w) ==
    /\ message = Silent
    /\ At(w, "idle")
    /\ \E line \in Numbers :
          /\ program' = panic_spin(line)
          /\ message' = [by |-> w, why |-> "panic", number |-> line]
    /\ call' = Forgotten
    /\ UNCHANGED <<index, reg, text, put_int_buffer, fault, calls>>

\* An exception, at any instruction of the thread; what it did is left as it is,
\* and the handler begins with set_cursor(0).  The access behind the segment is
\* one that is not a page fault.
Exception(w) ==
    /\ message = Silent
    /\ \E vector \in Vectors, address \in Numbers :
          /\ fault => vector # PageFault
          /\ program' = default_intr_handler(vector, address)
          /\ message' = [by |-> w, why |-> vector, number |-> address]
    /\ call' = [Forgotten EXCEPT ![w] = SetCursorFrame(0)]
    /\ fault' = FALSE
    /\ UNCHANGED <<index, reg, text, put_int_buffer, calls>>

\* The next call of the handler or of panic_spin
NextCall(w) ==
    /\ program # <<>>
    /\ LET next == Head(program) IN
       \/ next.op = "put_char" /\ PutChar(w, next.arg)
       \/ next.op = "put_int" /\ PutInt(w, next.arg)
       \/ next.op = "set_cursor" /\ set_cursor(w, next.arg)
    /\ program' = Tail(program)
    /\ UNCHANGED <<calls, message>>

\* With interrupts disabled nobody else runs.
GiveUp(w) ==
    /\ message.by = w
    /\ \/ NextCall(w)
       \/ Step(w) /\ UNCHANGED <<calls, program, message>>

XNext ==
    \E w \in Writer :
        ThreadStep(w) \/ Panic(w) \/ Exception(w) \/ GiveUp(w)

XSpec == XInit /\ [][XNext]_xvars

-----------------------------------------------------------------------------
(* Correctness *)

\* while (1)
Halted ==
    /\ message # Silent
    /\ program = <<>>
    /\ call[message.by].pc = "idle"

\* num as it is written: its digits without leading zeros
Numeral(num) ==
    IF num = 0 THEN <<0>>
    ELSE [i \in 1 .. Digits - First(num) |-> DigitOf(num, First(num) + i - 1)]

Lines ==
    IF message.why = "panic"
    THEN << <<Begin>>, <<Name>>, Numeral(message.number), <<Name>>, <<End>> >>
    ELSE << <<Begin>>, [i \in 1 .. Indent |-> Blank] \o <<Name>> >>
         \o (IF message.why = PageFault
             THEN <<Numeral(message.number)>> ELSE <<>>)
         \o << <<End>> >>

\* Where the message begins: the handler's at the top, the other at the cursor
TopRow ==
    IF message.why = "panic" THEN Cursor \div Cols - Len(Lines) ELSE 0

Shows(row, string) ==
    \A c \in 0 .. Cols - 1 :
        text[row * Cols + c] =
            IF c < Len(string) THEN string[c + 1] ELSE Blank

(* When the kernel has given up, the screen shows why and nothing else in   *)
(* those lines, whatever the threads were printing when it did: the banner, *)
(* the name, of a page fault the address, and of a failed ASSERT the file,  *)
(* line, function and condition (interrupt.c:394-432, debug.c:19-45).       *)
MessageShown ==
    Halted =>
        /\ TopRow \in 0 .. Rows - 1 - Len(Lines)
        /\ Cursor = (TopRow + Len(Lines)) * Cols
        /\ \A i \in DOMAIN Lines : Shows(TopRow + i - 1, Lines[i])
        /\ message.why # "panic" =>
              \A row \in Len(Lines) .. MessageRows - 1 : Shows(row, <<>>)
=============================================================================
