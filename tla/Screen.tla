-------------------------------- MODULE Screen -------------------------------
(***************************************************************************)
(* What the console promises to whoever looks at the screen: Rows lines of *)
(* Cols characters, a position, and scrolling by one line at the end.      *)
(***************************************************************************)
EXTENDS Integers

CONSTANTS Rows, Cols, Visible, Blank, Targets

VARIABLES line, row, col

Screenful == [0..Rows - 1 -> [0..Cols - 1 -> Visible \cup {Blank}]]

SInit ==
    /\ line \in Screenful
    /\ row \in 0..Rows - 1
    /\ col \in 0..Cols - 1

\* From the picture p, to the beginning of the next line
NextLine(p) ==
    /\ col' = 0
    /\ IF row < Rows - 1
       THEN row' = row + 1 /\ line' = p
       ELSE /\ row' = row
            /\ line' = [r \in 0..Rows - 1 |->
                           IF r < Rows - 1 THEN p[r + 1]
                           ELSE [c \in 0..Cols - 1 |-> Blank]]

Type(ch) ==
    LET picture == [line EXCEPT ![row][col] = ch]
    IN  IF col < Cols - 1
        THEN line' = picture /\ col' = col + 1 /\ UNCHANGED row
        ELSE NextLine(picture)

NewLine == NextLine(line)

\* Erase the character before the position, if there is one
Erase ==
    /\ row > 0 \/ col > 0
    /\ row' = IF col > 0 THEN row ELSE row - 1
    /\ col' = IF col > 0 THEN col - 1 ELSE Cols - 1
    /\ line' = [line EXCEPT ![row'][col'] = Blank]

\* To one of the positions that somebody asks for
Move ==
    /\ \E target \in Targets : row' = target \div Cols /\ col' = target % Cols
    /\ UNCHANGED line

SNext == NewLine \/ Erase \/ Move \/ \E ch \in Visible \cup {Blank} : Type(ch)

svars == <<line, row, col>>

SSpec == SInit /\ [][SNext]_svars
=============================================================================
