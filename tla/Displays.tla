------------------------------ MODULE Displays ------------------------------
(***************************************************************************)
(* What the terminals promise their programs and their user: each has a    *)
(* display of its own, rows of cells and a cursor, on which text is        *)
(* written like on a roll of paper.  One of them is shown, and only what   *)
(* is shown changes; to show another one changes no display.               *)
(***************************************************************************)
EXTENDS Integers

CONSTANTS
    Terminal,
    Rows, Cols,     \* size of a display
    Glyph,          \* what a cell can hold
    Blank

VARIABLES
    shown,          \* the terminal that the user sees
    display         \* of each terminal: its lines and the place of its cursor

displayVars == <<shown, display>>

Row == 0 .. Rows - 1
Col == 0 .. Cols - 1
EmptyLine == [c \in Col |-> Blank]

Display == [line : [Row -> [Col -> Glyph]], row : Row, col : Col]

\* The top line goes and an empty one comes in at the bottom.
Rolled(line) == [r \in Row |-> IF r + 1 \in Row THEN line[r + 1] ELSE EmptyLine]

\* The cursor at the start of the next line.
LineFeed(d) ==
    IF d.row + 1 \in Row
      THEN [d EXCEPT !.row = @ + 1, !.col = 0]
      ELSE [line |-> Rolled(d.line), row |-> d.row, col |-> 0]

Put(d, g) ==
    LET put == [d EXCEPT !.line[d.row][d.col] = g]
    IN  IF d.col + 1 \in Col THEN [put EXCEPT !.col = @ + 1] ELSE LineFeed(put)

\* The cell before the cursor, perhaps the last one of the line above, becomes blank.
Erased(d) ==
    IF d.col > 0 THEN [d EXCEPT !.line[d.row][d.col - 1] = Blank, !.col = @ - 1]
    ELSE IF d.row > 0
      THEN [line |-> [d.line EXCEPT ![d.row - 1][Cols - 1] = Blank],
            row |-> d.row - 1, col |-> Cols - 1]
    ELSE d

Empty == [line |-> [r \in Row |-> EmptyLine], row |-> 0, col |-> 0]

DisplayInit == shown \in Terminal /\ display \in [Terminal -> Display]

Show(i) == shown' = i /\ UNCHANGED display

\* What a display can become: text is written, or a program draws.
Changes(d) ==
    {Put(d, g) : g \in Glyph} \union {LineFeed(d), Erased(d), Empty}
    \union {[d EXCEPT !.line[r][c] = g] : r \in Row, c \in Col, g \in Glyph}

Change ==
    \E d \in Changes(display[shown]) :
        display' = [display EXCEPT ![shown] = d] /\ UNCHANGED shown

DisplayNext == Change \/ \E i \in Terminal : Show(i)

DisplaySpec == DisplayInit /\ [][DisplayNext]_displayVars
=============================================================================
