---------------------------- MODULE ScreenProofs ----------------------------
(***************************************************************************)
(* The screen for any size, any number of terminals and any texts: every   *)
(* cursor stays on it, and it implements Displays.  The first is what makes *)
(* At, the address of a cell, a bijection from places to cells, and that   *)
(* turns each part of putc into its abstract counterpart.                  *)
(***************************************************************************)
EXTENDS Screen, LineDisciplineProofs

Col == 0 .. NUM_COLS - 1
Row == 0 .. NUM_ROWS - 1

\* What putc takes and returns: cells and a cursor on the screen.
OnScreen == [mem : Cells, x : Col, y : Row]

-----------------------------------------------------------------------------
(* Addresses.                                                              *)

\* The address of a place on the screen is in video memory.
LEMMA PlaceIsCell == \A x \in Col, y \in Row : At(x, y) \in Cell
<1> SUFFICES ASSUME NEW x \in Col, NEW y \in Row PROVE At(x, y) \in Cell
  OBVIOUS
<1>1. NUM_COLS \in Nat /\ NUM_ROWS \in Nat /\ x \in Nat /\ y \in Nat
  BY ScreenAssumption DEF Col, Row
<1>2. NUM_COLS * y \in Nat /\ NUM_ROWS * NUM_COLS \in Nat
  BY <1>1
<1>3. NUM_COLS * (y + 1) <= NUM_COLS * NUM_ROWS
  <2>1. y + 1 <= NUM_ROWS
    BY <1>1 DEF Row
  <2> QED
    BY <1>1, <2>1
<1>4. NUM_COLS * (y + 1) = NUM_COLS * y + NUM_COLS /\ NUM_COLS * NUM_ROWS = NUM_ROWS * NUM_COLS
  BY <1>1
<1> QED
  BY <1>1, <1>2, <1>3, <1>4 DEF At, Cell, Col

\* Places in different lines have different addresses, in the order of the lines.
LEMMA LinesApart ==
    ASSUME NEW x \in Col, NEW y \in Row, NEW u \in Col, NEW v \in Row, y < v
    PROVE  At(x, y) < At(u, v)
<1>1. NUM_COLS \in Nat /\ x \in Nat /\ y \in Nat /\ u \in Nat /\ v \in Nat
  BY ScreenAssumption DEF Col, Row
<1>2. NUM_COLS * (y + 1) <= NUM_COLS * v
  BY <1>1
<1>3. NUM_COLS * (y + 1) = NUM_COLS * y + NUM_COLS /\ NUM_COLS * y \in Nat /\ NUM_COLS * v \in Nat
  BY <1>1
<1> QED
  BY <1>1, <1>2, <1>3 DEF At, Col

\* Different places have different addresses.
LEMMA PlaceUnique ==
    ASSUME NEW x \in Col, NEW y \in Row, NEW u \in Col, NEW v \in Row, At(x, y) = At(u, v)
    PROVE  x = u /\ y = v
<1>1. y = v
  <2>1. y \in Int /\ v \in Int /\ At(x, y) \in Int /\ At(u, v) \in Int
    BY PlaceIsCell DEF Row, Cell
  <2>2. ~ (y < v) /\ ~ (v < y)
    BY <2>1, LinesApart
  <2> QED
    BY <2>1, <2>2
<1>2. NUM_COLS * y \in Int /\ x \in Int /\ u \in Int
  BY ScreenAssumption DEF Col, Row
<1> QED
  BY <1>1, <1>2 DEF At

\* The cell NUM_COLS further is the one in the next line.
LEMMA NextLine ==
    ASSUME NEW x \in Col, NEW y \in Row
    PROVE  /\ At(x, y) + NUM_COLS = At(x, y + 1)
           /\ At(x, y) + NUM_COLS \in Cell <=> y + 1 \in Row
<1>1. /\ NUM_COLS \in Nat \ {0} /\ NUM_ROWS \in Nat \ {0}
      /\ x \in Nat /\ y \in Nat /\ x < NUM_COLS /\ y < NUM_ROWS
  BY ScreenAssumption DEF Col, Row
<1>2. NUM_COLS * y \in Nat /\ NUM_COLS * (y + 1) = NUM_COLS * y + NUM_COLS
  BY <1>1
<1>3. At(x, y) + NUM_COLS = At(x, y + 1)
  BY <1>1, <1>2 DEF At
<1>4. CASE y + 1 < NUM_ROWS
  <2>1. y + 1 \in Row
    BY <1>1, <1>4 DEF Row
  <2> QED
    BY <1>3, <2>1, PlaceIsCell
<1>5. CASE y + 1 >= NUM_ROWS
  <2>1. y + 1 = NUM_ROWS
    BY <1>1, <1>5
  <2>2. NUM_COLS * (y + 1) = NUM_ROWS * NUM_COLS
    BY <1>1, <2>1
  <2>3. y + 1 \notin Row
    BY <1>1, <2>1 DEF Row
  <2>4. At(x, y) + NUM_COLS >= NUM_ROWS * NUM_COLS /\ NUM_ROWS * NUM_COLS \in Nat
    BY <1>1, <1>2, <2>2 DEF At
  <2> QED
    BY <1>1, <1>2, <1>3, <2>3, <2>4 DEF Cell, At
<1> QED
  BY <1>1, <1>4, <1>5

\* Every cell is a place.
LEMMA CellIsPlace ==
    ASSUME NEW c \in Cell
    PROVE  \E x \in Col, y \in Row : c = At(x, y)
<1> DEFINE y == c \div NUM_COLS
           x == c % NUM_COLS
<1>1. NUM_COLS \in Nat \ {0} /\ NUM_ROWS \in Nat \ {0} /\ c \in Nat /\ c < NUM_ROWS * NUM_COLS
  BY ScreenAssumption DEF Cell
<1>2. y \in Int /\ x \in 0 .. NUM_COLS - 1 /\ c = NUM_COLS * y + x
  BY <1>1
<1>3. y >= 0
  BY <1>1
<1>4. y < NUM_ROWS
  BY <1>1, <1>2, <1>3
<1>5. x \in Col /\ y \in Row /\ c = At(x, y)
  BY <1>1, <1>2, <1>3, <1>4 DEF At, Col, Row
<1> QED
  BY <1>5

-----------------------------------------------------------------------------
(* putc keeps the cursor on the screen.                                    *)

LEMMA CellsTyped ==
    ASSUME NEW mem \in Cells, NEW x \in Col, NEW y \in Row, NEW g \in Glyph
    PROVE  /\ [mem EXCEPT ![At(x, y)] = g] \in Cells
           /\ scroll_up(mem) \in Cells
BY DEF Cells, scroll_up, Glyph

\* The neighbours of a column and of a row.
LEMMA Neighbours ==
    /\ 0 \in Col /\ 0 \in Row /\ NUM_COLS - 1 \in Col
    /\ \A x \in Col : (x > 0 => x - 1 \in Col) /\ (x + 1 < NUM_COLS => x + 1 \in Col)
    /\ \A y \in Row : (y > 0 => y - 1 \in Row) /\ (y + 1 < NUM_ROWS => y + 1 \in Row)
    /\ \A y \in Row : y < NUM_ROWS - 1 => y + 1 \in Row
    /\ \A y \in Row : y + 1 >= NUM_ROWS \/ y + 1 \in Row
BY ScreenAssumption DEF Col, Row

\* The two tests for the last row agree.
LEMMA RowEnd == \A y \in Row : y < NUM_ROWS - 1 <=> ~ (y + 1 >= NUM_ROWS)
BY ScreenAssumption DEF Row

\* Cells and a place are something that putc can return.
LEMMA ShowsTyped ==
    \A mem \in Cells, x \in Col, y \in Row : Shows(mem, x, y) \in OnScreen
BY DEF Shows, OnScreen

\* Whatever is put, the cursor stays on the screen and the cells hold glyphs.
LEMMA AfterTyped ==
    ASSUME NEW s \in OnScreen, NEW c \in Glyph \union Control
    PROVE  After(s, c) \in OnScreen
<1>0. /\ s.mem \in Cells /\ s.x \in Col /\ s.y \in Row /\ " " \in Glyph
      /\ NUM_COLS \in Nat \ {0} /\ NUM_ROWS \in Nat \ {0}
  BY ScreenAssumption DEF OnScreen, Glyph
<1>1. PutNewline(s) \in OnScreen
  <2>1. scroll_up(s.mem) \in Cells
    BY <1>0, CellsTyped
  <2> QED
    BY <1>0, <2>1, Neighbours, ShowsTyped DEF PutNewline
<1>2. PutBackspace(s) \in OnScreen
  <2>1. \A x \in Col, y \in Row : Shows([s.mem EXCEPT ![At(x, y)] = " "], x, y) \in OnScreen
    BY <1>0, CellsTyped, ShowsTyped
  <2>2. CASE s.x > 0
    <3>1. s.x - 1 \in Col
      BY <1>0, <2>2, Neighbours
    <3> QED
      BY <1>0, <2>1, <2>2, <3>1 DEF PutBackspace
  <2>3. CASE ~ (s.x > 0) /\ s.y > 0
    <3>1. s.y - 1 \in Row /\ NUM_COLS - 1 \in Col
      BY <1>0, <2>3, Neighbours
    <3> QED
      BY <2>1, <2>3, <3>1 DEF PutBackspace
  <2>4. CASE ~ (s.x > 0) /\ ~ (s.y > 0)
    BY <2>4 DEF PutBackspace
  <2> QED
    BY <2>2, <2>3, <2>4
<1>3. ASSUME NEW g \in Glyph PROVE PutGlyph(s, g) \in OnScreen
  <2> DEFINE mem == [s.mem EXCEPT ![At(s.x, s.y)] = g]
  <2>1. mem \in Cells
    BY <1>0, CellsTyped
  <2>2. PutGlyph(s, g) =
          IF s.x + 1 < NUM_COLS THEN Shows(mem, s.x + 1, s.y)
          ELSE IF s.y < NUM_ROWS - 1 THEN Shows(mem, 0, s.y + 1)
          ELSE Shows(scroll_up(mem), 0, s.y)
    BY DEF PutGlyph
  <2> HIDE DEF mem
  <2>3. scroll_up(mem) \in Cells
    BY <1>0, <2>1, CellsTyped
  <2> QED
    BY <1>0, <2>1, <2>2, <2>3, Neighbours, ShowsTyped
<1> QED
  BY <1>1, <1>2, <1>3 DEF After, Control, Glyph

\* ScreenTypeOK in two parts: what is shown, and what programs are about to show.
PlacesOK ==
    /\ vid_mem \in Cells
    /\ video_mem \in [Terminal -> Cells]
    /\ screen_x \in [Terminal -> Col]
    /\ screen_y \in [Terminal -> Row]
TextOK == pending \in Seq(Glyph \union Control)
ScreenInv == LineInv /\ PlacesOK /\ TextOK /\ video_mapped \in BOOLEAN

\* What is shown, also after the screen was cleared.
LEMMA NowTyped ==
    ASSUME ScreenInv
    PROVE  Now \in OnScreen /\ terminal_reset \in OnScreen
<1>1. t_visible \in Terminal
  BY DEF ScreenInv, LineInv, TypeOK
<1>2. vid_mem \in Cells /\ screen_x[t_visible] \in Col /\ screen_y[t_visible] \in Row
  BY <1>1 DEF ScreenInv, PlacesOK
<1>3. [c \in Cell |-> " "] \in Cells
  BY DEF Cells, Glyph
<1> QED
  BY <1>2, <1>3, Neighbours, ShowsTyped DEF Now, terminal_reset

\* A step that shows something typed keeps the types of what is shown.
LEMMA ShowTyped ==
    ASSUME ScreenInv, NEW s \in OnScreen, ShowNext(s)
    PROVE  PlacesOK'
<1>1. t_visible \in Terminal
  BY DEF ScreenInv, LineInv, TypeOK
<1>2. s.mem \in Cells /\ s.x \in Col /\ s.y \in Row
  BY DEF OnScreen
<1> QED
  BY <1>1, <1>2 DEF ScreenInv, PlacesOK, ShowNext

\* Keys, texts and reads are steps of the line discipline, or leave it alone.
LEMMA ScreenRefinesLine == ScreenNext => [Next]_vars
<1>1. KeyStep => keyboard_handler
  BY DEF KeyStep, keyboard_handler, EchoLetter, EchoEnter, EchoBackspace, ClearAll, PressModifier,
     SwitchScreen
<1>2. PutPending \/ ProgramStep => UNCHANGED vars
  BY DEF PutPending, ProgramStep, terminal_write, vidmap, Draw, lineVars, vars
<1> QED
  BY <1>1, <1>2 DEF ScreenNext, ReadStep, Next

LEMMA InitScreenInv == ScreenInit => ScreenInv
<1> SUFFICES ASSUME ScreenInit PROVE ScreenInv
  OBVIOUS
<1>1. LineInv
  BY InitLineInv DEF ScreenInit
<1>2. /\ [c \in Cell |-> " "] \in Cells
      /\ [i \in Terminal |-> [c \in Cell |-> "unknown"]] \in [Terminal -> Cells]
  BY DEF Cells, Glyph
<1>3. [i \in Terminal |-> 0] \in [Terminal -> Col] /\ [i \in Terminal |-> 0] \in [Terminal -> Row]
  BY Neighbours
<1>4. PlacesOK
  BY <1>2, <1>3 DEF ScreenInit, PlacesOK
<1>5. TextOK
  <2>1. pending = <<>>
    BY Zenon DEF ScreenInit
  <2>2. <<>> \in Seq(Glyph \union Control)
    OBVIOUS
  <2> QED
    BY <2>1, <2>2 DEF TextOK
<1>6. video_mapped \in BOOLEAN
  BY DEF ScreenInit
<1> QED
  BY <1>1, <1>4, <1>5, <1>6 DEF ScreenInv

\* A step that puts one character, or nothing, on the screen.
LEMMA PutPlaces ==
    ASSUME ScreenInv, NEW c \in Glyph \union Control, putc(c)
    PROVE  PlacesOK'
BY NowTyped, AfterTyped, ShowTyped DEF putc

LEMMA KeyPlaces == ScreenInv /\ KeyStep => PlacesOK'
<1> SUFFICES ASSUME ScreenInv, KeyStep PROVE PlacesOK'
  OBVIOUS
<1>0. PlacesOK /\ t_visible \in Terminal
  BY DEF ScreenInv, LineInv, TypeOK
<1>1. UNCHANGED cellVars => PlacesOK'
  BY <1>0 DEF cellVars, PlacesOK
<1>2. CASE EchoLetter
  BY <1>2, PutPlaces DEF EchoLetter, Glyph
<1>3. CASE EchoEnter
  BY <1>3, PutPlaces DEF EchoEnter, Control
<1>4. CASE EchoBackspace
  BY <1>1, <1>4, PutPlaces DEF EchoBackspace, Control
<1>5. CASE ClearAll
  BY <1>5, NowTyped, ShowTyped DEF ClearAll
<1>6. CASE PressModifier
  BY <1>1, <1>6 DEF PressModifier
<1>7. CASE \E k \in Terminal : SwitchScreen(k)
  BY <1>0, <1>7 DEF SwitchScreen, SavePage, PlacesOK
<1> QED
  BY <1>2, <1>3, <1>4, <1>5, <1>6, <1>7 DEF KeyStep

LEMMA NextPlaces == ScreenInv /\ ScreenNext => PlacesOK'
<1> SUFFICES ASSUME ScreenInv, ScreenNext PROVE PlacesOK'
  OBVIOUS
<1>0. PlacesOK
  BY DEF ScreenInv
<1>1. UNCHANGED cellVars => PlacesOK'
  BY <1>0 DEF cellVars, PlacesOK
<1>2. CASE PutPending
  <2>1. Head(pending) \in Glyph \union Control
    BY <1>2 DEF PutPending, ScreenInv, TextOK
  <2> QED
    BY <1>2, <2>1, PutPlaces DEF PutPending
<1>3. CASE KeyStep
  BY <1>3, KeyPlaces
<1>4. CASE ReadStep
  BY <1>1, <1>4 DEF ReadStep
<1>5. CASE ProgramStep
  <2>1. CASE \E text \in Written : terminal_write(text)
    BY <1>1, <2>1 DEF terminal_write
  <2>2. CASE vidmap
    BY <1>1, <2>2 DEF vidmap
  <2>3. CASE \E c \in Cell : Draw(c, "output")
    BY <1>0, <2>3 DEF Draw, PlacesOK, Cells, Glyph
  <2> QED
    BY <1>5, <2>1, <2>2, <2>3 DEF ProgramStep
<1> QED
  BY <1>2, <1>3, <1>4, <1>5 DEF ScreenNext

LEMMA NextText == ScreenInv /\ ScreenNext => TextOK' /\ video_mapped' \in BOOLEAN
<1> SUFFICES ASSUME ScreenInv, ScreenNext PROVE TextOK' /\ video_mapped' \in BOOLEAN
  OBVIOUS
<1>0. TextOK /\ video_mapped \in BOOLEAN
  BY DEF ScreenInv
<1>1. TextOK'
  <2>1. CASE PutPending
    BY <1>0, <2>1 DEF PutPending, TextOK
  <2>2. CASE UNCHANGED pending
    BY <1>0, <2>2 DEF TextOK
  <2>3. CASE \E text \in Written : terminal_write(text)
    BY <2>3, ScreenAssumption DEF terminal_write, TextOK
  <2> QED
    BY <2>1, <2>2, <2>3 DEF ScreenNext, ReadStep, ProgramStep, vidmap, Draw
<1>2. video_mapped' \in BOOLEAN
  <2>1. video_mapped' = video_mapped \/ video_mapped' = TRUE
    BY Zenon DEF ScreenNext, PutPending, ReadStep, ProgramStep, terminal_write, vidmap, Draw
  <2> QED
    BY <1>0, <2>1
<1> QED
  BY <1>1, <1>2

LEMMA NextScreenInv == ScreenInv /\ [ScreenNext]_screenVars => ScreenInv'
<1> SUFFICES ASSUME ScreenInv, [ScreenNext]_screenVars PROVE ScreenInv'
  OBVIOUS
<1>1. LineInv'
  <2>1. [Next]_vars
    BY ScreenRefinesLine DEF screenVars, lineVars, vars
  <2> QED
    BY <2>1, NextLineInv DEF ScreenInv
<1>2. PlacesOK'
  BY NextPlaces DEF screenVars, cellVars, ScreenInv, PlacesOK
<1>3. TextOK' /\ video_mapped' \in BOOLEAN
  BY NextText DEF screenVars, ScreenInv, TextOK
<1> QED
  BY <1>1, <1>2, <1>3 DEF ScreenInv

LEMMA ScreenInvariant == ScreenSpec => []ScreenInv
BY InitScreenInv, NextScreenInv, PTL DEF ScreenSpec

\* Whatever is typed, erased, written, cleared and switched, putc writes inside of video
\* memory and leaves every terminal's cursor on the screen.
THEOREM CursorsOnScreen == ScreenSpec => []ScreenTypeOK
<1>1. ScreenInv => ScreenTypeOK
  BY DEF ScreenInv, PlacesOK, TextOK, ScreenTypeOK, Col, Row
<1> QED
  BY <1>1, ScreenInvariant, PTL

-----------------------------------------------------------------------------
(* The screen implements Displays.                                         *)

\* Cells as lines, and what is shown as a display.
Lines(mem) == [r \in Row |-> [c \in Col |-> mem[At(c, r)]]]
DispOf(s) == [line |-> Lines(s.mem), row |-> s.y, col |-> s.x]

\* The rows and columns of the two modules are the same.
LEMMA SameSize == Abstract!Row = Row /\ Abstract!Col = Col
BY DEF Abstract!Row, Abstract!Col, Row, Col

LEMMA LinesTyped == \A mem \in Cells : Lines(mem) \in [Row -> [Col -> Glyph]]
BY PlaceIsCell DEF Lines, Cells

LEMMA DispTyped == \A s \in OnScreen : DispOf(s) \in Abstract!Display
BY LinesTyped, SameSize DEF DispOf, OnScreen, Abstract!Display

\* Lines that agree everywhere are equal.
LEMMA SameLines ==
    ASSUME NEW A \in [Row -> [Col -> Glyph]], NEW B \in [Row -> [Col -> Glyph]],
           \A r \in Row, c \in Col : A[r][c] = B[r][c]
    PROVE  A = B
<1>1. \A r \in Row : A[r] = B[r]
  OBVIOUS
<1> QED
  BY <1>1

\* To change the cell at an address is to change one place of one line.
LEMMA PutLines ==
    ASSUME NEW mem \in Cells, NEW x \in Col, NEW y \in Row, NEW g \in Glyph
    PROVE  Lines([mem EXCEPT ![At(x, y)] = g]) = [Lines(mem) EXCEPT ![y][x] = g]
<1> DEFINE new == [mem EXCEPT ![At(x, y)] = g]
<1>1. ASSUME NEW r \in Row, NEW c \in Col
      PROVE  new[At(c, r)] = IF r = y /\ c = x THEN g ELSE mem[At(c, r)]
  <2>1. At(c, r) \in Cell /\ (At(c, r) = At(x, y) => c = x /\ r = y)
    BY PlaceIsCell, PlaceUnique
  <2> QED
    BY <2>1 DEF Cells
<1> DEFINE old == Lines(mem)
           put == [old EXCEPT ![y][x] = g]
<1>2. new \in Cells /\ Lines(new) \in [Row -> [Col -> Glyph]] /\ old \in [Row -> [Col -> Glyph]]
  BY CellsTyped, LinesTyped
<1>3. \A r \in Row, c \in Col : old[r][c] = mem[At(c, r)] /\ Lines(new)[r][c] = new[At(c, r)]
  BY DEF Lines
<1> HIDE DEF new, old
<1>4. /\ put \in [Row -> [Col -> Glyph]]
      /\ \A r \in Row, c \in Col : put[r][c] = IF r = y /\ c = x THEN g ELSE old[r][c]
  BY <1>2
<1> HIDE DEF put
<1>5. \A r \in Row, c \in Col : Lines(new)[r][c] = put[r][c]
  BY <1>1, <1>3, <1>4
<1>6. Lines(new) = put
  BY <1>2, <1>4, <1>5, SameLines
<1> QED
  BY <1>6 DEF new, old, put

LEMMA BlankLines ==
    \A mem \in Cells, x \in Col, y \in Row :
        Lines([mem EXCEPT ![At(x, y)] = " "]) = [Lines(mem) EXCEPT ![y][x] = " "]
<1> DEFINE blank == " "
<1>1. blank \in Glyph
  BY DEF Glyph
<1> HIDE DEF blank
<1>2. \A mem \in Cells, x \in Col, y \in Row :
        Lines([mem EXCEPT ![At(x, y)] = blank]) = [Lines(mem) EXCEPT ![y][x] = blank]
  BY <1>1, PutLines
<1> QED
  BY <1>2 DEF blank

\* To move the cells up is to roll the lines.
LEMMA ScrolledLines ==
    ASSUME NEW mem \in Cells
    PROVE  Lines(scroll_up(mem)) = Abstract!Rolled(Lines(mem))
<1>1. ASSUME NEW r \in Row, NEW c \in Col
      PROVE  scroll_up(mem)[At(c, r)] = IF r + 1 \in Row THEN mem[At(c, r + 1)] ELSE " "
  <2>1. At(c, r) \in Cell
    BY PlaceIsCell
  <2> QED
    BY <2>1, NextLine DEF scroll_up
<1> QED
  BY <1>1, SameSize DEF Lines, Abstract!Rolled, Abstract!EmptyLine

\* Each part of putc is what Displays says of it.
LEMMA NewlineFeeds ==
    ASSUME NEW s \in OnScreen
    PROVE  DispOf(PutNewline(s)) = Abstract!LineFeed(DispOf(s))
<1>1. s.mem \in Cells /\ s.y \in Row
  BY DEF OnScreen
<1>2. CASE s.y + 1 \in Row
  <2>1. ~ (s.y + 1 >= NUM_ROWS)
    BY <1>2, ScreenAssumption DEF Row
  <2> QED
    BY <1>2, <2>1, SameSize DEF PutNewline, Shows, DispOf, Abstract!LineFeed
<1>3. CASE s.y + 1 \notin Row
  <2>1. s.y + 1 >= NUM_ROWS
    BY <1>1, <1>3, Neighbours
  <2> QED
    BY <1>1, <1>3, <2>1, SameSize, ScrolledLines DEF PutNewline, Shows, DispOf, Abstract!LineFeed
<1> QED
  BY <1>2, <1>3

LEMMA BackspaceErases ==
    ASSUME NEW s \in OnScreen
    PROVE  DispOf(PutBackspace(s)) = Abstract!Erased(DispOf(s))
<1>1. s.mem \in Cells /\ s.x \in Col /\ s.y \in Row /\ " " \in Glyph
  BY DEF OnScreen, Glyph
<1>2. CASE s.x > 0
  <2> DEFINE u == s.x - 1
  <2>1. u \in Col
    BY <1>1, <1>2, Neighbours
  <2> HIDE DEF u
  <2>2. Lines([s.mem EXCEPT ![At(u, s.y)] = " "]) = [Lines(s.mem) EXCEPT ![s.y][u] = " "]
    BY <1>1, <2>1, BlankLines
  <2> QED
    BY <1>2, <2>2 DEF PutBackspace, Shows, DispOf, Abstract!Erased, u
<1>3. CASE ~ (s.x > 0) /\ s.y > 0
  <2> DEFINE u == NUM_COLS - 1
             v == s.y - 1
  <2>1. u \in Col /\ v \in Row
    BY <1>1, <1>3, Neighbours
  <2> HIDE DEF u, v
  <2>2. Lines([s.mem EXCEPT ![At(u, v)] = " "]) = [Lines(s.mem) EXCEPT ![v][u] = " "]
    BY <1>1, <2>1, BlankLines
  <2> QED
    BY <1>3, <2>2 DEF PutBackspace, Shows, DispOf, Abstract!Erased, u, v
<1>4. CASE ~ (s.x > 0) /\ ~ (s.y > 0)
  BY <1>4 DEF PutBackspace, DispOf, Abstract!Erased
<1> QED
  BY <1>2, <1>3, <1>4

LEMMA GlyphWrites ==
    ASSUME NEW s \in OnScreen, NEW g \in Glyph
    PROVE  DispOf(PutGlyph(s, g)) = Abstract!Put(DispOf(s), g)
<1> DEFINE mem == [s.mem EXCEPT ![At(s.x, s.y)] = g]
           put == Shows(mem, s.x, s.y)
<1>0. s.mem \in Cells /\ s.x \in Col /\ s.y \in Row
  BY DEF OnScreen
<1>1. mem \in Cells /\ Lines(mem) = [Lines(s.mem) EXCEPT ![s.y][s.x] = g]
  BY <1>0, CellsTyped, PutLines
<1>2. [DispOf(s) EXCEPT !.line[DispOf(s).row][DispOf(s).col] = g] = DispOf(put)
  BY <1>1 DEF DispOf, Shows
<1>3. PutGlyph(s, g) =
        IF s.x + 1 < NUM_COLS THEN Shows(mem, s.x + 1, s.y)
        ELSE IF s.y < NUM_ROWS - 1 THEN Shows(mem, 0, s.y + 1)
        ELSE Shows(scroll_up(mem), 0, s.y)
  BY DEF PutGlyph
<1>4. put \in OnScreen /\ put.x = s.x /\ put.y = s.y /\ put.mem = mem
  BY <1>0, <1>1, ShowsTyped DEF Shows
<1>5. Abstract!Put(DispOf(s), g) =
        IF s.x + 1 \in Col THEN [DispOf(put) EXCEPT !.col = @ + 1] ELSE Abstract!LineFeed(DispOf(put))
  BY <1>2, SameSize DEF Abstract!Put, DispOf
<1> HIDE DEF mem, put
<1>6. CASE s.x + 1 \in Col
  <2>1. s.x + 1 < NUM_COLS
    BY <1>6, ScreenAssumption DEF Col
  <2> QED
    BY <1>3, <1>4, <1>5, <1>6, <2>1 DEF DispOf, Shows
<1>7. CASE s.x + 1 \notin Col
  <2>1. ~ (s.x + 1 < NUM_COLS)
    BY <1>0, <1>7, Neighbours
  <2>2. PutGlyph(s, g) = PutNewline(put)
    <3>1. s.y < NUM_ROWS - 1 <=> ~ (s.y + 1 >= NUM_ROWS)
      BY <1>0, RowEnd
    <3> QED
      BY <1>3, <1>4, <2>1, <3>1 DEF PutNewline
  <2> QED
    BY <1>4, <1>5, <1>7, <2>2, NewlineFeeds
<1> QED
  BY <1>6, <1>7

-----------------------------------------------------------------------------
(* Steps.                                                                  *)

\* The display of a terminal, and that of the visible one.
LEMMA DisplayShown ==
    ASSUME ScreenInv
    PROVE  /\ \A i \in Terminal :
                 DisplayOf(i) = DispOf(Shows(CellsOf(i), screen_x[i], screen_y[i]))
           /\ DisplayOf(t_visible) = DispOf(Now)
BY DEF DisplayOf, DispOf, Lines, Shows, Now, CellsOf, Row, Col

\* What the mapped displays become when the visible one does.
Become(d) == [[i \in Terminal |-> DisplayOf(i)] EXCEPT ![t_visible] = d]

LEMMA ShowBecomes ==
    ASSUME ScreenInv, NEW s \in OnScreen, ShowNext(s), t_visible' = t_visible
    PROVE  [i \in Terminal |-> DisplayOf(i)]' = Become(DispOf(s))
<1>1. t_visible \in Terminal /\ screen_x \in [Terminal -> Col] /\ screen_y \in [Terminal -> Row]
  BY DEF ScreenInv, LineInv, TypeOK, PlacesOK
<1>2. ASSUME NEW i \in Terminal, i # t_visible
      PROVE  DisplayOf(i)' = DisplayOf(i)
  BY <1>1, <1>2 DEF DisplayOf, CellsOf, ShowNext
<1>3. DisplayOf(t_visible)' = DispOf(s)
  BY <1>1 DEF DisplayOf, CellsOf, ShowNext, DispOf, Lines, Row, Col
<1> QED
  BY <1>1, <1>2, <1>3 DEF Become

\* What Displays allows the visible display to become.
Changed == Abstract!Changes(DispOf(Now))

\* A step of the abstract display.
LEMMA ChangeStep ==
    ASSUME ScreenInv, NEW d \in Changed, t_visible' = t_visible,
           [i \in Terminal |-> DisplayOf(i)]' = Become(d)
    PROVE  Abstract!Change
<1>1. t_visible \in Terminal /\ DisplayOf(t_visible) = DispOf(Now)
  BY DisplayShown DEF ScreenInv, LineInv, TypeOK
<1>2. [i \in Terminal |-> DisplayOf(i)][t_visible] = DispOf(Now)
  BY <1>1
<1>3. d \in Abstract!Changes([i \in Terminal |-> DisplayOf(i)][t_visible])
  BY <1>2 DEF Changed
<1>4. \E e \in Abstract!Changes([i \in Terminal |-> DisplayOf(i)][t_visible]) :
        /\ [i \in Terminal |-> DisplayOf(i)]' =
             [[i \in Terminal |-> DisplayOf(i)] EXCEPT ![t_visible] = e]
        /\ UNCHANGED t_visible
  BY <1>3, Zenon DEF Become
<1> QED
  BY <1>4, Zenon DEF Abstract!Change

\* Whatever is put: one change, or none.
LEMMA PutStep ==
    ASSUME ScreenInv, NEW c \in Glyph \union Control, putc(c), t_visible' = t_visible
    PROVE  Abstract!Change \/ UNCHANGED Abstract!displayVars
<1>1. Now \in OnScreen /\ After(Now, c) \in OnScreen
  BY NowTyped, AfterTyped
<1>2. [i \in Terminal |-> DisplayOf(i)]' = Become(DispOf(After(Now, c)))
  BY <1>1, ShowBecomes DEF putc
<1>3. CASE c = "NUL"
  <2>1. DispOf(After(Now, c)) = DisplayOf(t_visible)
    BY <1>3, DisplayShown DEF After
  <2>2. Become(DisplayOf(t_visible)) = [i \in Terminal |-> DisplayOf(i)]
    BY DEF Become
  <2> QED
    BY <1>2, <2>1, <2>2 DEF Abstract!displayVars
<1>4. CASE c # "NUL"
  <2>1. DispOf(After(Now, c)) \in Changed
    <3>1. CASE c = "newline"
      BY <1>1, <3>1, NewlineFeeds DEF After, Changed, Abstract!Changes
    <3>2. CASE c = "backspace"
      BY <1>1, <3>2, BackspaceErases DEF After, Changed, Abstract!Changes
    <3>3. CASE c \in Glyph
      <4>1. After(Now, c) = PutGlyph(Now, c)
        BY <3>3 DEF After, Glyph
      <4>2. DispOf(PutGlyph(Now, c)) = Abstract!Put(DispOf(Now), c)
        BY <1>1, <3>3, GlyphWrites
      <4> QED
        BY <3>3, <4>1, <4>2 DEF Changed, Abstract!Changes
    <3> QED
      BY <1>4, <3>1, <3>2, <3>3 DEF Control
  <2> QED
    BY <1>2, <2>1, ChangeStep
<1> QED
  BY <1>3, <1>4

\* Clearing the screen.
LEMMA ClearStep ==
    ASSUME ScreenInv, ShowNext(terminal_reset), t_visible' = t_visible
    PROVE  Abstract!Change
<1>1. terminal_reset \in OnScreen
  BY NowTyped
<1>2. DispOf(terminal_reset) = Abstract!Empty
  BY PlaceIsCell, SameSize DEF terminal_reset, Shows, DispOf, Lines, Abstract!Empty, Abstract!EmptyLine
<1>3. DispOf(terminal_reset) \in Changed
  BY <1>2 DEF Changed, Abstract!Changes
<1> QED
  BY <1>1, <1>3, ShowBecomes, ChangeStep

\* The two copies of a switch leave each terminal its cells.
LEMMA SwitchCells ==
    ASSUME ScreenInv, NEW k \in Terminal, SwitchScreen(k)
    PROVE  \A i \in Terminal : CellsOf(i)' = CellsOf(i)
<1>1. t_visible \in Terminal /\ t_visible' = k /\ k # t_visible
  BY DEF ScreenInv, LineInv, TypeOK, SwitchScreen, Switch
<1>2. video_mem' = [video_mem EXCEPT ![t_visible] = vid_mem] /\ video_mem \in [Terminal -> Cells]
  BY DEF ScreenInv, PlacesOK, SwitchScreen, SavePage
<1>3. vid_mem' = video_mem[k]
  BY <1>1, <1>2 DEF SwitchScreen
<1> QED
  BY <1>1, <1>2, <1>3 DEF CellsOf

\* A switch shows another display and changes none.
LEMMA SwitchStep ==
    ASSUME ScreenInv, NEW k \in Terminal, SwitchScreen(k)
    PROVE  Abstract!Show(k)
<1>1. t_visible \in Terminal /\ t_visible' = k /\ k # t_visible
  BY DEF ScreenInv, LineInv, TypeOK, SwitchScreen, Switch
<1>2. ASSUME NEW i \in Terminal PROVE DisplayOf(i)' = DisplayOf(i)
  BY SwitchCells DEF DisplayOf, SwitchScreen
<1> QED
  BY <1>1, <1>2 DEF Abstract!Show

\* A drawing writes one place.
LEMMA DrawStep ==
    ASSUME ScreenInv, NEW c \in Cell, Draw(c, "output")
    PROVE  Abstract!Change
<1>1. PICK x \in Col, y \in Row : c = At(x, y)
  BY CellIsPlace
<1> DEFINE s == Shows([vid_mem EXCEPT ![At(x, y)] = "output"], screen_x[t_visible], screen_y[t_visible])
<1>2. /\ t_visible \in Terminal /\ vid_mem \in Cells /\ "output" \in Glyph
      /\ screen_x \in [Terminal -> Col] /\ screen_y \in [Terminal -> Row]
  BY DEF ScreenInv, LineInv, TypeOK, PlacesOK, Glyph
<1>3. s \in OnScreen
  BY <1>2, CellsTyped, ShowsTyped
<1>4. ShowNext(s) /\ t_visible' = t_visible
  BY <1>1, <1>2 DEF Draw, ShowNext, Shows, lineVars
<1>5. DispOf(s) = [DispOf(Now) EXCEPT !.line[y][x] = "output"]
  <2>1. Lines([vid_mem EXCEPT ![At(x, y)] = "output"]) = [Lines(vid_mem) EXCEPT ![y][x] = "output"]
    BY <1>2, PutLines
  <2> QED
    BY <2>1 DEF DispOf, Now, Shows
<1> HIDE DEF s
<1>6. DispOf(s) \in Changed
  <2>1. \A g \in Glyph : [DispOf(Now) EXCEPT !.line[y][x] = g] \in Changed
    BY SameSize DEF Changed, Abstract!Changes
  <2> QED
    BY <1>2, <1>5, <2>1
<1> QED
  BY <1>3, <1>4, <1>6, ShowBecomes, ChangeStep

\* A step that leaves the cells and the visible terminal alone changes no display.
LEMMA QuietStep ==
    ASSUME ScreenInv, UNCHANGED cellVars, t_visible' = t_visible
    PROVE  UNCHANGED Abstract!displayVars
<1>1. \A i \in Terminal : DisplayOf(i)' = DisplayOf(i)
  BY DEF cellVars, DisplayOf, CellsOf
<1> QED
  BY <1>1 DEF Abstract!displayVars

LEMMA InitDisplays == ScreenInit => Abstract!DisplayInit
<1> SUFFICES ASSUME ScreenInit PROVE Abstract!DisplayInit
  OBVIOUS
<1>1. ScreenInv
  BY InitScreenInv
<1>2. t_visible \in Terminal
  BY <1>1 DEF ScreenInv, LineInv, TypeOK
<1>3. ASSUME NEW i \in Terminal PROVE DisplayOf(i) \in Abstract!Display
  <2>1. CellsOf(i) \in Cells /\ screen_x[i] \in Col /\ screen_y[i] \in Row
    BY <1>1 DEF ScreenInv, PlacesOK, CellsOf
  <2> QED
    BY <1>1, <2>1, DisplayShown, ShowsTyped, DispTyped
<1> QED
  BY <1>2, <1>3 DEF Abstract!DisplayInit

LEMMA NextDisplays ==
    ScreenInv /\ [ScreenNext]_screenVars => [Abstract!DisplayNext]_Abstract!displayVars
<1> SUFFICES ASSUME ScreenInv, [ScreenNext]_screenVars
             PROVE  Abstract!DisplayNext \/ UNCHANGED Abstract!displayVars
  OBVIOUS
<1>0. UNCHANGED cellVars /\ t_visible' = t_visible => UNCHANGED Abstract!displayVars
  BY QuietStep
<1>1. CASE PutPending
  <2>1. putc(Head(pending)) /\ t_visible' = t_visible
    BY <1>1 DEF PutPending, lineVars
  <2>2. Head(pending) \in Glyph \union Control
    BY <1>1 DEF PutPending, ScreenInv, TextOK
  <2> QED
    BY <2>1, <2>2, PutStep DEF Abstract!DisplayNext
<1>2. CASE KeyStep
  <2>1. CASE EchoLetter
    BY <2>1, PutStep DEF EchoLetter, Letter, Glyph, Abstract!DisplayNext
  <2>2. CASE EchoEnter
    BY <2>2, PutStep DEF EchoEnter, Enter, Control, Abstract!DisplayNext
  <2>3. CASE EchoBackspace
    BY <1>0, <2>3, PutStep DEF EchoBackspace, Backspace, Control, Abstract!DisplayNext
  <2>4. CASE ClearAll
    BY <2>4, ClearStep DEF ClearAll, ClearScreen, Abstract!DisplayNext
  <2>5. CASE PressModifier
    BY <1>0, <2>5 DEF PressModifier, Modifier
  <2>6. CASE \E k \in Terminal : SwitchScreen(k)
    BY <2>6, SwitchStep DEF Abstract!DisplayNext
  <2> QED
    BY <1>2, <2>1, <2>2, <2>3, <2>4, <2>5, <2>6 DEF KeyStep
<1>3. CASE ReadStep
  BY <1>0, <1>3 DEF ReadStep, terminal_read, Call, Leave, Return
<1>4. CASE ProgramStep
  <2>1. CASE \E text \in Written : terminal_write(text)
    BY <1>0, <2>1 DEF terminal_write, lineVars
  <2>2. CASE vidmap
    BY <1>0, <2>2 DEF vidmap, lineVars
  <2>3. CASE \E c \in Cell : Draw(c, "output")
    BY <2>3, DrawStep DEF Abstract!DisplayNext
  <2> QED
    BY <1>4, <2>1, <2>2, <2>3 DEF ProgramStep
<1>5. CASE UNCHANGED screenVars
  BY <1>0, <1>5 DEF screenVars, lineVars
<1> QED
  BY <1>1, <1>2, <1>3, <1>4, <1>5 DEF ScreenNext

\* One video memory and copied pages implement a display of its own for each terminal: in
\* particular nothing that a program or a key does changes a terminal that is hidden.
THEOREM ScreenImplementsDisplays == ScreenSpec => RefinesDisplays
<1>1. ScreenInit => Abstract!DisplayInit
  BY InitDisplays
<1>2. ScreenInv /\ [ScreenNext]_screenVars => [Abstract!DisplayNext]_Abstract!displayVars
  BY NextDisplays
<1> QED
  BY <1>1, <1>2, ScreenInvariant, PTL DEF ScreenSpec, RefinesDisplays, Abstract!DisplaySpec
-----------------------------------------------------------------------------
(* What is shown before the cursor is the line that is read.                *)

\* How a character of a line shows, and cells that show a line in front of an address.
Echo(c) == IF c = "newline" THEN "during" ELSE c
ShowsLine(mem, place, line) ==
    \A n \in 1 .. Len(line) :
        LET c == place - (Len(line) + 1 - n)
        IN  c >= 0 => mem[c] = Echo(line[n])

\* EchoMatchesLine needs no more than this: nothing is written to the screen while the
\* visible terminal is read.
QuietWhileReading == pending # <<>> => reader[t_visible] = "user"
EchoInv == ScreenInv /\ QuietWhileReading /\ EchoMatchesLine

LEMMA EchoShowsLines ==
    EchoMatchesLine <=>
        \A i \in Terminal : Reading(i) /\ enter_flag[i] = 0 =>
            ShowsLine(CellsOf(i), At(screen_x[i], screen_y[i]), buffer[i])
BY DEF EchoMatchesLine, ShowsLine, Echo, buffer_idx

\* As addresses are flat, a glyph goes to the address of the cursor and the cursor to the
\* next one, or everything moves up by a line.
LEMMA GlyphFlat ==
    ASSUME NEW s \in OnScreen, NEW g \in Glyph
    PROVE  LET p == At(s.x, s.y)
               t == PutGlyph(s, g)
               mem == [s.mem EXCEPT ![p] = g]
           IN  \/ t.mem = mem /\ At(t.x, t.y) = p + 1
               \/ t.mem = scroll_up(mem) /\ At(t.x, t.y) = p + 1 - NUM_COLS
<1> DEFINE p == At(s.x, s.y)
           mem == [s.mem EXCEPT ![p] = g]
<1>0. /\ NUM_COLS \in Nat \ {0} /\ NUM_ROWS \in Nat \ {0}
      /\ s.x \in Nat /\ s.y \in Nat /\ s.x < NUM_COLS /\ s.y < NUM_ROWS
  BY ScreenAssumption DEF OnScreen, Col, Row
<1>1. PutGlyph(s, g) =
        IF s.x + 1 < NUM_COLS THEN Shows(mem, s.x + 1, s.y)
        ELSE IF s.y < NUM_ROWS - 1 THEN Shows(mem, 0, s.y + 1)
        ELSE Shows(scroll_up(mem), 0, s.y)
  BY DEF PutGlyph
<1>2. At(s.x + 1, s.y) = p + 1
  BY <1>0 DEF At
<1>3. ~ (s.x + 1 < NUM_COLS) => At(0, s.y + 1) = p + 1 /\ At(0, s.y) = p + 1 - NUM_COLS
  <2> SUFFICES ASSUME ~ (s.x + 1 < NUM_COLS)
               PROVE  At(0, s.y + 1) = p + 1 /\ At(0, s.y) = p + 1 - NUM_COLS
    OBVIOUS
  <2>1. s.x + 1 = NUM_COLS
    BY <1>0
  <2> DEFINE m == NUM_COLS * s.y
  <2>2. m \in Nat /\ NUM_COLS * (s.y + 1) = m + NUM_COLS
    BY <1>0
  <2>3. At(0, s.y + 1) = m + NUM_COLS /\ At(0, s.y) = m /\ p = m + s.x
    BY <1>0, <2>2 DEF At
  <2> HIDE DEF m, p
  <2> QED
    BY <1>0, <2>1, <2>2, <2>3
<1> HIDE DEF mem, p
<1>4. \A m, x, y : Shows(m, x, y).mem = m /\ Shows(m, x, y).x = x /\ Shows(m, x, y).y = y
  BY DEF Shows
<1> QED
  BY <1>1, <1>2, <1>3, <1>4 DEF mem, p

\* Backspace blanks the address before the cursor and moves there, unless it is at the
\* top of the screen.
LEMMA BackspaceFlat ==
    ASSUME NEW s \in OnScreen
    PROVE  LET p == At(s.x, s.y)
               t == PutBackspace(s)
           IN  \/ p > 0 /\ t.mem = [s.mem EXCEPT ![p - 1] = " "] /\ At(t.x, t.y) = p - 1
               \/ p = 0 /\ t = s
<1>0. /\ NUM_COLS \in Nat \ {0} /\ NUM_ROWS \in Nat \ {0} /\ s.x \in Nat /\ s.y \in Nat
  BY ScreenAssumption DEF OnScreen, Col, Row
<1>1. NUM_COLS * s.y \in Nat
  BY <1>0
<1>2. CASE s.x > 0
  <2>1. At(s.x - 1, s.y) = At(s.x, s.y) - 1 /\ At(s.x, s.y) > 0
    BY <1>0, <1>1, <1>2 DEF At
  <2> QED
    BY <1>2, <2>1 DEF PutBackspace, Shows
<1>3. CASE ~ (s.x > 0) /\ s.y > 0
  <2>1. s.x = 0 /\ NUM_COLS * s.y = NUM_COLS * (s.y - 1) + NUM_COLS /\ NUM_COLS * (s.y - 1) \in Nat
    BY <1>0, <1>3
  <2>2. At(NUM_COLS - 1, s.y - 1) = At(s.x, s.y) - 1 /\ At(s.x, s.y) > 0
    BY <1>0, <2>1 DEF At
  <2> QED
    BY <1>3, <2>2 DEF PutBackspace, Shows
<1>4. CASE ~ (s.x > 0) /\ ~ (s.y > 0)
  <2>1. s.x = 0 /\ s.y = 0
    BY <1>0, <1>4
  <2>2. At(s.x, s.y) = 0
    BY <1>0, <2>1 DEF At
  <2> QED
    BY <1>4, <2>2 DEF PutBackspace
<1> QED
  BY <1>2, <1>3, <1>4

\* A character that is put as it shows continues the line on the screen.
LEMMA PutContinues ==
    ASSUME NEW s \in OnScreen, NEW line \in Seq(Char), NEW c \in Char, Echo(c) \in Glyph,
           ShowsLine(s.mem, At(s.x, s.y), line)
    PROVE  LET t == PutGlyph(s, Echo(c))
           IN  ShowsLine(t.mem, At(t.x, t.y), Append(line, c))
<1> DEFINE p == At(s.x, s.y)
           g == Echo(c)
           t == PutGlyph(s, g)
           mem == [s.mem EXCEPT ![p] = g]
           more == Append(line, c)
<1>0. p \in Cell /\ s.mem \in Cells /\ NUM_COLS \in Nat \ {0} /\ NUM_ROWS * NUM_COLS \in Nat
  BY PlaceIsCell, ScreenAssumption DEF OnScreen
<1>1. Len(line) \in Nat /\ Len(more) = Len(line) + 1
  OBVIOUS
<1>2. ASSUME NEW n \in 1 .. Len(more), p + 1 - (Len(more) + 1 - n) >= 0
      PROVE  mem[p + 1 - (Len(more) + 1 - n)] = Echo(more[n])
  <2>1. CASE n = Len(line) + 1
    <3>1. p + 1 - (Len(more) + 1 - n) = p /\ more[n] = c
      BY <1>0, <1>1, <2>1 DEF Cell
    <3> QED
      BY <1>0, <3>1 DEF Cells
  <2>2. CASE n # Len(line) + 1
    <3> DEFINE d == p - (Len(line) + 1 - n)
    <3>1. n \in 1 .. Len(line) /\ p + 1 - (Len(more) + 1 - n) = d /\ d \in Cell /\ d < p
      BY <1>0, <1>1, <1>2, <2>2 DEF Cell
    <3>2. s.mem[d] = Echo(line[n]) /\ more[n] = line[n]
      BY <3>1 DEF ShowsLine, Cell
    <3>3. mem[d] = s.mem[d]
      BY <1>0, <3>1 DEF Cells, Cell
    <3> QED
      BY <3>1, <3>2, <3>3
  <2> QED
    BY <2>1, <2>2
<1>3. \/ t.mem = mem /\ At(t.x, t.y) = p + 1
      \/ t.mem = scroll_up(mem) /\ At(t.x, t.y) = p + 1 - NUM_COLS
  BY GlyphFlat, Zenon
<1>6. p \in Int
  BY <1>0 DEF Cell
<1> SUFFICES ShowsLine(t.mem, At(t.x, t.y), more)
  OBVIOUS
<1> HIDE DEF t, g, p, mem, more
<1>4. CASE t.mem = mem /\ At(t.x, t.y) = p + 1
  BY <1>1, <1>2, <1>4, <1>6 DEF ShowsLine
<1>5. CASE t.mem = scroll_up(mem) /\ At(t.x, t.y) = p + 1 - NUM_COLS
  <2>1. ASSUME NEW n \in 1 .. Len(more), p + 1 - NUM_COLS - (Len(more) + 1 - n) >= 0
        PROVE  scroll_up(mem)[p + 1 - NUM_COLS - (Len(more) + 1 - n)] = Echo(more[n])
    <3> DEFINE d == p + 1 - (Len(more) + 1 - n)
    <3>1. d - NUM_COLS \in Cell /\ d \in Cell /\ p + 1 - NUM_COLS - (Len(more) + 1 - n) = d - NUM_COLS
          /\ d >= 0 /\ (d - NUM_COLS) + NUM_COLS = d
      BY <1>0, <1>1, <2>1 DEF Cell
    <3>2. mem[d] = Echo(more[n])
      BY <1>2, <3>1
    <3> HIDE DEF d
    <3>3. scroll_up(mem)[d - NUM_COLS] = mem[d]
      BY <3>1 DEF scroll_up
    <3> QED
      BY <3>1, <3>2, <3>3
  <2> QED
    BY <1>0, <1>1, <1>5, <1>6, <2>1 DEF ShowsLine
<1> QED
  BY <1>3, <1>4, <1>5

\* Backspace takes the last character from the line and from the screen.
LEMMA ErasedContinues ==
    ASSUME NEW s \in OnScreen, NEW line \in Seq(Char), line # <<>>,
           ShowsLine(s.mem, At(s.x, s.y), line)
    PROVE  LET t == PutBackspace(s)
           IN  ShowsLine(t.mem, At(t.x, t.y), Erase(line))
<1> DEFINE p == At(s.x, s.y)
           t == PutBackspace(s)
           less == Erase(line)
<1>0. p \in Cell /\ s.mem \in Cells /\ NUM_ROWS * NUM_COLS \in Nat
  BY PlaceIsCell, ScreenAssumption DEF OnScreen
<1>1. /\ Len(line) \in Nat /\ Len(line) > 0 /\ Len(less) = Len(line) - 1
      /\ \A n \in 1 .. Len(less) : less[n] = line[n]
  <2>1. Len(line) \in Nat /\ Len(line) > 0
    BY EmptySeq
  <2> QED
    BY <2>1, ErasedLine, Zenon
<1>2. \/ p > 0 /\ t.mem = [s.mem EXCEPT ![p - 1] = " "] /\ At(t.x, t.y) = p - 1
      \/ p = 0 /\ t = s
  BY BackspaceFlat, Zenon
<1> SUFFICES ShowsLine(t.mem, At(t.x, t.y), less)
  OBVIOUS
<1> HIDE DEF t, p, less
<1>3. CASE p > 0 /\ t.mem = [s.mem EXCEPT ![p - 1] = " "] /\ At(t.x, t.y) = p - 1
  <2>1. ASSUME NEW n \in 1 .. Len(less), p - 1 - (Len(less) + 1 - n) >= 0
        PROVE  t.mem[p - 1 - (Len(less) + 1 - n)] = Echo(less[n])
    <3> DEFINE d == p - (Len(line) + 1 - n)
    <3>1. n \in 1 .. Len(line) /\ p - 1 - (Len(less) + 1 - n) = d /\ d \in Cell /\ d < p - 1 /\ d >= 0
      BY <1>0, <1>1, <2>1 DEF Cell
    <3>2. s.mem[d] = Echo(line[n])
      BY <3>1 DEF ShowsLine, p
    <3> HIDE DEF d
    <3>4. d # p - 1
      BY <1>0, <3>1 DEF Cell
    <3>3. t.mem[d] = s.mem[d]
      BY <1>0, <1>3, <3>1, <3>4 DEF Cells
    <3> QED
      BY <1>1, <3>1, <3>2, <3>3
  <2> QED
    BY <1>3, <2>1 DEF ShowsLine
<1>4. CASE p = 0 /\ t = s
  <2>1. \A n \in 1 .. Len(less) : ~ (p - (Len(less) + 1 - n) >= 0)
    BY <1>1, <1>4
  <2> QED
    BY <1>4, <2>1 DEF ShowsLine, p
<1> QED
  BY <1>2, <1>3, <1>4
\* A step that changes what the visible terminal shows leaves the cells and the cursor of
\* the hidden ones alone.
LEMMA ShowHidden ==
    ASSUME ScreenInv, NEW s \in OnScreen, ShowNext(s), t_visible' = t_visible
    PROVE  /\ \A i \in Terminal \ {t_visible} :
                 /\ CellsOf(i)' = CellsOf(i)
                 /\ screen_x'[i] = screen_x[i] /\ screen_y'[i] = screen_y[i]
           /\ CellsOf(t_visible)' = s.mem
           /\ screen_x'[t_visible] = s.x /\ screen_y'[t_visible] = s.y
BY DEF ScreenInv, LineInv, TypeOK, PlacesOK, ShowNext, CellsOf

\* What the visible terminal shows, as a line in front of an address.
Shown(s, line) == ShowsLine(s.mem, At(s.x, s.y), line)

\* To show EchoMatchesLine after a step that shows something, look at the visible terminal.
LEMMA VisibleMatches ==
    ASSUME EchoInv, NEW s \in OnScreen, ShowNext(s), t_visible' = t_visible,
           \A i \in Terminal \ {t_visible} :
               reader'[i] = reader[i] /\ enter_flag'[i] = enter_flag[i] /\ buffer'[i] = buffer[i],
           Reading(t_visible)' /\ enter_flag'[t_visible] = 0 => Shown(s, buffer'[t_visible])
    PROVE  EchoMatchesLine'
<1> SUFFICES ASSUME NEW i \in Terminal, Reading(i)', enter_flag'[i] = 0
             PROVE  ShowsLine(CellsOf(i)', At(screen_x'[i], screen_y'[i]), buffer'[i])
  BY DEF EchoMatchesLine, ShowsLine, Echo, buffer_idx
<1>1. CASE i = t_visible
  BY <1>1, ShowHidden DEF EchoInv, Shown
<1>2. CASE i # t_visible
  <2>1. Reading(i) /\ enter_flag[i] = 0
    BY <1>2 DEF Reading
  <2>2. ShowsLine(CellsOf(i), At(screen_x[i], screen_y[i]), buffer[i])
    BY <2>1, EchoShowsLines DEF EchoInv
  <2> QED
    BY <1>2, <2>2, ShowHidden DEF EchoInv
<1> QED
  BY <1>1, <1>2

\* The same for a step that leaves cells and cursors alone, and every line that is read.
LEMMA QuietMatches ==
    ASSUME EchoInv,
           \A i \in Terminal : CellsOf(i)' = CellsOf(i),
           UNCHANGED <<screen_x, screen_y>>,
           \A i \in Terminal : Reading(i)' =>
               \/ buffer'[i] = <<>>
               \/ Reading(i) /\ enter_flag'[i] = enter_flag[i] /\ buffer'[i] = buffer[i]
    PROVE  EchoMatchesLine'
<1> SUFFICES ASSUME NEW i \in Terminal, Reading(i)', enter_flag'[i] = 0
             PROVE  ShowsLine(CellsOf(i)', At(screen_x'[i], screen_y'[i]), buffer'[i])
  BY DEF EchoMatchesLine, ShowsLine, Echo, buffer_idx
<1>1. CASE buffer'[i] = <<>>
  BY <1>1 DEF ShowsLine
<1>2. CASE Reading(i) /\ enter_flag'[i] = enter_flag[i] /\ buffer'[i] = buffer[i]
  <2>1. ShowsLine(CellsOf(i), At(screen_x[i], screen_y[i]), buffer[i])
    BY <1>2, EchoShowsLines DEF EchoInv
  <2> QED
    BY <1>2, <2>1
<1> QED
  BY <1>1, <1>2

LEMMA InitEcho == ScreenInit => EchoInv
BY InitScreenInv, Zenon DEF EchoInv, ScreenInit, Init, QuietWhileReading, EchoMatchesLine, Reading

LEMMA NextQuiet == EchoInv /\ [ScreenNext]_screenVars => QuietWhileReading'
<1> SUFFICES ASSUME EchoInv, [ScreenNext]_screenVars PROVE QuietWhileReading'
  OBVIOUS
<1>1. CASE PutPending \/ UNCHANGED screenVars
  BY <1>1 DEF EchoInv, QuietWhileReading, PutPending, screenVars, lineVars
<1>2. CASE pending = <<>> /\ UNCHANGED pending
  BY <1>2 DEF QuietWhileReading
<1>3. CASE ProgramStep
  BY <1>3 DEF ProgramStep, terminal_write, vidmap, Draw, lineVars, QuietWhileReading
<1> QED
  BY <1>1, <1>2, <1>3 DEF ScreenNext, ReadStep

\* A key put on the line goes to the screen as it shows, wherever the newline is stored.
LEMMA LetterEchoes ==
    ASSUME EchoInv, EchoLetter
    PROVE  EchoMatchesLine'
<1> DEFINE line == buffer[t_visible]
           c == IF Reading(t_visible) THEN "during" ELSE "early"
           s == After(Now, c)
<1>0. /\ t_visible \in Terminal /\ buffer \in [Terminal -> Seq(Char)] /\ ScreenInv
  BY DEF EchoInv, ScreenInv, LineInv, TypeOK
<1>1. c \in Glyph \union Control /\ ShowNext(s) /\ s \in OnScreen /\ Now \in OnScreen
  BY <1>0, NowTyped, AfterTyped DEF EchoLetter, putc, Glyph
<1>2. /\ t_visible' = t_visible /\ reader' = reader /\ enter_flag' = enter_flag
      /\ buffer' = [buffer EXCEPT ![t_visible] = TypeInto(line, c)]
  BY DEF EchoLetter, Letter
<1>3. ASSUME Reading(t_visible)', enter_flag'[t_visible] = 0
      PROVE  Shown(s, buffer'[t_visible])
  <2>1. Reading(t_visible) /\ enter_flag[t_visible] = 0 /\ c = "during"
    BY <1>2, <1>3 DEF Reading
  <2>2. Shown(Now, line)
    BY <1>0, <2>1, EchoShowsLines DEF EchoInv, CellsOf, Now, Shows, Shown
  <2>3. s = PutGlyph(Now, "during")
    BY <2>1 DEF After
  <2>4. \A d \in {"during", "newline"} : Shown(s, Append(line, d))
    <3> SUFFICES ASSUME NEW d \in {"during", "newline"} PROVE Shown(s, Append(line, d))
      OBVIOUS
    <3>1. d \in Char /\ Echo(d) = "during" /\ "during" \in Glyph
      BY DEF Char, Echo, Glyph
    <3> QED
      BY <1>0, <1>1, <2>2, <2>3, <3>1, PutContinues DEF Shown
  <2>5. buffer'[t_visible] \in {Append(line, "during"), Append(line, "newline"), <<>>}
    BY <1>0, <1>2, <2>1 DEF TypeInto
  <2>6. Shown(s, <<>>)
    BY DEF Shown, ShowsLine
  <2> QED
    BY <2>4, <2>5, <2>6
<1> HIDE DEF s, c
<1> QED
  BY <1>0, <1>1, <1>2, <1>3, VisibleMatches

LEMMA BackspaceEchoes ==
    ASSUME EchoInv, EchoBackspace
    PROVE  EchoMatchesLine'
<1> DEFINE line == buffer[t_visible]
           s == After(Now, "backspace")
<1>0. /\ t_visible \in Terminal /\ buffer \in [Terminal -> Seq(Char)] /\ ScreenInv
  BY DEF EchoInv, ScreenInv, LineInv, TypeOK
<1>1. /\ t_visible' = t_visible /\ reader' = reader /\ enter_flag' = enter_flag
      /\ buffer' = [buffer EXCEPT ![t_visible] = Erase(line)]
  BY DEF EchoBackspace, Backspace
<1>2. CASE line = <<>>
  <2>1. UNCHANGED cellVars /\ Erase(line) = line
    BY <1>2 DEF EchoBackspace, Erase, buffer_idx
  <2>2. \A i \in Terminal : CellsOf(i)' = CellsOf(i)
    BY <1>1, <2>1 DEF CellsOf, cellVars
  <2>3. buffer' = buffer
    BY <1>0, <1>1, <2>1
  <2> QED
    BY <1>1, <2>1, <2>2, <2>3, QuietMatches DEF cellVars, Reading
<1>3. CASE line # <<>>
  <2>1. Len(line) # 0
    BY <1>0, <1>3, EmptySeq
  <2>2. ShowNext(s) /\ s \in OnScreen /\ Now \in OnScreen
    BY <1>0, <2>1, NowTyped, AfterTyped DEF EchoBackspace, putc, Control, buffer_idx
  <2>3. ASSUME Reading(t_visible)', enter_flag'[t_visible] = 0
        PROVE  Shown(s, buffer'[t_visible])
    <3>1. Reading(t_visible) /\ enter_flag[t_visible] = 0
      BY <1>1, <2>3 DEF Reading
    <3>2. Shown(Now, line)
      BY <1>0, <3>1, EchoShowsLines DEF EchoInv, CellsOf, Now, Shows, Shown
    <3>3. s = PutBackspace(Now) /\ buffer'[t_visible] = Erase(line)
      BY <1>0, <1>1 DEF After
    <3> QED
      BY <1>0, <1>3, <2>2, <3>2, <3>3, ErasedContinues DEF Shown
  <2> HIDE DEF s
  <2> QED
    BY <1>0, <1>1, <2>2, <2>3, VisibleMatches
<1> QED
  BY <1>2, <1>3

LEMMA KeyEchoes == EchoInv /\ KeyStep => EchoMatchesLine'
<1> SUFFICES ASSUME EchoInv, KeyStep PROVE EchoMatchesLine'
  OBVIOUS
<1>0. t_visible \in Terminal /\ buffer \in [Terminal -> Seq(Char)] /\ ScreenInv
      /\ enter_flag \in [Terminal -> {0, 1}]
  BY DEF EchoInv, ScreenInv, LineInv, TypeOK
<1>1. CASE EchoLetter
  BY <1>1, LetterEchoes
<1>2. CASE EchoEnter
  <2> DEFINE s == After(Now, "newline")
  <2>1. ShowNext(s) /\ s \in OnScreen
    BY <1>0, <1>2, NowTyped, AfterTyped DEF EchoEnter, putc, Control
  <2> HIDE DEF s
  <2>2. /\ t_visible' = t_visible /\ reader' = reader /\ buffer' = buffer
        /\ enter_flag' = [enter_flag EXCEPT ![t_visible] = 1]
    BY <1>2 DEF EchoEnter, Enter
  <2>3. enter_flag'[t_visible] # 0
    BY <1>0, <2>2
  <2> QED
    BY <1>0, <2>1, <2>2, <2>3, VisibleMatches
<1>3. CASE EchoBackspace
  BY <1>3, BackspaceEchoes
<1>4. CASE ClearAll
  <2>1. ShowNext(terminal_reset) /\ terminal_reset \in OnScreen
    BY <1>0, <1>4, NowTyped DEF ClearAll
  <2>2. /\ t_visible' = t_visible /\ reader' = reader /\ enter_flag' = enter_flag
        /\ buffer' = [buffer EXCEPT ![t_visible] = <<>>]
    BY <1>4 DEF ClearAll, ClearScreen, Cleared
  <2>3. Shown(terminal_reset, buffer'[t_visible])
    BY <1>0, <2>2 DEF Shown, ShowsLine
  <2> QED
    BY <1>0, <2>1, <2>2, <2>3, VisibleMatches
<1>5. CASE PressModifier
  BY <1>5, QuietMatches DEF PressModifier, Modifier, cellVars, CellsOf, Reading
<1>6. CASE \E k \in Terminal : SwitchScreen(k)
  <2>1. PICK k \in Terminal : SwitchScreen(k)
    BY <1>6
  <2>2. \A i \in Terminal : CellsOf(i)' = CellsOf(i)
    BY <1>0, <2>1, SwitchCells
  <2> QED
    BY <2>1, <2>2, QuietMatches DEF SwitchScreen, Switch, Reading
<1> QED
  BY <1>1, <1>2, <1>3, <1>4, <1>5, <1>6 DEF KeyStep

LEMMA NextEcho == EchoInv /\ [ScreenNext]_screenVars => EchoInv'
<1> SUFFICES ASSUME EchoInv, [ScreenNext]_screenVars PROVE EchoInv'
  OBVIOUS
<1>0. t_visible \in Terminal /\ buffer \in [Terminal -> Seq(Char)] /\ ScreenInv
      /\ reader \in [Terminal -> Place]
  BY DEF EchoInv, ScreenInv, LineInv, TypeOK
<1>1. ScreenInv' /\ QuietWhileReading'
  BY NextScreenInv, NextQuiet DEF EchoInv
<1>2. EchoMatchesLine'
  <2>1. CASE PutPending
    <3> DEFINE s == After(Now, Head(pending))
    <3>1. Head(pending) \in Glyph \union Control
      BY <2>1 DEF PutPending, EchoInv, ScreenInv, TextOK
    <3>2. ShowNext(s) /\ s \in OnScreen /\ UNCHANGED lineVars
      BY <1>0, <2>1, <3>1, NowTyped, AfterTyped DEF PutPending, putc
    <3> HIDE DEF s
    <3>3. ~ Reading(t_visible)'
      BY <2>1, <3>2 DEF PutPending, EchoInv, QuietWhileReading, Reading, lineVars
    <3> QED
      BY <3>2, <3>3, VisibleMatches DEF lineVars
  <2>2. CASE KeyStep
    BY <2>2, KeyEchoes
  <2>3. CASE ReadStep
    <3>1. UNCHANGED cellVars /\ t_visible' = t_visible
      BY <2>3 DEF ReadStep, terminal_read, Call, Leave, Return
    <3>2. \A i \in Terminal : CellsOf(i)' = CellsOf(i)
      BY <3>1 DEF cellVars, CellsOf
    <3>3. \A i \in Terminal : Reading(i)' =>
            \/ buffer'[i] = <<>>
            \/ Reading(i) /\ enter_flag'[i] = enter_flag[i] /\ buffer'[i] = buffer[i]
      <4>1. CASE Call
        BY <1>0, <4>1 DEF Call, Cleared, Reading
      <4>2. CASE Leave
        BY <1>0, <4>2 DEF Leave, Reading
      <4>3. CASE Return
        BY <1>0, <4>3 DEF Return, Cleared, Reading
      <4> QED
        BY <2>3, <4>1, <4>2, <4>3 DEF ReadStep, terminal_read
    <3> QED
      BY <3>1, <3>2, <3>3, QuietMatches DEF cellVars
  <2>4. CASE ProgramStep
    <3>1. CASE (\E text \in Written : terminal_write(text)) \/ vidmap
      <4>1. UNCHANGED <<lineVars, cellVars>>
        BY <3>1 DEF terminal_write, vidmap
      <4> QED
        BY <4>1, QuietMatches DEF lineVars, cellVars, CellsOf, Reading
    <3>2. CASE \E c \in Cell : Draw(c, "output")
      <4>1. PICK c \in Cell : Draw(c, "output")
        BY <3>2
      <4> DEFINE s == Shows([vid_mem EXCEPT ![c] = "output"], screen_x[t_visible], screen_y[t_visible])
      <4>2. UNCHANGED lineVars /\ ~ Reading(t_visible)' /\ t_visible' = t_visible
        BY <2>4, <4>1 DEF ProgramStep, Draw, lineVars, Reading
      <4>3. ShowNext(s)
        BY <1>0, <4>1 DEF Draw, ShowNext, Shows, ScreenInv, PlacesOK
      <4>4. s \in OnScreen
        BY <1>0, ShowsTyped DEF ScreenInv, PlacesOK, Cells, Glyph
      <4> HIDE DEF s
      <4> QED
        BY <4>2, <4>3, <4>4, VisibleMatches DEF lineVars
    <3> QED
      BY <2>4, <3>1, <3>2 DEF ProgramStep
  <2>5. CASE UNCHANGED screenVars
    BY <2>5, QuietMatches DEF screenVars, lineVars, cellVars, CellsOf, Reading
  <2> QED
    BY <2>1, <2>2, <2>3, <2>4, <2>5 DEF ScreenNext
<1> QED
  BY <1>1, <1>2 DEF EchoInv

\* While a program waits for a line, what the user sees before the cursor is that line, for
\* every size of the screen and of the buffer and however often it wrapped, scrolled, was
\* erased and hidden.
THEOREM EchoIsTheLine == ScreenSpec => []EchoMatchesLine
<1>1. EchoInv => EchoMatchesLine
  BY DEF EchoInv
<1> QED
  BY <1>1, InitEcho, NextEcho, PTL DEF ScreenSpec
=============================================================================
