------------------------------- MODULE Screen -------------------------------
(***************************************************************************)
(* The text screen: LineDiscipline together with what its keys, and the    *)
(* programs, put on the screen.  There is one video memory; the contents   *)
(* of a hidden terminal wait in a page of their own, and its cursor in     *)
(* t[i].  A cell is the character at an even address of video memory, the  *)
(* attribute next to it is left out.                                       *)
(*                                                                         *)
(* putc is one step: a write of several characters leaves the others in    *)
(* "pending", and as interrupts are off nothing else happens before the    *)
(* last one.                                                               *)
(***************************************************************************)
EXTENDS LineDiscipline

CONSTANTS
    NUM_ROWS, NUM_COLS,     \* size of the screen (25, 80)
    Written                 \* the texts that programs write

Glyph == {" ", "output", "early", "during", "unknown"}
Control == {"NUL", "newline", "backspace"}

ASSUME ScreenAssumption ==
    /\ NUM_ROWS \in Nat \ {0}
    /\ NUM_COLS \in Nat \ {0}
    /\ Written \subseteq Seq(Glyph \union Control)

VARIABLES
    vid_mem,        \* the cells at VID_MEM
    video_mem,      \* t[i].video_mem: the cells of the page of each terminal
    screen_x, screen_y,
    pending,        \* auxiliary: what the running terminal_write has still to put
    video_mapped    \* whether map_video was called; nothing takes it back

lineVars == <<t_visible, buffer, enter_flag, alt_flag, ctrl_flag, reader, entered>>
cellVars == <<vid_mem, video_mem, screen_x, screen_y>>
screenVars == <<lineVars, cellVars, pending, video_mapped>>

Cell == 0 .. NUM_ROWS * NUM_COLS - 1
Cells == [Cell -> Glyph]

\* terminal_init clears the first terminal's screen; the pages hold anything.
ScreenInit ==
    /\ Init
    /\ vid_mem = [c \in Cell |-> " "]
    /\ video_mem = [i \in Terminal |-> [c \in Cell |-> "unknown"]]
    /\ screen_x = [i \in Terminal |-> 0]
    /\ screen_y = [i \in Terminal |-> 0]
    /\ pending = <<>>
    /\ video_mapped = FALSE

-----------------------------------------------------------------------------
(* putc and its parts, on cells and a cursor.                              *)

At(x, y) == NUM_COLS * y + x

\* Mutated form of scroll_up: the last line is not cleared.
KeepLastLine(mem) == [c \in Cell |-> IF c + NUM_COLS \in Cell THEN mem[c + NUM_COLS] ELSE mem[c]]

\* The first line goes, the last one is cleared.
scroll_up(mem) == [c \in Cell |-> IF c + NUM_COLS \in Cell THEN mem[c + NUM_COLS] ELSE " "]

Shows(mem, x, y) == [mem |-> mem, x |-> x, y |-> y]

PutNewline(s) ==
    IF s.y + 1 >= NUM_ROWS THEN Shows(scroll_up(s.mem), 0, s.y) ELSE Shows(s.mem, 0, s.y + 1)

\* Mutated form of PutBackspace: from the first column the cursor does not go up.
WrapInLine(s) ==
    IF s.x > 0 THEN Shows([s.mem EXCEPT ![At(s.x - 1, s.y)] = " "], s.x - 1, s.y)
    ELSE IF s.y > 0
      THEN Shows([s.mem EXCEPT ![At(NUM_COLS - 1, s.y - 1)] = " "], NUM_COLS - 1, s.y)
    ELSE s

PutBackspace(s) ==
    IF s.x > 0 THEN Shows([s.mem EXCEPT ![At(s.x - 1, s.y)] = " "], s.x - 1, s.y)
    ELSE IF s.y > 0
      THEN Shows([s.mem EXCEPT ![At(NUM_COLS - 1, s.y - 1)] = " "], NUM_COLS - 1, s.y - 1)
    ELSE s

\* Mutated form of PutGlyph: after the last cell of the screen the cursor is below it.
NoScroll(s, g) ==
    LET mem == [s.mem EXCEPT ![At(s.x, s.y)] = g]
    IN  IF s.x + 1 < NUM_COLS THEN Shows(mem, s.x + 1, s.y) ELSE Shows(mem, 0, s.y + 1)

PutGlyph(s, g) ==
    LET mem == [s.mem EXCEPT ![At(s.x, s.y)] = g]
    IN  IF s.x + 1 < NUM_COLS THEN Shows(mem, s.x + 1, s.y)
        ELSE IF s.y < NUM_ROWS - 1 THEN Shows(mem, 0, s.y + 1)
        ELSE Shows(scroll_up(mem), 0, s.y)

After(s, c) ==
    CASE c = "NUL" -> s
      [] c = "newline" -> PutNewline(s)
      [] c = "backspace" -> PutBackspace(s)
      [] OTHER -> PutGlyph(s, c)

\* What the visible terminal shows, and a step that changes it.
Now == Shows(vid_mem, screen_x[t_visible], screen_y[t_visible])
ShowNext(s) ==
    /\ vid_mem' = s.mem
    /\ screen_x' = [screen_x EXCEPT ![t_visible] = s.x]
    /\ screen_y' = [screen_y EXCEPT ![t_visible] = s.y]
    /\ UNCHANGED video_mem

putc(c) == ShowNext(After(Now, c))

\* What terminal_reset leaves on the screen.
terminal_reset == Shows([c \in Cell |-> " "], 0, 0)

-----------------------------------------------------------------------------
(* Keys: each action of the line discipline with what it shows.            *)

EchoLetter == Letter /\ putc(IF Reading(t_visible) THEN "during" ELSE "early")
EchoEnter == Enter /\ putc("newline")
EchoBackspace ==
    Backspace /\ IF buffer_idx(t_visible) = 0 THEN UNCHANGED cellVars ELSE putc("backspace")
ClearAll == ClearScreen /\ ShowNext(terminal_reset)
PressModifier == Modifier /\ UNCHANGED cellVars

\* Mutated form: the page of the terminal that comes is taken before the old one is kept.
SavePageOfNext(k) == [video_mem EXCEPT ![k] = vid_mem]

\* The pages after the screen was copied away.
SavePage(k) == [video_mem EXCEPT ![t_visible] = vid_mem]

\* The two copies of switch_display.
SwitchScreen(k) ==
    /\ Switch(k)
    /\ video_mem' = SavePage(k)
    /\ vid_mem' = video_mem'[k]
    /\ UNCHANGED <<screen_x, screen_y>>

KeyStep ==
    \/ EchoLetter \/ EchoEnter \/ EchoBackspace \/ ClearAll \/ PressModifier
    \/ \E k \in Terminal : SwitchScreen(k)

-----------------------------------------------------------------------------
(* Programs: the foreground process of the visible terminal, in user code. *)

terminal_write(text) == pending' = text /\ UNCHANGED <<lineVars, cellVars, video_mapped>>

PutPending ==
    /\ pending # <<>>
    /\ putc(Head(pending))
    /\ pending' = Tail(pending)
    /\ UNCHANGED <<lineVars, video_mapped>>

vidmap == video_mapped' = TRUE /\ UNCHANGED <<lineVars, cellVars, pending>>

\* A program writes to the mapped page: those are the cells at VID_MEM.
Draw(c, g) ==
    /\ video_mapped
    /\ vid_mem' = [vid_mem EXCEPT ![c] = g]
    /\ UNCHANGED <<lineVars, video_mem, screen_x, screen_y, pending, video_mapped>>

ProgramStep ==
    /\ reader[t_visible] = "user"
    /\ \/ \E text \in Written : terminal_write(text)
       \/ vidmap
       \/ \E c \in Cell : Draw(c, "output")

ReadStep == terminal_read /\ UNCHANGED <<cellVars, pending, video_mapped>>

ScreenNext ==
    \/ PutPending
    \/ /\ pending = <<>>
       /\ \/ KeyStep /\ UNCHANGED <<pending, video_mapped>>
          \/ ReadStep
          \/ ProgramStep

ScreenSpec == ScreenInit /\ [][ScreenNext]_screenVars

-----------------------------------------------------------------------------
(* Properties.                                                             *)

\* The values the variables range over.  The cursor of every terminal is on the screen,
\* so putc writes to no address outside of video memory.
ScreenTypeOK ==
    /\ vid_mem \in Cells
    /\ video_mem \in [Terminal -> Cells]
    /\ screen_x \in [Terminal -> 0 .. NUM_COLS - 1]
    /\ screen_y \in [Terminal -> 0 .. NUM_ROWS - 1]
    /\ pending \in Seq(Glyph \union Control)
    /\ video_mapped \in BOOLEAN

\* The cells of a terminal, wherever they are.
CellsOf(i) == IF i = t_visible THEN vid_mem ELSE video_mem[i]

\* While a program waits for a line, the cells before the cursor show that line, as far
\* as it is on the screen, also across wraps, scrolling, erasing and hiding: what the
\* user sees is what the program will get.  (The newline that the handler stores in the
\* last place shows as the key that was pressed.)
EchoMatchesLine ==
    \A i \in Terminal : Reading(i) /\ enter_flag[i] = 0 =>
        \A n \in 1 .. buffer_idx(i) :
            LET c == At(screen_x[i], screen_y[i]) - (buffer_idx(i) + 1 - n)
            IN  c >= 0 => CellsOf(i)[c] = IF buffer[i][n] = "newline" THEN "during" ELSE buffer[i][n]

\* The rows of a terminal and its cursor, and what all terminals promise together.
DisplayOf(i) ==
    [line |-> [r \in 0 .. NUM_ROWS - 1 |-> [c \in 0 .. NUM_COLS - 1 |-> CellsOf(i)[At(c, r)]]],
     row |-> screen_y[i], col |-> screen_x[i]]

Abstract == INSTANCE Displays WITH
    Rows <- NUM_ROWS, Cols <- NUM_COLS, Blank <- " ",
    shown <- t_visible, display <- [i \in Terminal |-> DisplayOf(i)]

\* One video memory, pages that are copied and flat addresses implement one display of
\* rows for each terminal, of which only the visible one changes: no step touches the cells
\* or the cursor of a terminal that stays hidden, and to hide one or bring it to the front
\* changes neither.
RefinesDisplays == Abstract!DisplaySpec
=============================================================================
