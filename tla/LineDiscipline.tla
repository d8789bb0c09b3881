--------------------------- MODULE LineDiscipline ---------------------------
(***************************************************************************)
(* The keyboard interrupt and terminal_read: one line buffer and one Enter *)
(* flag for each terminal, filled by the handler and emptied by the        *)
(* process that reads standard input.                                      *)
(*                                                                         *)
(* terminal_read waits with interrupts enabled, so keys arrive before each *)
(* of its tests, and also between the last test and its cli.  Only the     *)
(* visible terminal's process runs (Processes!CpuRunsForeground): a hidden *)
(* reader stands still.  Keys are scan codes as the handler tells them     *)
(* apart; of a buffered character it matters only whether it was typed     *)
(* during the current read or before it.  Echo is left to the screen.      *)
(***************************************************************************)
EXTENDS Integers, Sequences

CONSTANTS
    TERMINAL_COUNT,     \* terminals (3)
    BUF_SIZE            \* bytes of a line buffer (128)

ASSUME LineAssumption ==
    /\ TERMINAL_COUNT \in Nat \ {0}
    /\ BUF_SIZE \in Nat /\ BUF_SIZE > 2

Terminal == 0 .. TERMINAL_COUNT - 1

VARIABLES
    t_visible,      \* the terminal on the screen
    buffer,         \* t[i].buffer up to buffer_idx, the length of the sequence
    enter_flag,
    alt_flag,
    ctrl_flag,
    reader,         \* where the foreground process of terminal i is, see Place
    entered         \* auxiliary: Enter was pressed since its read began

vars == <<t_visible, buffer, enter_flag, alt_flag, ctrl_flag, reader, entered>>

\* In user code (or in another call); in the loop of terminal_read; past the loop
\* but before cli.
Place == {"user", "waiting", "leaving"}
Char == {"early", "during", "newline"}

Init ==
    /\ t_visible = 0
    /\ buffer = [i \in Terminal |-> <<>>]
    /\ enter_flag = [i \in Terminal |-> 0]
    /\ alt_flag = 0
    /\ ctrl_flag = 0
    /\ reader = [i \in Terminal |-> "user"]
    /\ entered = [i \in Terminal |-> FALSE]

buffer_idx(i) == Len(buffer[i])
Reading(i) == reader[i] # "user"

\* The line that clear_buffer leaves, and a mutated form that keeps what was typed.
KeepTyped(i) == buffer[i]
Cleared(i) == <<>>

-----------------------------------------------------------------------------
(* keyboard_handler.  It runs with interrupts disabled, so it is one step. *)

Press(flag) == flag' = 1
Release(flag) == flag' = 0

\* Alt and Ctrl, the modifiers that choose what a key does.
Modifier ==
    /\ \/ (Press(alt_flag) \/ Release(alt_flag)) /\ UNCHANGED ctrl_flag
       \/ (Press(ctrl_flag) \/ Release(ctrl_flag)) /\ UNCHANGED alt_flag
    /\ UNCHANGED <<t_visible, buffer, enter_flag, reader, entered>>

KeepModifiers == UNCHANGED <<alt_flag, ctrl_flag>>

\* Mutated form of Enter: an empty line cannot be entered.
EnterWithText ==
    /\ enter_flag' = [enter_flag EXCEPT ![t_visible] = IF buffer_idx(t_visible) = 0 THEN @ ELSE 1]
    /\ entered' = [entered EXCEPT ![t_visible] = TRUE]
    /\ KeepModifiers
    /\ UNCHANGED <<t_visible, buffer, reader>>

\* Enter sets the flag; the newline goes to the screen only.
Enter ==
    /\ enter_flag' = [enter_flag EXCEPT ![t_visible] = 1]
    /\ entered' = [entered EXCEPT ![t_visible] = TRUE]
    /\ KeepModifiers
    /\ UNCHANGED <<t_visible, buffer, reader>>

\* What Backspace leaves of a line.
Erase(line) == IF line = <<>> THEN line ELSE SubSeq(line, 1, Len(line) - 1)

Backspace ==
    /\ buffer' = [buffer EXCEPT ![t_visible] = Erase(buffer[t_visible])]
    /\ KeepModifiers
    /\ UNCHANGED <<t_visible, enter_flag, reader, entered>>

\* Mutated form of TypeInto: the newline takes one place more than there is.
TypeOneMore(line, c) ==
    IF Len(line) < BUF_SIZE - 1 THEN Append(line, c)
    ELSE IF Len(line) = BUF_SIZE - 1 THEN Append(line, "newline")
    ELSE <<>>

\* A character on a line: appended while there is place, replaced by a newline in
\* the last place, and on a full line the index starts again at 0.
TypeInto(line, c) ==
    IF Len(line) < BUF_SIZE - 2 THEN Append(line, c)
    ELSE IF Len(line) = BUF_SIZE - 2 THEN Append(line, "newline")
    ELSE <<>>

Letter ==
    /\ alt_flag = 0
    /\ LET c == IF Reading(t_visible) THEN "during" ELSE "early"
       IN  buffer' = [buffer EXCEPT ![t_visible] = TypeInto(buffer[t_visible], c)]
    /\ KeepModifiers
    /\ UNCHANGED <<t_visible, enter_flag, reader, entered>>

\* Ctrl-L calls terminal_reset.  So does letting go of L while Ctrl is held: the
\* release code 0xA6 indexes the next row of scan_code_to_ascii.
ClearScreen ==
    /\ alt_flag = 0
    /\ ctrl_flag = 1
    /\ buffer' = [buffer EXCEPT ![t_visible] = Cleared(t_visible)]
    /\ KeepModifiers
    /\ UNCHANGED <<t_visible, enter_flag, reader, entered>>

\* Alt+Fk brings another terminal, and its foreground process, to the front.
Switch(k) ==
    /\ alt_flag = 1
    /\ k # t_visible
    /\ t_visible' = k
    /\ KeepModifiers
    /\ UNCHANGED <<buffer, enter_flag, reader, entered>>

keyboard_handler ==
    \/ Modifier \/ Enter \/ Backspace \/ Letter \/ ClearScreen
    \/ \E k \in Terminal : Switch(k)

-----------------------------------------------------------------------------
(* terminal_read, called by the foreground process of the visible terminal *)

\* The call, up to sti.
Call ==
    /\ reader[t_visible] = "user"
    /\ buffer' = [buffer EXCEPT ![t_visible] = Cleared(t_visible)]
    /\ reader' = [reader EXCEPT ![t_visible] = "waiting"]
    /\ entered' = [entered EXCEPT ![t_visible] = FALSE]
    /\ KeepModifiers
    /\ UNCHANGED <<t_visible, enter_flag>>

\* The test that ends the loop, and a mutated form that waits for a full line.
FullLine(i) == buffer_idx(i) >= BUF_SIZE - 1
LoopEnds(i) == buffer_idx(i) >= BUF_SIZE - 1 \/ enter_flag[i] = 1

Leave ==
    /\ reader[t_visible] = "waiting"
    /\ LoopEnds(t_visible)
    /\ reader' = [reader EXCEPT ![t_visible] = "leaving"]
    /\ KeepModifiers
    /\ UNCHANGED <<t_visible, buffer, enter_flag, entered>>

\* From cli to the end: the line, or its first nbytes characters, is the caller's;
\* the flag is released and the buffer cleared.
Return ==
    /\ reader[t_visible] = "leaving"
    /\ enter_flag' = [enter_flag EXCEPT ![t_visible] = 0]
    /\ buffer' = [buffer EXCEPT ![t_visible] = Cleared(t_visible)]
    /\ reader' = [reader EXCEPT ![t_visible] = "user"]
    /\ KeepModifiers
    /\ UNCHANGED <<t_visible, entered>>

terminal_read == Call \/ Leave \/ Return

Next == keyboard_handler \/ terminal_read

(***************************************************************************)
(* The loop goes on as long as its terminal is visible: nothing else runs, *)
(* and every interrupt handler returns.  No key has to be pressed.         *)
(***************************************************************************)
Fairness == WF_vars(Leave) /\ WF_vars(Return)

Spec == Init /\ [][Next]_vars /\ Fairness

-----------------------------------------------------------------------------
(* Properties.                                                             *)

\* The values the variables range over.  Whatever is typed and erased, a line leaves
\* room in the buffer for the NUL that the handler stores after it.
TypeOK ==
    /\ t_visible \in Terminal
    /\ buffer \in [Terminal -> Seq(Char)]
    /\ \A i \in Terminal : buffer_idx(i) <= BUF_SIZE - 1
    /\ enter_flag \in [Terminal -> {0, 1}]
    /\ alt_flag \in {0, 1}
    /\ ctrl_flag \in {0, 1}
    /\ reader \in [Terminal -> Place]
    /\ entered \in [Terminal -> BOOLEAN]

\* The newline that the handler stores itself is the last character a line can have.
NewlineFillsLine ==
    \A i \in Terminal : \A n \in 1 .. Len(buffer[i]) :
        buffer[i][n] = "newline" => n = BUF_SIZE - 1

\* What a read is about to return was typed after it was called: keys typed ahead
\* never reach a program.
OnlyTypedDuringRead ==
    \A i \in Terminal : Reading(i) =>
        \A n \in 1 .. Len(buffer[i]) : buffer[i][n] # "early"

\* Enter pressed during a read, also between its last test and its cli, is seen by
\* that read: nothing lowers the flag before it returns.
EnterNotLost ==
    \A i \in Terminal : Reading(i) /\ entered[i] => enter_flag[i] = 1

\* After Enter a read returns, unless the user hides its terminal.
EnterEndsRead ==
    \A i \in Terminal :
        Reading(i) /\ enter_flag[i] = 1 ~> ~Reading(i) \/ t_visible # i

\* A read waits "until the buffer reaches its max size or the enter is pressed"
\* (terminal.c:88), so it has no empty line to return unless Enter was pressed.
EmptyOnlyAfterEnter ==
    [][Return /\ buffer[t_visible] = <<>> => entered[t_visible]]_vars

\* A line that fills the buffer is complete: typing on goes "to the next line"
\* (keyboard.c:279) and does not take characters away from a read that waits.
TypingKeepsLine ==
    [][Letter /\ Reading(t_visible) =>
         Len(buffer'[t_visible]) >= Len(buffer[t_visible])]_vars
=============================================================================
