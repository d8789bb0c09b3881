------------------------------ MODULE MCScreen ------------------------------
(* A screen of two by two cells and two terminals.                          *)
EXTENDS Screen, FiniteSets

\* A character, and controls one after the other.
Texts == {<<"output">>, <<"newline", "backspace">>, <<"NUL">>}

Holding(i, g) == Cardinality({c \in Cell : CellsOf(i)[c] = g})

\* The first terminal is looked at in full, but for two drawings or two keys typed ahead
\* at the same time, and of Alt, Ctrl, a called vidmap and a key typed ahead only Alt and
\* vidmap together.  In the second one nothing is looked at behind its first read, key or
\* second line, nor behind its second output.
Bound ==
    /\ reader[1] = "user" /\ buffer_idx(1) = 0 /\ ~entered[1]
    /\ screen_y[1] = 0
    /\ Holding(1, "unknown") + Holding(1, "output") = Cardinality(Cell)
    /\ Holding(1, "output") <= 1
    /\ Holding(0, "output") + Holding(0, "early") <= 1
    /\ alt_flag + ctrl_flag + Holding(0, "early") <= 1
    /\ video_mapped => ctrl_flag + Holding(0, "early") = 0
=============================================================================
